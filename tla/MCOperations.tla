---------------------------- MODULE MCOperations ----------------------------
EXTENDS Operations, TLC

CONSTANTS a, b, c, n, x, y, c1, c2

Event(id, k, content) ==
    [event_id |-> id, engine_id |-> 1, cycle |-> k, content |-> content]

First == Event(a, 1, x)
Changed == Event(a, 5, y)
Gapped == Event(b, 4, x)
Between == Event(c, 2, x)
WithNull == Event(n, 1, x)

MCMessage == {First, Changed, Gapped, Between, WithNull}
MCWatched == {First, Changed, WithNull}
MCFlushed == {Gapped, Changed}
MCNulls == {WithNull}
MCUnscorable == {Between, WithNull}

(* The event of the highest cycle has the oldest timestamp.                *)
MCTimestamp ==
    (Changed :> 0 @@ First :> 1 @@ Between :> 2 @@ Gapped :> 3 @@ WithNull :> 4)

MCDrills == {{Degradation}}
=============================================================================
