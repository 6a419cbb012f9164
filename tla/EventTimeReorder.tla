-------------------------- MODULE EventTimeReorder --------------------------
(***************************************************************************)
(* The per-engine reorder buffer of streaming/reorder.py as operators on   *)
(* one buffer value.  EventTimeReorderBuffer keeps a dictionary from       *)
(* engine to such a value; ReorderBuffer and TelemetryConsumer keep the    *)
(* dictionary as a state variable.                                         *)
(*                                                                         *)
(* A buffered event is any record with a field "cycle".  The code returns  *)
(* released events as a tuple sorted by cycle; the cycles in one buffer    *)
(* are distinct, so here they are a set that its user takes in cycle       *)
(* order (Earliest).                                                       *)
(***************************************************************************)
EXTENDS Integers

CONSTANT AllowedLateness  \* recover_pending passes 2

ASSUME LatenessAssumption == AllowedLateness \in Nat

(* max_cycle is 0 for Python's None: cycles are positive.                  *)
EmptyBuffer == [max_cycle |-> 0, pending |-> {}]

Watermark(buffer) == buffer.max_cycle - AllowedLateness

(* Mutant of ReorderStatus: the watermark is not looked at.                *)
ReorderStatusNeverLate(buffer, cycle) ==
    IF \E e \in buffer.pending : e.cycle = cycle THEN "duplicate" ELSE "buffered"

(* What observe() answers for an event of this cycle: a cycle that is      *)
(* still pending is a duplicate, whatever its content; one strictly behind *)
(* the watermark is late.                                                  *)
ReorderStatus(buffer, cycle) ==
    IF \E e \in buffer.pending : e.cycle = cycle THEN "duplicate"
    ELSE IF buffer.max_cycle # 0 /\ cycle < Watermark(buffer) THEN "late"
    ELSE "buffered"

(* Mutant of Admit: the newest cycle counts as already over.               *)
AdmitAhead(buffer, event) ==
    [max_cycle |-> IF event.cycle > buffer.max_cycle
                   THEN event.cycle + 1 ELSE buffer.max_cycle,
     pending   |-> buffer.pending \cup {event}]

Admit(buffer, event) ==
    [max_cycle |-> IF event.cycle > buffer.max_cycle
                   THEN event.cycle ELSE buffer.max_cycle,
     pending   |-> buffer.pending \cup {event}]

Ripe(buffer) == {e \in buffer.pending : e.cycle <= Watermark(buffer)}

Drop(buffer, events) == [buffer EXCEPT !.pending = @ \ events]

(* Mutant of ObserveReleases: releases before the event moved the          *)
(* watermark.                                                              *)
ObserveReleasesEarly(buffer, event) ==
    IF ReorderStatus(buffer, event.cycle) = "buffered" THEN Ripe(buffer) ELSE {}

(* The events observe() releases, and the buffer it leaves.                *)
ObserveReleases(buffer, event) ==
    IF ReorderStatus(buffer, event.cycle) = "buffered"
    THEN Ripe(Admit(buffer, event)) ELSE {}

ObserveLeaves(buffer, event) ==
    IF ReorderStatus(buffer, event.cycle) = "buffered"
    THEN Drop(Admit(buffer, event), ObserveReleases(buffer, event))
    ELSE buffer

(* Mutants of FlushLeaves: forgets to empty the buffer; forgets the newest *)
(* cycle as well.                                                          *)
FlushLeavesFull(buffer) == buffer
FlushLeavesNothing(buffer) == EmptyBuffer

(* flush() empties the buffer but keeps max_cycle.                         *)
FlushReleases(buffer) == buffer.pending

FlushLeaves(buffer) == Drop(buffer, buffer.pending)

(* The events of a batch whose turn it is.                                 *)
Earliest(events) == {e \in events : \A f \in events : e.cycle <= f.cycle}
=============================================================================
