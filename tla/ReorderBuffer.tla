---------------------------- MODULE ReorderBuffer ----------------------------
(***************************************************************************)
(* EventTimeReorderBuffer (streaming/reorder.py) as an object that is used *)
(* directly: any caller may observe() events of any engine in any order    *)
(* and flush() an engine at any time.  recover_pending uses it in a        *)
(* narrower way (rows sorted by cycle, one flush per engine at the end),   *)
(* which TelemetryConsumer models.                                         *)
(***************************************************************************)
EXTENDS EventTimeReorder, FiniteSets, Sequences, SequencesExt

CONSTANTS
    Engines,      \* engine identities
    Cycles,       \* the cycles callers pass; observe() rejects those below 1
    MaxObserved   \* bound: how many events one behaviour observes

ASSUME ReorderAssumption ==
    /\ Cycles \subseteq Nat \ {0}
    /\ MaxObserved \in Nat

VARIABLES
    engines,    \* [Engines -> buffer]: the dictionary _engines
    released,   \* history: [Engines -> sequence of events handed out]
    refused,    \* history: events answered "late" or "duplicate"
    flushed     \* history: engines flushed at least once

vars == <<engines, released, refused, flushed>>

(* An event is identified by the number of the observe() call it came in.  *)
Event == [cycle : Cycles, call : 1..MaxObserved]

Observed(e) ==
    engines[e].pending \cup ToSet(released[e]) \cup refused[e]

Calls == UNION {{ev.call : ev \in Observed(e)} : e \in Engines}

(* Events come out sorted by cycle.                                        *)
InCycleOrder(events) ==
    CHOOSE s \in [1..Cardinality(events) -> events] :
        /\ IsInjective(s)
        /\ \A i, j \in DOMAIN s : i < j => s[i].cycle <= s[j].cycle

Hand(e, events) ==
    released' = [released EXCEPT ![e] = @ \o InCycleOrder(events)]

Init ==
    /\ engines = [e \in Engines |-> EmptyBuffer]
    /\ released = [e \in Engines |-> <<>>]
    /\ refused = [e \in Engines |-> {}]
    /\ flushed = {}

Observe(e, cycle) ==
    LET call  == Cardinality(Calls) + 1
        event == [cycle |-> cycle, call |-> call]
    IN  /\ call <= MaxObserved
        /\ engines' = [engines EXCEPT ![e] = ObserveLeaves(@, event)]
        /\ Hand(e, ObserveReleases(engines[e], event))
        /\ refused' = IF ReorderStatus(engines[e], cycle) = "buffered"
                      THEN refused
                      ELSE [refused EXCEPT ![e] = @ \cup {event}]
        /\ UNCHANGED flushed

Flush(e) ==
    /\ engines' = [engines EXCEPT ![e] = FlushLeaves(@)]
    /\ Hand(e, FlushReleases(engines[e]))
    /\ flushed' = flushed \cup {e}
    /\ UNCHANGED refused

Next ==
    \E e \in Engines :
        \/ \E cycle \in Cycles : Observe(e, cycle)
        \/ Flush(e)

Spec == Init /\ [][Next]_vars

-----------------------------------------------------------------------------
TypeOK ==
    /\ engines \in [Engines -> [max_cycle : Cycles \cup {0}, pending : SUBSET Event]]
    /\ \A e \in Engines : released[e] \in Seq(Event)
    /\ refused \in [Engines -> SUBSET Event]
    /\ flushed \subseteq Engines

(* Nothing buffered may be overdue: after every call, whatever the order   *)
(* of observe and flush, all pending cycles are ahead of the watermark and *)
(* no two share a cycle (the code's dictionary key).                       *)
OnlyUnripeHeld ==
    \A e \in Engines :
        /\ Ripe(engines[e]) = {}
        /\ \A a, b \in engines[e].pending : a.cycle = b.cycle => a = b

(* Every admitted event is held or handed out, once: a released event is   *)
(* never handed out again by a later observe or flush, and a refused one   *)
(* is never handed out at all.                                             *)
HandedOutOnce ==
    \A e \in Engines :
        /\ IsInjective(released[e])
        /\ engines[e].pending \cap ToSet(released[e]) = {}
        /\ refused[e] \cap (engines[e].pending \cup ToSet(released[e])) = {}

(* The promise of the class: as long as an engine was not flushed, what it *)
(* hands out is in event-time order, over any number of calls.             *)
ReleasedInOrder ==
    \A e \in Engines \ flushed :
        \A i, j \in DOMAIN released[e] :
            i < j => released[e][i].cycle <= released[e][j].cycle

(* After a flush the order can be broken, because flush keeps max_cycle    *)
(* but forgets which cycles were handed out.  The damage is bounded by the *)
(* lateness window: an event handed out after another is never more than   *)
(* AllowedLateness cycles older.                                           *)
DisorderBounded ==
    \A e \in Engines : \A i, j \in DOMAIN released[e] :
        i < j => released[e][j].cycle >= released[e][i].cycle - AllowedLateness
=============================================================================
