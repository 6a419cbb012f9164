------------------------- MODULE MCTelemetryConsumer -------------------------
(* Instances of TelemetryConsumer.  Cycles are chosen around the window of  *)
(* two: cycle 1 and 2 are released by cycle 4 and leave a gap at 3.         *)
EXTENDS TelemetryConsumer

Event(id, engine, cycle, content) ==
    [event_id |-> id, engine_id |-> engine, cycle |-> cycle, content |-> content]

First == Event("a", 1, 1, "x")
FirstChanged == Event("a", 1, 1, "y")
FirstTwin == Event("b", 1, 1, "x")
Second == Event("c", 1, 2, "x")
Fourth == Event("d", 1, 4, "x")
OtherEngine == Event("e", 2, 1, "x")
Outsized == Event("f", 2, 2, "x")

NoMessages == {}

\* changed content, a gap, a second engine
ChangedContent == {First, FirstChanged, Fourth, OtherEngine}
\* two events of one cycle, then a later cycle
SharedCycle == {First, FirstTwin, Second, Fourth}
\* out-of-order arrival, a gap, a second engine
TwoEngines == {First, Second, Fourth, OtherEngine}
GapOnly == {First, Fourth}
Fourths == {Fourth}
\* and an event PostgreSQL refuses
WithOutsized == ChangedContent \cup {Outsized}
OutsizedOnly == {Outsized}
FirstsChanged == {FirstChanged}
=============================================================================
