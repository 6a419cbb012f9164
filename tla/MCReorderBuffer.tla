--------------------------- MODULE MCReorderBuffer ---------------------------
(* One engine, window of two cycles as in recover_pending, cycles 1..5 so   *)
(* that the newest cycle can run the window over twice.                     *)
EXTENDS ReorderBuffer

MCEngines == {1}
MCCycles == 1..5
=============================================================================
