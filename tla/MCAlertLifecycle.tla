--------------------------- MODULE MCAlertLifecycle ---------------------------
(* An engine whose RUL falls below both thresholds, an event no features    *)
(* could be built for, and two operators.                                   *)
EXTENDS AlertLifecycle, TLC

Pred(id, status, rul, flags) ==
    [event_id |-> id, engine_id |-> 1, status |-> status, estimated_rul |-> rul,
     quality_flags |-> flags]

Worn == Pred("a", "available", 20, {})
Failing == Pred("b", "degraded", 10, {})
Unusable == Pred("c", "withheld", 0, {"feature_build_error"})

Wearing == {Worn, Failing, Unusable}
OneEvent == {Worn}

OperatorSymmetry == Permutations(Operators)
=============================================================================
