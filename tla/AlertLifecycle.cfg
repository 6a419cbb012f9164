CONSTANTS
    Prediction <- Wearing
    WarningRul = 30
    CriticalRul = 10
    DataQualityAlerts = TRUE
    Operators = {ann, bob}
    NoOne = NoOne
    NoView = NoView
    MaxEvaluations = 3
SYMMETRY OperatorSymmetry
SPECIFICATION Spec
INVARIANTS
    TypeOK
    OneActivePerKey
    AuditExplainsState
PROPERTIES
    ActedOnSeen
    ClosedForGood
