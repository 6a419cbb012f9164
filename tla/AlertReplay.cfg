CONSTANTS
    Prediction <- OneEvent
    WarningRul = 30
    CriticalRul = 10
    DataQualityAlerts = TRUE
    Operators = {ann}
    NoOne = NoOne
    NoView = NoView
    MaxEvaluations = 2
SPECIFICATION Spec
INVARIANTS
    NoDuplicateAlerts
