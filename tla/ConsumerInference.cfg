CONSTANTS
    Message <- WithOutsized
    Unscorable <- Fourths
    Unpredictable <- FirstsChanged
    Inference = TRUE
    AllowedLateness = 2
    Malformed = {}
    Unstorable <- OutsizedOnly
    NoEvent = NoEvent
    MaxRetryAttempts = 1
    MaxPublished = 3
    MaxFaults = 1
    ClientRetries = TRUE
SPECIFICATION FairSpec
INVARIANTS
    ScoredConsistently
    WarningNotLost
PROPERTIES
    OnlyErrorsBlock
