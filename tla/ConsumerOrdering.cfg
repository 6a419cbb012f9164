CONSTANTS
    Message <- SharedCycle
    Unscorable <- NoMessages
    Unpredictable <- NoMessages
    Inference = FALSE
    AllowedLateness = 2
    Malformed = {}
    Unstorable <- NoMessages
    NoEvent = NoEvent
    MaxRetryAttempts = 0
    MaxPublished = 4
    MaxFaults = 1
    ClientRetries = FALSE
SPECIFICATION Spec
INVARIANTS
    TypeOK
PROPERTIES
    NeverOvertakes
