CONSTANTS
    Message <- GapOnly
    Unscorable <- NoMessages
    Unpredictable <- NoMessages
    Inference = TRUE
    AllowedLateness = 2
    Malformed = {}
    Unstorable <- NoMessages
    NoEvent = NoEvent
    MaxRetryAttempts = 1
    MaxPublished = 2
    MaxFaults = 1
    ClientRetries = FALSE
SPECIFICATION Spec
INVARIANTS
    RetryIsSafeDuplicate
