CONSTANTS
    Message <- ChangedContent
    Unscorable <- NoMessages
    Unpredictable <- NoMessages
    Inference = TRUE
    AllowedLateness = 2
    Malformed = {}
    Unstorable <- NoMessages
    NoEvent = NoEvent
    MaxRetryAttempts = 1
    MaxPublished = 2
    MaxFaults = 0
    ClientRetries = FALSE
SPECIFICATION Spec
INVARIANTS
    ChangedContentReported
