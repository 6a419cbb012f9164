CONSTANTS
    Message <- GapOnly
    Unscorable <- NoMessages
    Unpredictable <- NoMessages
    Inference = TRUE
    AllowedLateness = 2
    Malformed = {}
    Unstorable <- NoMessages
    NoEvent = NoEvent
    MaxRetryAttempts = 1
    MaxPublished = 4
    MaxFaults = 0
    ClientRetries = TRUE
SPECIFICATION FairSpec
PROPERTIES
    BacklogDrains
