CONSTANTS
    Message <- ChangedContent
    Unscorable <- NoMessages
    Unpredictable <- NoMessages
    Inference = FALSE
    AllowedLateness = 2
    Malformed = {malformed}
    Unstorable <- NoMessages
    NoEvent = NoEvent
    MaxRetryAttempts = 1
    MaxPublished = 3
    MaxFaults = 1
    ClientRetries = TRUE
SPECIFICATION FairSpec
INVARIANTS
    NothingLost
    OriginalPreserved
PROPERTIES
    ImplementsIngest
    ImplementsFairIngest
    EverythingSettles
