SPECIFICATION Spec
CONSTANTS
    a = a
    b = b
    c = c
    n = n
    x = x
    y = y
    c1 = c1
    c2 = c2
    NoEvent = NoEvent
    Message <- MCMessage
    Unscorable <- MCUnscorable
    Unpredictable = {}
    NullMeasured <- MCNulls
    Inference = TRUE
    Clients = {c1, c2}
    Timestamp <- MCTimestamp
    Watched <- MCWatched
    Flushed <- MCFlushed
    Drills <- MCDrills
INVARIANTS
    OperationsTypeOK
    GapAccountable
    ScoredAsStored
    DetailCoherent
    FleetAgreesWithDetail
    RequestedOnce
PROPERTIES
    ImplementsRegister
    OnlyRepeatedFailuresRequest
    MonitoringResumes
