CONSTANTS
    AllowedLateness = 2
    Engines <- MCEngines
    Cycles <- MCCycles
    MaxObserved = 4
SPECIFICATION Spec
INVARIANTS
    TypeOK
    OnlyUnripeHeld
    HandedOutOnce
    ReleasedInOrder
    DisorderBounded
