SPECIFICATION Spec
CONSTANTS
    IdMax = 4
    Ms = 2
    PurgeAt = 4
    Delays <- MCDelays
    MaxClock = 4
    MaxSeq = 3
    MaxPending = 1
PROPERTY
    PendingBeforeNextCheckPhase
CHECK_DEADLOCK FALSE
