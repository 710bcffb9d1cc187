SPECIFICATION QueuesSpec
CONSTANTS
    IdMax = 2
    Ms = 2
    PurgeAt = 1
    Delays <- MCDelays
    MaxClock = 4
    MaxSeq = 3
    MaxPending = 1
    k1 = k1
    k2 = k2
    HandleKey <- MCHandleKey
    OpIdMax = 5
    MaxSentinels = 1
SYMMETRY HandleSymmetry
INVARIANTS
    TypeOK
    RefCountExact
    NoTimerLost
    OpsTypeOK
    InflightExact
    HandlesConsistent
PROPERTIES
    BehavesAsNode
    TimersNeverEarly
    PendingNotOvertaken
    BehavesAsPromised
CHECK_DEADLOCK FALSE
