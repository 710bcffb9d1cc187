SPECIFICATION Spec
CONSTANTS
    Inspectors = {FALSE}
    MaxCalls = 3
    MaxOutside = 1
    HandleKey = {}
    OpIdMax = 4
    MaxSentinels = 1
    IdMax = 4
    Ms = 1
    PurgeAt = 1
    Delays <- MCDelays
    MaxClock = 2
    MaxSeq = 3
    MaxPending = 1
INVARIANT
    NoWaitOverTicks
CHECK_DEADLOCK FALSE
