SPECIFICATION FairSpec
CONSTANTS
    Inspectors = {FALSE}
    MaxCalls = 2
    MaxOutside = 1
    HandleKey = {}
    OpIdMax = 3
    MaxSentinels = 1
    IdMax = 3
    Ms = 1
    PurgeAt = 1
    Delays <- MCDelays
    MaxClock = 2
    MaxSeq = 3
    MaxPending = 1
PROPERTIES
    CompletionsSettle
    DueTimersRun
CHECK_DEADLOCK FALSE
