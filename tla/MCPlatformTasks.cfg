SPECIFICATION FairSpec
CONSTANTS
    Isolate = {i1, i2}
    Key = {k1}
    MaxPosts = 2
    MaxRuns = 2
    MaxClock = 2
INVARIANTS
    TypeOK
    NoLostWake
    TasksStayHome
    NothingSwallowed
    DelayedAreTimed
PROPERTIES
    NothingOutlivesIsolate
    TasksRun
CHECK_DEADLOCK FALSE
