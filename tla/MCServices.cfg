SPECIFICATION Spec
CONSTANTS
    MaxWorkers = 2
    Capacity = 1
    MaxPanics = 1
    MaxPosts = 1
    MaxSwitches = 2
    MaxInput = 1
    Listener = {i1, i2}
    MaxRaised = 2
    MaxToggles = 4
    Processes = 2
    Isolates = {i1}
    Killable = {1}
    MaxStores = 0
    MaxCrashes = 1
    MaxAged = 1
    MaxRequests = 2
    MaxConns = 2
    Req = {f1, r1}
    Fetch = {f1}
    MaxDestroys = 1
    MaxRedirects = 1
    MaxH2Retries = 1
    Client = {c1, c2}
    MaxDaemons = 2
    MaxRootEdits = 1
    MaxOtherEdits = 0
INVARIANTS
    ServicesTypeOK
    PoolNeverGrows
    EndIsReal
    DeliveredUnderMode
    NoDeathUnderListener
    NeverTorn
    StaysUnderCheck
    OneOwner
    NeverSentTwice
    RootEditsSeen
    OldDaemonGone
PROPERTIES
    WorkerEndSeen
    ReaderResumes
    UnwatchedKills
    CloseGoesOn
    FetchSettles
CHECK_DEADLOCK FALSE
