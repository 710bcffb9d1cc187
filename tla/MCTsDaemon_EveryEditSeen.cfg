SPECIFICATION TsSpec
CONSTANTS
    Client = {c1, c2}
    MaxDaemons = 1
    MaxRootEdits = 1
    MaxOtherEdits = 1
INVARIANT EveryEditSeen
CHECK_DEADLOCK FALSE
