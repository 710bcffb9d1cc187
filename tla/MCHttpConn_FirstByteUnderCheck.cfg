SPECIFICATION ConnSpec
CONSTANTS
    MaxRequests = 2
INVARIANT
    FirstByteUnderCheck
CHECK_DEADLOCK FALSE
