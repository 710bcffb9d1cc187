SPECIFICATION PoolSpec
CONSTANTS
    MaxConns = 2
    Req = {r1, r2}
    MaxDestroys = 1
INVARIANT NeverReparked
CHECK_DEADLOCK FALSE
