CONSTANTS
    __FREELISTS = 3
    NObjs = 2
    Bases <- MCFewBases
    MaxUsed = 3
SPECIFICATION PoolSpec
INVARIANT BlocksFromMalloc
CHECK_DEADLOCK FALSE
