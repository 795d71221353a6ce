CONSTANTS
    __FREELISTS = 3
    NObjs = 2
    Bases <- MCFewBases
    MaxUsed = 3
SPECIFICATION PoolSpec
INVARIANTS PoolInv NothingLost
PROPERTY BorrowsSoundly
CHECK_DEADLOCK FALSE
