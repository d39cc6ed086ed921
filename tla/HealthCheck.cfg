SPECIFICATION FairSpec
CONSTANTS
    Obj = {o1, o2}
    MaxPid = 3
    NotFound <- MCNotFound
INVARIANTS
    TypeOK
    NothingLost
PROPERTIES
    Recovers
    CheckKeepsPidTrue
CHECK_DEADLOCK FALSE
