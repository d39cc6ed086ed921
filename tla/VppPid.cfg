SPECIFICATION FairSpec
CONSTANTS
    Pid = {1, 2, 3}
    Dirs <- OneDir
    Self = 2
    MaxFd = 3
INVARIANTS
    TypeOK
    NotFoundIsESRCH
PROPERTIES
    IsLookup
    LossNeedsARace
    LookupEnds
