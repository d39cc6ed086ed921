SPECIFICATION Spec
CONSTANTS
    i1 = i1
    i2 = i2
    a4 = a4
    b4 = b4
    a6 = a6
    NoLeaf = NoLeaf
    NoItf = NoItf
    NoAddr = NoAddr
    Ifs <- TwoItfs
    Addr <- AddrV4One
    AtBoot <- OneItf
    V4 <- V4One
    V6 <- V6None
    Subnet <- TwoLengths
    IfType <- AnyType
    EnabledLeaf <- EnabledGiven
    IpLeaf <- LeafAbsent
    UninitBool = {TRUE, FALSE}
    Outcome = {TRUE, FALSE}
    AddrOps = {"created", "deleted"}
    MaxItfChanges = 2
    MaxAddrChanges = 0
    MayCrash = TRUE
    MaxRestarts = 1
INVARIANTS
    TypeOK
PROPERTIES
    AcceptedItfReachesVpp
CHECK_DEADLOCK FALSE
