SPECIFICATION Spec
CONSTANTS
    i1 = i1
    i2 = i2
    a4 = a4
    b4 = b4
    a6 = a6
    NoLeaf = NoLeaf
    NoItf = NoItf
    NoAddr = NoAddr
    Ifs <- OneItf
    Addr <- AddrV4One
    AtBoot <- OneItf
    V4 <- V4One
    V6 <- V6None
    Subnet <- TwoLengths
    IfType <- EthernetOnly
    EnabledLeaf <- EnabledTrue
    IpLeaf <- LeafAbsent
    UninitBool = {FALSE}
    Outcome = {TRUE}
    AddrOps = {"created", "modified", "deleted"}
    MaxItfChanges = 1
    MaxAddrChanges = 1
    MayCrash = FALSE
    MaxRestarts = 0
INVARIANTS
    ConfiguredAreBound
