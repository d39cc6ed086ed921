SPECIFICATION Spec
CONSTANTS
    i1 = i1
    i2 = i2
    a4 = a4
    b4 = b4
    a6 = a6
    NoLeaf = NoLeaf
    NoItf = NoItf
    NoAddr = NoAddr
    Ifs <- OneItf
    Addr <- AddrThree
    AtBoot <- OneItf
    V4 <- V4Two
    V6 <- V6One
    Subnet <- AllSubnets
    IfType <- EthernetOnly
    EnabledLeaf <- EnabledTrue
    IpLeaf <- LeafAbsent
    UninitBool = {FALSE}
    Outcome = {TRUE}
    AddrOps = {"created", "deleted"}
    MaxItfChanges = 1
    MaxAddrChanges = 3
    MayCrash = FALSE
    MaxRestarts = 0
INVARIANTS
    ConfiguredAreBound
PROPERTIES
    DeletedIsUnbound
