SPECIFICATION AgentSpec
CONSTANTS
    i1 = i1
    i2 = i2
    a4 = a4
    NoLeaf = NoLeaf
    NoItf = NoItf
    NoAddr = NoAddr
    Ifs <- TwoItfs
    IetfIfs <- IetfOne
    OcIfs <- OcOne
    Addr <- AddrOne
    AtBoot <- OcOne
    V4 <- AddrOne
    V6 <- V6None
    Subnet <- Plen16
    IfType <- EthernetOnly
    EnabledLeaf = {TRUE}
    OcEnabledLeaf <- EnabledMaybe
    IpLeaf <- LeafAbsent
    UninitBool = {FALSE}
    OcUninitBool = {FALSE}
    Outcome = {TRUE}
    AddrOps = {"created", "deleted"}
    MaxItfChanges = 1
    MaxAddrChanges = 1
    MaxOcChanges = 1
    MayCrash = TRUE
    MaxRestarts = 0
INVARIANTS
    AdminStatusIsConfigured
CHECK_DEADLOCK FALSE
