SPECIFICATION AgentSpec
CONSTANTS
    i1 = i1
    i2 = i2
    a4 = a4
    NoLeaf = NoLeaf
    NoItf = NoItf
    NoAddr = NoAddr
    Ifs <- TwoItfs
    IetfIfs <- IetfOne
    OcIfs <- OcOne
    Addr <- AddrOne
    AtBoot <- IetfOne
    V4 <- AddrOne
    V6 <- V6None
    Subnet <- Plen16
    IfType <- EthernetOnly
    EnabledLeaf = {TRUE}
    OcEnabledLeaf <- EnabledMaybe
    IpLeaf <- LeafAbsent
    UninitBool = {FALSE}
    OcUninitBool = {TRUE, FALSE}
    Outcome = {TRUE, FALSE}
    AddrOps = {"created", "deleted"}
    MaxItfChanges = 1
    MaxAddrChanges = 1
    MaxOcChanges = 1
    MayCrash = TRUE
    MaxRestarts = 1
INVARIANTS
    AgentTypeOK
    AnswerFits
PROPERTIES
    AcceptedAddressReachesVpp
    AcceptedOcReachesVpp
    IetfUndisturbed
CHECK_DEADLOCK FALSE
