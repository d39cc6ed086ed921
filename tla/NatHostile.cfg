SPECIFICATION Spec
CONSTANTS
    n1 = n1
    x1 = x1
    x2 = x2
    in1 = in1
    in2 = in2
    out1 = out1
    out2 = out2
    Unspecified = Unspecified
    NoLeaf = NoLeaf
    NoEntry = NoEntry
    NoPair = NoPair
    NoIndex = NoIndex
    Inst <- OneInst
    Index <- TwoIndexes
    Addr <- FourAddrs
    Config <- HostileConfigs
    UninitBool = {TRUE, FALSE}
    UninitIndex <- TwoIndexes
    Outcome = {TRUE, FALSE}
    OtherVote = {TRUE, FALSE}
    MaxChanges = 2
    MaxRestarts = 1
INVARIANTS
    TypeOK
    TableIsMapped
PROPERTIES
    AcceptedEntryIsMapped
CHECK_DEADLOCK FALSE
