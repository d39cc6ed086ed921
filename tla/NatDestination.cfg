SPECIFICATION Spec
CONSTANTS
    n1 = n1
    x1 = x1
    x2 = x2
    in1 = in1
    in2 = in2
    out1 = out1
    out2 = out2
    Unspecified = Unspecified
    NoLeaf = NoLeaf
    NoEntry = NoEntry
    NoPair = NoPair
    NoIndex = NoIndex
    Inst <- OneInst
    Index <- TwoIndexes
    Addr <- FourAddrs
    Config <- PairConfigs
    UninitBool = {FALSE}
    UninitIndex <- TwoIndexes
    Outcome = {TRUE}
    OtherVote = {TRUE}
    MaxChanges = 1
    MaxRestarts = 0
INVARIANTS
    MappingsMirrorRunning
