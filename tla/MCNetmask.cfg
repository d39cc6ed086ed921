SPECIFICATION Spec
CONSTANT Masks <- MCMasks
INVARIANTS PrefixLength
CHECK_DEADLOCK FALSE
