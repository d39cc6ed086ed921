SPECIFICATION Spec
CONSTANTS
    ietf_interface_init = ietf_interface_init
    ietf_nat_init = ietf_nat_init
    openconfig_interface_init = openconfig_interface_init
    Fn = {ietf_interface_init, ietf_nat_init, openconfig_interface_init}
    Subs <- MCSubs
    MaxInits = 3
INVARIANTS
    TypeOK
    FirstInitComplete
PROPERTIES
    NoDuplicateSubscription
    ContextIsLive
    CleanupReleasesAll
CHECK_DEADLOCK FALSE
