---------------------------- MODULE MCPluginInit ----------------------------
EXTENDS PluginInit, TLC

CONSTANTS ietf_interface_init, ietf_nat_init, openconfig_interface_init

\* The subscriptions the three init functions really make.
MCSubs == ietf_interface_init :> 5 @@ ietf_nat_init :> 3
              @@ openconfig_interface_init :> 2
=============================================================================
