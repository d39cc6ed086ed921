------------------------------ MODULE MCAgent ------------------------------
(***************************************************************************)
(* An instance of Agent for TLC: an interface and an IPv4 address below    *)
(* ietf-interfaces, another interface below openconfig-interfaces.         *)
(***************************************************************************)
EXTENDS Agent

CONSTANTS i1, i2, a4

TwoItfs == {i1, i2}
IetfOne == {i1}
OcOne == {i2}
AddrOne == {a4}
V6None == {}
Plen16 == {[leaf |-> "prefix-length", len |-> 16]}
EthernetOnly == {"ethernetCsmacd"}
EnabledMaybe == {TRUE, FALSE, NoLeaf}
LeafAbsent == {NoLeaf}
=============================================================================
