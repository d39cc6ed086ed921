-------------------------- MODULE MCIetfInterfaces --------------------------
(***************************************************************************)
(* Instances of IetfInterfaces for TLC.  The subnets are given by a        *)
(* prefix-length or by a netmask of whole octets, for which                *)
(* netmask_to_plen is right (see module Netmask for the others).           *)
(***************************************************************************)
EXTENDS IetfInterfaces

CONSTANTS i1, i2, a4, b4, a6

OneItf == {i1}
TwoItfs == {i1, i2}
V4One == {a4}
V4Two == {a4, b4}
V6None == {}
V6One == {a6}
AddrV4One == {a4}
AddrBoth == {a4, a6}
AddrThree == {a4, b4, a6}

Plen16 == [leaf |-> "prefix-length", len |-> 16]
Plen24 == [leaf |-> "prefix-length", len |-> 24]
Mask24 == [leaf |-> "netmask", len |-> 24]
Plen64 == [leaf |-> "prefix-length", len |-> 64]
\* Two values of one leaf: a change from one to the other is MODIFIED.
TwoLengths == {Plen16, Plen24}
AllSubnets == {Plen16, Mask24, Plen64}

EthernetOnly == {"ethernetCsmacd"}
AnyType == {"ethernetCsmacd", "other"}
EnabledGiven == {TRUE, FALSE}
EnabledTrue == {TRUE}
LeafAbsent == {NoLeaf}
=============================================================================
