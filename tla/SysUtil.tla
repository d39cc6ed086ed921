------------------------------ MODULE SysUtil ------------------------------
(***************************************************************************)
(* Pure helpers of src/plugins/sys_util.h that other modules compute with. *)
(*                                                                         *)
(* An IPv4 netmask is the set of its one bits.  WireBit numbers the bits   *)
(* as they are written (0 is the most significant bit of the first octet). *)
(* MemBit(j) is where wire bit j lands in the in_addr_t that inet_pton     *)
(* fills: octets in memory order, read by a little-endian host (every      *)
(* platform VPP is packaged for).                                          *)
(***************************************************************************)
EXTENDS Integers

WireBit == 0 .. 31

MemBit(j) == 8 * (j \div 8) + (7 - (j % 8))

\* inet_pton(AF_INET, netmask, &n), as the set of one bits of n.
inet_pton(mask) == {MemBit(j) : j \in mask}

\* The netmask that stands for a prefix of length p.
ContiguousMask(p) == 0 .. (p - 1)

\* What the loop of netmask_to_plen returns for the netmask of a prefix of length
\* p: the number of bits up to the end of the last octet that is not zero (module
\* Netmask; it is p only for whole octets).
netmask_to_plen(p) == 8 * ((p + 7) \div 8)
=============================================================================
