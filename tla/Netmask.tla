------------------------------ MODULE Netmask ------------------------------
(***************************************************************************)
(* The loop of utils::netmask_to_plen (src/plugins/sys_util.h): convert a  *)
(* netmask to a prefix length by counting how often the 32 bit word that   *)
(* inet_pton filled can be shifted right before it is zero.                *)
(***************************************************************************)
EXTENDS SysUtil

CONSTANT Masks          \* the netmasks the function may be called with

VARIABLES netmask,      \* the argument
          n,            \* in_addr_t n, as the set of its one bits
          i,            \* uint8_t i
          pc            \* "loop" while the while statement runs

vars == <<netmask, n, i, pc>>

TypeOK ==
    /\ netmask \in Masks
    /\ n \in SUBSET (0 .. 31)
    /\ i \in 0 .. 255
    /\ pc \in {"loop", "done"}

Init ==
    /\ netmask \in Masks
    /\ n = inet_pton(netmask)
    /\ i = 0
    /\ pc = "loop"

\* while (n > 0) { n = n >> 1; i++; }
Shift ==
    /\ pc = "loop"
    /\ n # {}
    /\ n' = {b - 1 : b \in n \ {0}}
    /\ i' = (i + 1) % 256
    /\ UNCHANGED <<netmask, pc>>

\* return i;
Return ==
    /\ pc = "loop"
    /\ n = {}
    /\ pc' = "done"
    /\ UNCHANGED <<netmask, n, i>>

Next == Shift \/ Return

Spec == Init /\ [][Next]_vars

-----------------------------------------------------------------------------
\* For every netmask, contiguous or not, the value returned is the number of
\* significant bits of the word in host byte order: one more than its highest
\* one bit, and 0 for 0.0.0.0 (sys_util.h:99-104).
BitLength ==
    pc = "done" => /\ \A b \in inet_pton(netmask) : b < i
                   /\ i > 0 => (i - 1) \in inet_pton(netmask)

\* "Convert netmask to prefix length. 255.255.255.0->24" (sys_util.h:77): the
\* value returned for the netmask of a prefix is the length of the prefix.  The
\* loop does not compute this for masks that end within an octet.
PrefixLength ==
    \A p \in 0 .. 32 : pc = "done" /\ netmask = ContiguousMask(p) => i = p
=============================================================================
