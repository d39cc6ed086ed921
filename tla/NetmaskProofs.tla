--------------------------- MODULE NetmaskProofs ---------------------------
(***************************************************************************)
(* What netmask_to_plen returns, for every netmask: the loop invariant and *)
(* its consequences.                                                       *)
(***************************************************************************)
EXTENDS Netmask, TLAPS

\* The arguments are words of 32 bits.
MasksOK == Masks \subseteq SUBSET WireBit

\* The loop invariant: after i rounds n is the word shifted right by i, and no
\* round was made once the word had become zero.
LoopInv ==
    /\ netmask \in Masks
    /\ pc \in {"loop", "done"}
    /\ i \in 0 .. 32
    /\ n = {b - i : b \in {c \in inet_pton(netmask) : c >= i}}
    /\ i > 0 => \E b \in inet_pton(netmask) : b >= i - 1
    /\ pc = "done" => n = {}

\* The bits of the word are numbered 0 to 31 (inet_pton as used at sys_util.h:97).
LEMMA WordBits ==
    ASSUME NEW mask \in SUBSET WireBit
    PROVE  inet_pton(mask) \subseteq 0 .. 31
  <1>1. ASSUME NEW j \in WireBit PROVE MemBit(j) \in 0 .. 31
    BY SMT DEF MemBit, WireBit
  <1>2. QED BY <1>1 DEF inet_pton

\* The loop invariant holds initially.
LEMMA LoopInit == MasksOK /\ Init => LoopInv
  <1>1. SUFFICES ASSUME MasksOK, Init PROVE LoopInv
    OBVIOUS
  <1>2. inet_pton(netmask) \subseteq 0 .. 31
    BY <1>1, WordBits DEF MasksOK, Init
  <1>3. ASSUME NEW b \in inet_pton(netmask) PROVE b >= 0 /\ b - 0 = b
    BY <1>2
  <1>4. n = {b - 0 : b \in {c \in inet_pton(netmask) : c >= 0}}
    BY <1>1, <1>3 DEF Init
  <1>5. QED BY <1>1, <1>4 DEF Init, LoopInv

\* Every step preserves it (sys_util.h:99-102).
LEMMA LoopStep == MasksOK /\ LoopInv /\ [Next]_vars => LoopInv'
  <1>1. SUFFICES ASSUME MasksOK, LoopInv, [Next]_vars PROVE LoopInv'
    OBVIOUS
  <1>2. inet_pton(netmask) \subseteq 0 .. 31
    BY <1>1, WordBits DEF MasksOK, LoopInv
  <1>3. CASE Shift
    <2>1. PICK b \in inet_pton(netmask) : b >= i
      BY <1>1, <1>3 DEF LoopInv, Shift
    <2>2. i \in 0 .. 31 /\ i' = i + 1
      BY <1>1, <1>2, <1>3, <2>1 DEF LoopInv, Shift
    <2>3. netmask' = netmask /\ inet_pton(netmask)' = inet_pton(netmask)
      BY <1>3 DEF Shift, inet_pton
    <2>4. n' = {c - i' : c \in {d \in inet_pton(netmask) : d >= i'}}
      <3>1. ASSUME NEW x \in n'
            PROVE  x \in {c - i' : c \in {d \in inet_pton(netmask) : d >= i'}}
        <4>1. PICK y \in n \ {0} : x = y - 1
          BY <1>3 DEF Shift
        <4>2. PICK c \in inet_pton(netmask) : c >= i /\ y = c - i
          BY <1>1, <4>1 DEF LoopInv
        <4>3. c >= i' /\ x = c - i'
          BY <1>2, <2>2, <4>1, <4>2
        <4>4. QED BY <4>3
      <3>2. ASSUME NEW c \in inet_pton(netmask), c >= i'
            PROVE  c - i' \in n'
        <4>1. c - i \in n /\ c - i # 0 /\ c - i' = (c - i) - 1
          BY <1>1, <1>2, <2>2, <3>2 DEF LoopInv
        <4>2. QED BY <1>3, <4>1 DEF Shift
      <3>3. QED BY <3>1, <3>2
    <2>5. \E c \in inet_pton(netmask) : c >= i' - 1
      BY <1>2, <2>1, <2>2
    <2>6. pc' = "loop" /\ i' \in 0 .. 32
      BY <1>3, <2>2 DEF Shift
    <2>7. QED BY <1>1, <2>3, <2>4, <2>5, <2>6 DEF LoopInv
  <1>4. CASE Return
    BY <1>1, <1>4 DEF LoopInv, Return, inet_pton
  <1>5. CASE UNCHANGED vars
    BY <1>1, <1>5 DEF LoopInv, vars, inet_pton
  <1>6. QED BY <1>1, <1>3, <1>4, <1>5 DEF Next

\* The loop invariant is an invariant.
LEMMA LoopInvariant == MasksOK => (Spec => []LoopInv)
  <1>1. SUFFICES ASSUME MasksOK PROVE Spec => []LoopInv
    OBVIOUS
  <1>2. Init => LoopInv
    BY <1>1, LoopInit
  <1>3. LoopInv /\ [Next]_vars => LoopInv'
    BY <1>1, LoopStep
  <1>4. QED BY <1>2, <1>3, PTL DEF Spec

\* Type correctness: in particular i never wraps around, although it is a uint8_t
\* (sys_util.h:96-102).
THEOREM NetmaskTypeCorrect == MasksOK => (Spec => []TypeOK)
  <1> SUFFICES ASSUME MasksOK PROVE Spec => []TypeOK
    OBVIOUS
  <1>1. ASSUME LoopInv PROVE TypeOK
    <2>1. inet_pton(netmask) \subseteq 0 .. 31
      BY <1>1, WordBits DEF MasksOK, LoopInv
    <2>2. n \subseteq 0 .. 31
      BY <1>1, <2>1 DEF LoopInv
    <2>3. QED BY <1>1, <2>2 DEF LoopInv, TypeOK
  <1>2. QED BY <1>1, LoopInvariant, PTL

\* In every state the value returned, if any, is the bit length of the word.
LEMMA LoopInvBitLength == MasksOK /\ LoopInv => BitLength
  <1>1. SUFFICES ASSUME MasksOK, LoopInv, pc = "done" PROVE
           /\ \A b \in inet_pton(netmask) : b < i
           /\ i > 0 => (i - 1) \in inet_pton(netmask)
    BY DEF BitLength
  <1>2. inet_pton(netmask) \subseteq 0 .. 31
    BY <1>1, WordBits DEF MasksOK, LoopInv
  <1>3. \A b \in inet_pton(netmask) : b < i
    <2>1. ASSUME NEW b \in inet_pton(netmask), ~(b < i) PROVE FALSE
      <3>1. b >= i BY <1>1, <1>2, <2>1 DEF LoopInv
      <3>2. b - i \in n BY <1>1, <3>1 DEF LoopInv
      <3>3. QED BY <1>1, <3>2 DEF LoopInv
    <2>2. QED BY <2>1
  <1>4. ASSUME i > 0 PROVE (i - 1) \in inet_pton(netmask)
    <2>1. PICK b \in inet_pton(netmask) : b >= i - 1
      BY <1>1, <1>4 DEF LoopInv
    <2>2. b = i - 1
      BY <1>1, <1>2, <1>3, <2>1 DEF LoopInv
    <2>3. QED BY <2>1, <2>2
  <1>5. QED BY <1>3, <1>4

\* netmask_to_plen returns the bit length of the word in host byte order
\* (sys_util.h:95-104), for every netmask.
THEOREM ReturnsBitLength == MasksOK => (Spec => []BitLength)
  <1>1. SUFFICES ASSUME MasksOK PROVE Spec => []BitLength
    OBVIOUS
  <1>2. LoopInv => BitLength
    BY <1>1, LoopInvBitLength
  <1>3. Spec => []LoopInv
    BY <1>1, LoopInvariant
  <1>4. QED BY <1>2, <1>3, PTL

\* The summary SysUtil.netmask_to_plen, which IetfInterfaces computes with, is what
\* the loop returns (sys_util.h:95-104).
Summarised ==
    \A p \in 0 .. 32 :
        pc = "done" /\ netmask = ContiguousMask(p) => i = netmask_to_plen(p)

\* For the netmask of a prefix of length p the loop returns what
\* SysUtil.netmask_to_plen says (sys_util.h:95-104), for every p: the length of the
\* prefix for whole octets, and too long a one for all others.
THEOREM SummaryIsRight == MasksOK => (Spec => []Summarised)
  <1> SUFFICES ASSUME MasksOK PROVE Spec => []Summarised
    OBVIOUS
  <1>1. ASSUME LoopInv PROVE Summarised
    <2>1. SUFFICES ASSUME NEW p \in 0 .. 32, pc = "done", netmask = ContiguousMask(p)
                   PROVE  i = netmask_to_plen(p)
      BY DEF Summarised
    <2>2. i \in 0 .. 32 /\ BitLength
      BY <1>1, LoopInvBitLength DEF LoopInv
    <2>3. CASE p = 0
      <3>1. inet_pton(netmask) = {}
        BY <2>1, <2>3 DEF ContiguousMask, inet_pton
      <3>2. i = 0
        BY <2>1, <2>2, <3>1 DEF BitLength
      <3>3. QED BY <2>3, <3>2 DEF netmask_to_plen
    <2>4. CASE p > 0
      <3> DEFINE top == 8 * ((p - 1) \div 8)
      <3>1. top \in netmask /\ MemBit(top) = netmask_to_plen(p) - 1
        BY <2>1, <2>4, SMT DEF ContiguousMask, MemBit, netmask_to_plen
      <3>2. ASSUME NEW j \in netmask PROVE MemBit(j) \in Int /\ MemBit(j) <= netmask_to_plen(p) - 1
        BY <2>1, <2>4, <3>2, SMT DEF ContiguousMask, MemBit, netmask_to_plen
      <3>3. netmask_to_plen(p) - 1 < i
        BY <2>1, <2>2, <3>1 DEF BitLength, inet_pton
      <3>4. netmask_to_plen(p) \in Int
        BY <2>1, SMT DEF netmask_to_plen
      <3>5. i > 0
        BY <2>2, <2>4, <3>3, SMT DEF netmask_to_plen
      <3>6. PICK j \in netmask : i - 1 = MemBit(j)
        BY <2>1, <2>2, <3>5 DEF BitLength, inet_pton
      <3>7. QED BY <2>2, <3>2, <3>3, <3>4, <3>6
    <2>5. QED BY <2>3, <2>4
  <1>2. QED BY <1>1, LoopInvariant, PTL

=============================================================================
