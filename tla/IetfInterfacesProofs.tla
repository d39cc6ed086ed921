------------------------ MODULE IetfInterfacesProofs ------------------------
(***************************************************************************)
(* The ietf-interfaces callbacks for any sets of interfaces, addresses and *)
(* subnets, commits of any size, failing commands, uninitialised flags,    *)
(* crashes and restarts: type correctness, and what an accepted commit has *)
(* done.                                                                   *)
(***************************************************************************)
EXTENDS IetfInterfaces, TLAPS

\* Every netmask consists of whole octets.  Of any other one netmask_to_plen makes
\* a longer prefix (sys_util.h:77-98), and the prefix that was asked for is never
\* written: the theorems about prefixes are conditional on Exact.
Exact == \A s \in Subnet : PlenOf(s) = s.len

\* The binding the callback makes of subnet s below address a of interface n.
BindingOf(n, a, s) == [itf |-> n, addr |-> a, plen |-> PlenOf(s)]

\* It is the prefix that was asked for (ietf_interface.cpp:244-267).
LEMMA ExactBinding ==
    ASSUME Exact, NEW n, NEW a, NEW s \in Subnet
    PROVE  BindingOf(n, a, s) = PrefixOf(n, a, s)
  BY DEF Exact, BindingOf, PrefixOf

-----------------------------------------------------------------------------
(* The operations of VOM.                                                  *)

\* What VOM takes for pushed is in VPP, and belongs to objects VOM has.  It holds
\* for any caller of VOM; the callbacks rely on it when OM::write sends nothing.
BeliefIsSound ==
    /\ l3Ok \subseteq vppL3
    /\ l3Ok \subseteq bootL3 \cup usrL3
    /\ adminOk \subseteq Found
    /\ \A n \in adminOk : n \in vppUp <=> admin[n]

\* What each operation of VOM preserves.
VomInv == VomTypeOK /\ BeliefIsSound

\* The start: OM::populate on a VPP without configuration (sc_plugins.c:129).
LEMMA VomInitOK == VomInit => VomInv
  BY AtBootAssumption DEF VomInit, VomInv, VomTypeOK, BeliefIsSound, Found, LiveItf, Binding

\* OM::populate after a restart (sc_plugins.c:129).
LEMMA PopulateOK == VomInv /\ OM_populate => VomInv'
  <1>1. SUFFICES ASSUME VomInv, OM_populate PROVE VomInv'
    OBVIOUS
  <1>2. bootItf' \in SUBSET Ifs
    BY <1>1, AtBootAssumption DEF VomInv, VomTypeOK, OM_populate, LiveItf, Binding, vppVars
  <1>3. VomTypeOK'
    <2>1. bootL3' \in SUBSET Binding /\ l3Ok' \in SUBSET Binding /\ vppL3' \in SUBSET Binding
      BY <1>1 DEF VomInv, VomTypeOK, OM_populate, vppVars
    <2>2. usrItf' \in SUBSET Ifs /\ usrL3' \in SUBSET Binding
      BY <1>1 DEF OM_populate
    <2>3. adminOk' \in SUBSET Ifs
      BY <1>1, <1>2 DEF OM_populate
    <2>4. admin' \in [Ifs -> BOOLEAN]
      BY <1>1 DEF OM_populate
    <2>5. vppUp' \in SUBSET Ifs
      BY <1>1 DEF VomInv, VomTypeOK, OM_populate, vppVars
    <2>6. QED BY <1>2, <2>1, <2>2, <2>3, <2>4, <2>5 DEF VomTypeOK
  <1>4. adminOk' \subseteq Found'
    BY <1>1 DEF OM_populate, Found, LiveItf
  <1>5. \A n \in adminOk' : n \in vppUp' <=> admin'[n]
    BY <1>1, <1>2 DEF OM_populate, vppVars
  <1>6. QED BY <1>1, <1>3, <1>4, <1>5 DEF VomInv, BeliefIsSound, OM_populate, vppVars

\* interface::set (ietf_interface.cpp:142).
LEMMA SetOK ==
    ASSUME VomInv, NEW n \in Ifs, NEW up \in BOOLEAN, Itf_set(n, up)
    PROVE  VomInv'
  <1>1. VomTypeOK'
    BY DEF VomInv, VomTypeOK, Itf_set
  <1>2. BeliefIsSound'
    BY DEF VomInv, VomTypeOK, BeliefIsSound, Itf_set, Found, LiveItf
  <1>3. QED BY <1>1, <1>2 DEF VomInv

\* OM::write of an interface (ietf_interface.cpp:185).
LEMMA WriteItfOK ==
    ASSUME VomInv, NEW n \in Ifs, NEW up \in BOOLEAN, NEW ok \in BOOLEAN,
           OM_write_itf(n, up, ok)
    PROVE  VomInv'
  <1>1. VomTypeOK'
    BY DEF VomInv, VomTypeOK, OM_write_itf
  <1>2. adminOk' \subseteq Found'
    BY DEF VomInv, BeliefIsSound, OM_write_itf, Found, LiveItf
  <1>3. ASSUME NEW m \in adminOk' PROVE m \in vppUp' <=> admin'[m]
    <2>1. m \in Ifs
      BY <1>1 DEF VomTypeOK
    <2>2. CASE m # n
      BY <2>1, <2>2 DEF VomInv, VomTypeOK, BeliefIsSound, OM_write_itf
    <2>3. CASE m = n /\ SendsItf(n, up)
      BY <1>3, <2>3 DEF VomInv, VomTypeOK, OM_write_itf
    <2>4. CASE m = n /\ ~SendsItf(n, up)
      BY <2>4 DEF VomInv, VomTypeOK, BeliefIsSound, OM_write_itf, SendsItf
    <2>5. QED BY <2>2, <2>3, <2>4
  <1>4. QED BY <1>1, <1>2, <1>3 DEF VomInv, BeliefIsSound, OM_write_itf

\* OM::remove of an interface's key (ietf_interface.cpp:194).
LEMMA RemoveItfOK ==
    ASSUME VomInv, NEW n, NEW ok \in BOOLEAN, OM_remove_itf(n, ok)
    PROVE  VomInv'
  <1>1. VomTypeOK'
    BY DEF VomInv, VomTypeOK, OM_remove_itf, SweepItf
  <1>2. adminOk' \subseteq Found'
    BY DEF VomInv, BeliefIsSound, OM_remove_itf, SweepItf, Found
  <1>3. \A m \in adminOk' : m \in vppUp' <=> admin'[m]
    BY DEF VomInv, BeliefIsSound, OM_remove_itf, SweepItf
  <1>4. QED BY <1>1, <1>2, <1>3 DEF VomInv, BeliefIsSound, OM_remove_itf

\* OM::write of a binding (ietf_interface.cpp:230).
LEMMA WriteL3OK ==
    ASSUME VomInv, NEW b \in Binding, NEW ok \in BOOLEAN, OM_write_l3(b, ok)
    PROVE  VomInv'
  <1>1. VomTypeOK'
    BY DEF VomInv, VomTypeOK, OM_write_l3
  <1>2. adminOk' \subseteq Found'
    BY DEF VomInv, BeliefIsSound, OM_write_l3, Found, LiveItf
  <1>3. l3Ok' \subseteq vppL3' /\ l3Ok' \subseteq bootL3' \cup usrL3'
    BY DEF VomInv, BeliefIsSound, OM_write_l3
  <1>4. QED BY <1>1, <1>2, <1>3 DEF VomInv, BeliefIsSound, OM_write_l3

\* OM::remove of a binding's key (ietf_interface.cpp:236).
LEMMA RemoveL3OK ==
    ASSUME VomInv, NEW b, NEW ok \in BOOLEAN, OM_remove_l3(b, ok)
    PROVE  VomInv'
  <1>1. VomTypeOK'
    BY DEF VomInv, VomTypeOK, OM_remove_l3, SweepItf
  <1>2. adminOk' \subseteq Found'
    BY DEF VomInv, BeliefIsSound, OM_remove_l3, SweepItf, Found
  <1>3. \A m \in adminOk' : m \in vppUp' <=> admin'[m]
    BY DEF VomInv, BeliefIsSound, OM_remove_l3, SweepItf
  <1>4. l3Ok' \subseteq vppL3' /\ l3Ok' \subseteq bootL3' \cup usrL3'
    BY DEF VomInv, BeliefIsSound, OM_remove_l3
  <1>5. QED BY <1>1, <1>2, <1>3, <1>4 DEF VomInv, BeliefIsSound

\* Nothing changes.
LEMMA UnchangedOK == VomInv /\ UNCHANGED hwVars => VomInv'
  BY DEF VomInv, VomTypeOK, BeliefIsSound, Found, LiveItf, hwVars

-----------------------------------------------------------------------------
(* The inductive invariant.                                                *)

\* What is left to be visited was changed by the commit.  Without it the type of
\* the leaves a callback reads is unknown.
LeftOK ==
    /\ phase = "itf" => leftItf \subseteq ChangedItf
    /\ phase \in AddrPhase \cup {"itf"} => leftAddr \subseteq ChangedAddr

Plugin == DatastoreTypeOK /\ CommitTypeOK /\ CreateTypeOK /\ AddrTypeOK /\ LeftOK

IInv == VomInv /\ Plugin

\* The locals of both callbacks start with values of their types
\* (ietf_interface.cpp:101-110, :287-293).
LEMMA FreshLocals ==
    /\ NoBuilder \in [name : Ifs \cup {NoItf}, type : BOOLEAN, state : BOOLEAN \cup {NoLeaf}]
    /\ NoFlags \in [create : BOOLEAN, modify : BOOLEAN, remove : BOOLEAN]
    /\ NoLocals \in [if_name : Ifs \cup {NoItf},
                     new_addr : Addr \cup {NoAddr}, new_prefix : 0 .. 255,
                     old_addr : Addr \cup {NoAddr}, old_prefix : 0 .. 255,
                     create : BOOLEAN, del : BOOLEAN, op_rc : BOOLEAN]
  BY DEF NoBuilder, NoFlags, NoLocals

\* The prefix length of a subnet fits in a uint8_t (ietf_interface.cpp:261-266).
LEMMA PlenRange == ASSUME NEW s \in Subnet PROVE PlenOf(s) \in 0 .. 255
  <1>1. s.len \in 1 .. 128 /\ (s.leaf = "netmask" => s.len <= 32)
    BY ConfigAssumption
  <1>2. QED BY <1>1, SMT DEF PlenOf, netmask_to_plen

\* The invariant holds initially.
LEMMA IInvInit == Init => IInv
  <1>1. SUFFICES ASSUME Init PROVE VomInv /\ Plugin
    BY DEF IInv
  <1>2. VomInv
    BY <1>1, VomInitOK DEF Init
  <1>3. DatastoreTypeOK
    BY <1>1 DEF Init, DatastoreTypeOK
  <1>4. CommitTypeOK
    <2>1. restarts \in 0 .. MaxRestarts
      BY <1>1, ConfigAssumption DEF Init
    <2>2. QED BY <1>1, <2>1, Zenon DEF Init, CommitTypeOK
  <1>5. LeftOK
    BY <1>1 DEF Init, LeftOK, AddrPhase
  <1>6. CreateTypeOK
    BY <1>1, FreshLocals DEF Init, CreateTypeOK
  <1>7. AddrTypeOK
    BY <1>1, FreshLocals DEF Init, AddrTypeOK
  <1>8. QED BY <1>2, <1>3, <1>4, <1>5, <1>6, <1>7 DEF Plugin

\* sysrepo starts a commit.
LEMMA CommitStartStep == ASSUME IInv, CommitStart PROVE IInv'
  <1>1. VomInv /\ Plugin
    BY DEF IInv
  <1>2. VomInv'
    BY <1>1, UnchangedOK DEF CommitStart
  <1>3. DatastoreTypeOK' /\ CommitTypeOK'
    BY <1>1 DEF CommitStart, Plugin, DatastoreTypeOK, CommitTypeOK
  <1>4. CreateTypeOK' /\ AddrTypeOK'
    BY <1>1 DEF CommitStart, Plugin, CreateTypeOK, AddrTypeOK
  <1>5. LeftOK'
    BY DEF CommitStart, LeftOK, ChangedItf, ChangedAddr
  <1>6. QED BY <1>2, <1>3, <1>4, <1>5 DEF IInv, Plugin

\* ietf_interface_create_cb visits a changed interface
\* (ietf_interface.cpp:128-169).
LEMMA CreateCbChangeStep == ASSUME IInv, CreateCbChange PROVE IInv'
  <1>1. VomInv /\ Plugin
    BY DEF IInv
  <1>2. PICK n \in leftItf :
           /\ leftItf' = leftItf \ {n}
           /\ CreatedItf(n) \/ DeletedItf(n) \/ ModifiedItf(n)
    BY DEF CreateCbChange
  <1>3. n \in Ifs /\ runItf[n] # candItf[n] /\ phase = "itf"
    BY <1>1, <1>2 DEF CreateCbChange, Plugin, LeftOK, ChangedItf
  <1>4. runItf[n] \in ItfConfig \cup {NoItf} /\ candItf[n] \in ItfConfig \cup {NoItf}
    BY <1>1, <1>3 DEF Plugin, DatastoreTypeOK
  <1>5. \A c \in ItfConfig : c.enabled \in BOOLEAN \cup {NoLeaf} /\ c.ip \in BOOLEAN \cup {NoLeaf}
    BY ConfigAssumption DEF ItfConfig
  <1>6. VomInv' /\ CreateTypeOK' /\ phase' \in {"itf", "ipv4"} /\ refused' \in BOOLEAN
    <2>1. CASE CreatedItf(n)
      <3>1. candItf[n] \in ItfConfig
        BY <1>3, <1>4, <2>1 DEF CreatedItf
      <3>2. CreateTypeOK'
        BY <1>1, <1>3, <1>5, <2>1, <3>1 DEF CreatedItf, Plugin, CreateTypeOK
      <3>3. QED BY <1>1, <1>3, <2>1, <3>2, UnchangedOK DEF CreatedItf, Plugin, CommitTypeOK
    <2>2. CASE DeletedItf(n)
      <3>1. CreateTypeOK'
        BY <1>1, <1>3, <2>2 DEF DeletedItf, Plugin, CreateTypeOK
      <3>2. QED BY <1>1, <1>3, <2>2, <3>1, UnchangedOK DEF DeletedItf, Plugin, CommitTypeOK
    <2>3. CASE ModifiedItf(n)
      <3>1. runItf[n] \in ItfConfig /\ candItf[n] \in ItfConfig
        BY <1>4, <2>3 DEF ModifiedItf
      <3>2. CreateTypeOK'
        BY <1>1, <1>3, <1>5, <2>3, <3>1 DEF ModifiedItf, Plugin, CreateTypeOK
      <3>3. phase' \in {"itf", "ipv4"} /\ refused' \in BOOLEAN
        BY <1>1, <1>3, <2>3 DEF ModifiedItf, Return, Plugin, CommitTypeOK
      <3>4. CASE UNCHANGED hwVars
        BY <1>1, <3>2, <3>3, <3>4, UnchangedOK
      <3>5. ASSUME NEW up \in BOOLEAN, Itf_set(n, up) PROVE VomInv'
        BY <1>1, <1>3, <3>5, SetOK
      <3>6. LeafModified(runItf[n].ip, candItf[n].ip) => candItf[n].ip \in BOOLEAN
        BY <1>5, <3>1 DEF LeafModified
      <3>7. LeafModified(runItf[n].enabled, candItf[n].enabled) => candItf[n].enabled \in BOOLEAN
        BY <1>5, <3>1 DEF LeafModified
      <3>8. QED BY <2>3, <3>2, <3>3, <3>4, <3>5, <3>6, <3>7 DEF ModifiedItf
    <2>4. QED BY <1>2, <2>1, <2>2, <2>3
  <1>7. /\ UNCHANGED <<runItf, candItf, runAddr, candAddr>>
        /\ UNCHANGED <<leftAddr, todo, loc, pc, restarts>>
    BY DEF CreateCbChange, dsVars, addrVars
  <1>8. DatastoreTypeOK' /\ AddrTypeOK'
    BY <1>1, <1>7 DEF Plugin, DatastoreTypeOK, AddrTypeOK
  <1>9. leftItf' = leftItf \ {n}
    BY <1>2, Zenon
  <1>10. CommitTypeOK'
    <2>1. leftItf' \in SUBSET Ifs
      BY <1>1, <1>9 DEF Plugin, CommitTypeOK
    <2>2. QED BY <1>1, <1>6, <1>7, <2>1, Zenon DEF Plugin, CommitTypeOK
  <1>11. LeftOK'
    <2>1. leftItf \subseteq ChangedItf /\ leftAddr \subseteq ChangedAddr
      BY <1>1, <1>3 DEF Plugin, LeftOK
    <2>2. leftItf' \subseteq ChangedItf' /\ leftAddr' \subseteq ChangedAddr'
      BY <1>7, <1>9, <2>1 DEF ChangedItf, ChangedAddr
    <2>3. QED BY <2>2 DEF LeftOK
  <1>12. QED BY <1>6, <1>8, <1>10, <1>11 DEF IInv, Plugin

\* ietf_interface_create_cb writes or removes, and returns
\* (ietf_interface.cpp:171-206).
LEMMA CreateCbFinishStep == ASSUME IInv, CreateCbFinish PROVE IInv'
  <1>1. VomInv /\ Plugin
    BY DEF IInv
  <1>2. VomInv'
    <2>1. CASE UNCHANGED hwVars
      BY <1>1, <2>1, UnchangedOK
    <2>2. ASSUME NEW ok \in Outcome, OM_remove_itf(builder.name, ok) PROVE VomInv'
      BY <1>1, <2>2, RemoveItfOK, ConfigAssumption
    <2>3. ASSUME NEW n \in Ifs, NEW up \in BOOLEAN, NEW ok \in Outcome, OM_write_itf(n, up, ok)
          PROVE  VomInv'
      BY <1>1, <2>3, WriteItfOK, ConfigAssumption
    <2>4. ASSUME NEW create \in BOOLEAN, NEW modify \in BOOLEAN, NEW remove \in BOOLEAN,
                 NEW us \in UninitBool, NEW ok \in Outcome,
                 WriteOrRemove(create, modify, remove, us, ok)
          PROVE  VomInv'
      <3>1. CASE Target(create) # NoItf /\ OM_write_itf(Target(create), TargetState(create, us), ok)
        <4>1. Target(create) \in Ifs
          BY <1>1, <3>1 DEF Target, Plugin, CreateTypeOK
        <4>2. TargetState(create, us) \in BOOLEAN
          BY <1>1, <4>1, ConfigAssumption
          DEF Target, TargetState, Plugin, CreateTypeOK, VomInv, VomTypeOK
        <4>3. QED BY <2>3, <3>1, <4>1, <4>2
      <3>2. QED BY <2>1, <2>2, <2>4, <3>1 DEF WriteOrRemove
    <2>5. PICK uc \in UninitBool, um \in UninitBool, ur \in UninitBool,
               us \in UninitBool, ok \in Outcome :
             WriteOrRemove(flags.create \/ uc, flags.modify \/ um, flags.remove \/ ur, us, ok)
      BY Zenon DEF CreateCbFinish
    <2>6. /\ (flags.create \/ uc) \in BOOLEAN
          /\ (flags.modify \/ um) \in BOOLEAN
          /\ (flags.remove \/ ur) \in BOOLEAN
      OBVIOUS
    <2>7. QED BY <2>4, <2>5, <2>6, Zenon
  <1>3. phase' \in {"ipv4", "crashed"} /\ refused' \in BOOLEAN
    BY <1>1 DEF CreateCbFinish, WriteOrRemove, FailAfterLoop, Return, Plugin, CommitTypeOK
  <1>4. /\ UNCHANGED <<runItf, candItf, runAddr, candAddr>>
        /\ UNCHANGED <<leftItf, leftAddr, todo, loc, pc, restarts>>
        /\ LocalsGone /\ phase = "itf"
    BY DEF CreateCbFinish, dsVars, addrVars
  <1>5. DatastoreTypeOK' /\ AddrTypeOK'
    BY <1>1, <1>4 DEF Plugin, DatastoreTypeOK, AddrTypeOK
  <1>6. CommitTypeOK'
    BY <1>1, <1>3, <1>4, Zenon DEF Plugin, CommitTypeOK
  <1>7. CreateTypeOK'
    BY <1>4, FreshLocals DEF LocalsGone, CreateTypeOK
  <1>8. LeftOK'
    <2>1. leftAddr' \subseteq ChangedAddr'
      BY <1>1, <1>4 DEF Plugin, LeftOK, ChangedAddr
    <2>2. QED BY <1>3, <2>1 DEF LeftOK
  <1>9. QED BY <1>2, <1>5, <1>6, <1>7, <1>8 DEF IInv, Plugin

\* Every change that is delivered is well formed; in particular its prefix
\* lengths fit in a uint8_t (ietf_interface.cpp:311-345).
LEMMA ChangesTyped ==
    ASSUME Plugin, NEW x \in Ifs \X Addr, runAddr[x] # candAddr[x]
    PROVE  ChangesOf(x) \in Seq(Change)
  <1> DEFINE r == runAddr[x]
             c == candAddr[x]
             old == IF r = NoLeaf THEN 0 ELSE PlenOf(r)
             new == IF c = NoLeaf THEN 0 ELSE PlenOf(c)
             chg(op, node) == [op |-> op, node |-> node, itf |-> x[1], addr |-> x[2],
                               old |-> old, new |-> new]
  <1>1. r \in Subnet \cup {NoLeaf} /\ c \in Subnet \cup {NoLeaf} /\ r # c
    BY DEF Plugin, DatastoreTypeOK
  <1>2. old \in 0 .. 255 /\ new \in 0 .. 255
    BY <1>1, PlenRange
  <1>3. x[1] \in Ifs /\ x[2] \in Addr
    OBVIOUS
  <1>4. ASSUME NEW op \in {"CREATED", "MODIFIED", "DELETED"},
               NEW node \in {"address", "ip", "prefix-length", "netmask"}
        PROVE  chg(op, node) \in Change
    BY <1>2, <1>3 DEF Change
  <1>5. \A s \in Subnet : s.leaf \in {"prefix-length", "netmask"}
    BY ConfigAssumption
  <1> HIDE DEF r, c, chg
  <1>6. CASE r = NoLeaf
    <2>1. <<chg("CREATED", "address"), chg("CREATED", "ip"), chg("CREATED", c.leaf)>> \in Seq(Change)
      BY <1>1, <1>4, <1>5, <1>6
    <2>2. QED BY <1>6, <2>1 DEF ChangesOf, r, c, chg
  <1>7. CASE c = NoLeaf
    <2>1. <<chg("DELETED", "address"), chg("DELETED", "ip"), chg("DELETED", r.leaf)>> \in Seq(Change)
      BY <1>1, <1>4, <1>5, <1>7
    <2>2. r # NoLeaf
      BY <1>1, <1>7
    <2>3. QED BY <1>7, <2>1, <2>2 DEF ChangesOf, r, c, chg
  <1>8. CASE r # NoLeaf /\ c # NoLeaf /\ r.leaf = c.leaf
    <2>1. <<chg("MODIFIED", c.leaf)>> \in Seq(Change)
      BY <1>1, <1>4, <1>5, <1>8
    <2>2. QED BY <1>8, <2>1 DEF ChangesOf, r, c, chg
  <1>9. CASE r # NoLeaf /\ c # NoLeaf /\ r.leaf # c.leaf
    <2>1. <<chg("DELETED", r.leaf), chg("CREATED", c.leaf)>> \in Seq(Change)
      BY <1>1, <1>4, <1>5, <1>9
    <2>2. QED BY <1>9, <2>1 DEF ChangesOf, r, c, chg
  <1>10. QED BY <1>6, <1>7, <1>8, <1>9

\* The address callback is handed the next changed address.
LEMMA AddrCbNextStep == ASSUME IInv, AddrCbNext PROVE IInv'
  <1>1. VomInv /\ Plugin
    BY DEF IInv
  <1>2. PICK x \in leftAddr : leftAddr' = leftAddr \ {x} /\ todo' = ChangesOf(x)
    BY DEF AddrCbNext
  <1>3. /\ UNCHANGED <<runItf, candItf, runAddr, candAddr, phase, refused, leftItf>>
        /\ UNCHANGED <<builder, flags, intf, loc, pc, restarts>>
        /\ UNCHANGED hwVars /\ phase \in AddrPhase
    BY DEF AddrCbNext, dsVars, createVars
  <1>4. x \in Ifs \X Addr /\ runAddr[x] # candAddr[x]
    BY <1>1, <1>3 DEF Plugin, LeftOK, ChangedAddr
  <1>5. todo' \in Seq(Change)
    BY <1>1, <1>2, <1>4, ChangesTyped
  <1>6. VomInv'
    BY <1>1, <1>3, UnchangedOK
  <1>7. DatastoreTypeOK' /\ CreateTypeOK'
    BY <1>1, <1>3 DEF Plugin, DatastoreTypeOK, CreateTypeOK
  <1>8. AddrTypeOK'
    BY <1>1, <1>3, <1>5 DEF Plugin, AddrTypeOK
  <1>9. leftAddr' \subseteq leftAddr
    BY <1>2
  <1>10. CommitTypeOK'
    BY <1>1, <1>3, <1>9 DEF Plugin, CommitTypeOK
  <1>11. LeftOK'
    BY <1>1, <1>3, <1>9 DEF Plugin, LeftOK, ChangedItf, ChangedAddr, AddrPhase
  <1>12. QED BY <1>6, <1>7, <1>8, <1>10, <1>11 DEF IInv, Plugin

\* The address callback parses a change (ietf_interface.cpp:311-347).
LEMMA AddrCbParseStep == ASSUME IInv, AddrCbParse PROVE IInv'
  <1>1. VomInv /\ Plugin
    BY DEF IInv
  <1>2. /\ UNCHANGED <<runItf, candItf, runAddr, candAddr, phase, refused, leftItf, leftAddr>>
        /\ UNCHANGED <<builder, flags, intf, restarts>>
        /\ UNCHANGED hwVars
    BY DEF AddrCbParse, dsVars, createVars
  <1>3. Head(todo) \in Change /\ todo' \in Seq(Change)
    BY <1>1 DEF AddrCbParse, Plugin, AddrTypeOK
  <1>4. AddrTypeOK'
    <2> DEFINE c == Head(todo)
    <2>1. c.itf \in Ifs /\ c.addr \in Addr /\ c.old \in 0 .. 255 /\ c.new \in 0 .. 255
      BY <1>3 DEF Change
    <2>2. ASSUME NEW a \in Addr \cup {NoAddr} PROVE ParsedAddr(c, a) \in Addr \cup {NoAddr}
      BY <2>1 DEF ParsedAddr
    <2>3. ASSUME NEW l \in 0 .. 255, NEW m \in 0 .. 255 PROVE ParsedPrefix(c, l, m) \in 0 .. 255
      BY DEF ParsedPrefix
    <2>4. loc' \in [if_name : Ifs \cup {NoItf},
                   new_addr : Addr \cup {NoAddr}, new_prefix : 0 .. 255,
                   old_addr : Addr \cup {NoAddr}, old_prefix : 0 .. 255,
                   create : BOOLEAN, del : BOOLEAN, op_rc : BOOLEAN]
      <3> HIDE DEF c
      <3>1. /\ loc.new_addr \in Addr \cup {NoAddr} /\ loc.new_prefix \in 0 .. 255
            /\ loc.old_addr \in Addr \cup {NoAddr} /\ loc.old_prefix \in 0 .. 255
        BY <1>1 DEF Plugin, AddrTypeOK
      <3>2. /\ ParsedAddr(c, loc.new_addr) \in Addr \cup {NoAddr}
            /\ ParsedAddr(c, loc.old_addr) \in Addr \cup {NoAddr}
            /\ ParsedPrefix(c, c.new, loc.new_prefix) \in 0 .. 255
            /\ ParsedPrefix(c, c.old, loc.old_prefix) \in 0 .. 255
        BY <2>1, <2>2, <2>3, <3>1
      <3>3. loc.op_rc \in BOOLEAN
        BY <1>1 DEF Plugin, AddrTypeOK
      <3>4. Parsed(loc, c) \in [if_name : Ifs \cup {NoItf},
                   new_addr : Addr \cup {NoAddr}, new_prefix : 0 .. 255,
                   old_addr : Addr \cup {NoAddr}, old_prefix : 0 .. 255,
                   create : BOOLEAN, del : BOOLEAN, op_rc : BOOLEAN]
        BY <2>1, <3>1, <3>2, <3>3 DEF Parsed
      <3>5. QED BY <3>4 DEF AddrCbParse, c
    <2>5. QED BY <1>3, <2>4 DEF AddrCbParse, AddrTypeOK
  <1>5. VomInv'
    BY <1>1, <1>2, UnchangedOK
  <1>6. DatastoreTypeOK' /\ CreateTypeOK'
    BY <1>1, <1>2 DEF Plugin, DatastoreTypeOK, CreateTypeOK
  <1>7. CommitTypeOK' /\ LeftOK'
    BY <1>1, <1>2 DEF Plugin, CommitTypeOK, LeftOK, ChangedItf, ChangedAddr
  <1>8. QED BY <1>4, <1>5, <1>6, <1>7 DEF IInv, Plugin

\* The address callback removes and adds bindings (ietf_interface.cpp:349-357).
LEMMA AddrCbDelAddStep == ASSUME IInv, AddrCbDel \/ AddrCbAdd PROVE IInv'
  <1>1. VomInv /\ Plugin
    BY DEF IInv
  <1>2. /\ UNCHANGED <<runItf, candItf, runAddr, candAddr, phase, refused, leftItf, leftAddr>>
        /\ UNCHANGED <<builder, flags, intf, todo, restarts>>
    BY DEF AddrCbDel, AddrCbAdd, dsVars, createVars
  <1>3. VomInv'
    <2>1. CASE UNCHANGED hwVars
      BY <1>1, <2>1, UnchangedOK
    <2>2. ASSUME NEW ok \in Outcome, OM_remove_l3(OldBinding, ok) PROVE VomInv'
      BY <1>1, <2>2, RemoveL3OK, ConfigAssumption
    <2>3. ASSUME NEW ok \in Outcome, loc.new_addr # NoAddr, NewBinding.itf \in Found,
                 OM_write_l3(NewBinding, ok)
          PROVE  VomInv'
      <3>1. Found \subseteq Ifs
        BY <1>1 DEF VomInv, VomTypeOK, Found, LiveItf, Binding
      <3>2. NewBinding \in Binding
        BY <1>1, <2>3, <3>1 DEF NewBinding, Binding, Plugin, AddrTypeOK
      <3>3. QED BY <1>1, <2>3, <3>2, WriteL3OK, ConfigAssumption
    <2>4. QED BY <2>1, <2>2, <2>3
          DEF AddrCbDel, AddrCbAdd, ipv46_config_add_remove, ConfigAdd, ConfigRemove
  <1>4. pc' \in {"next", "add"}
    BY DEF AddrCbDel, AddrCbAdd
  <1>5. loc' = loc \/ \E rc \in BOOLEAN : loc' = [loc EXCEPT !.op_rc = rc]
    BY ConfigAssumption
    DEF AddrCbDel, AddrCbAdd, ipv46_config_add_remove, ConfigAdd, ConfigRemove, L3WriteRc
  <1>6. AddrTypeOK'
    BY <1>1, <1>2, <1>4, <1>5 DEF Plugin, AddrTypeOK
  <1>7. DatastoreTypeOK' /\ CreateTypeOK'
    BY <1>1, <1>2 DEF Plugin, DatastoreTypeOK, CreateTypeOK
  <1>8. CommitTypeOK' /\ LeftOK'
    BY <1>1, <1>2 DEF Plugin, CommitTypeOK, LeftOK, ChangedItf, ChangedAddr
  <1>9. QED BY <1>3, <1>6, <1>7, <1>8 DEF IInv, Plugin

\* The address callback returns (ietf_interface.cpp:360-362).
LEMMA AddrCbReturnStep == ASSUME IInv, AddrCbReturn PROVE IInv'
  <1>1. VomInv /\ Plugin
    BY DEF IInv
  <1>2. /\ UNCHANGED <<runItf, runAddr, candItf, candAddr, leftItf, leftAddr>>
        /\ UNCHANGED <<builder, flags, intf, todo, pc, restarts>>
        /\ UNCHANGED hwVars /\ loc' = NoLocals
    BY DEF AddrCbReturn, dsVars, createVars
  <1>3. phase \in AddrPhase /\ phase' \in {"ipv6", "decide"} /\ refused' \in BOOLEAN
    BY <1>1 DEF AddrCbReturn, Return, Plugin, CommitTypeOK
  <1>4. VomInv'
    BY <1>1, <1>2, UnchangedOK
  <1>5. DatastoreTypeOK' /\ CreateTypeOK'
    BY <1>1, <1>2 DEF Plugin, DatastoreTypeOK, CreateTypeOK
  <1>6. AddrTypeOK'
    BY <1>1, <1>2, FreshLocals DEF Plugin, AddrTypeOK
  <1>7. CommitTypeOK'
    <2>1. phase' \in {"idle", "itf", "ipv4", "ipv6", "decide", "crashed"}
      BY <1>3
    <2>2. QED BY <1>1, <1>2, <1>3, <2>1, Zenon DEF Plugin, CommitTypeOK
  <1>8. LeftOK'
    BY <1>1, <1>2, <1>3 DEF Plugin, LeftOK, ChangedItf, ChangedAddr, AddrPhase
  <1>9. QED BY <1>4, <1>5, <1>6, <1>7, <1>8 DEF IInv, Plugin

\* sysrepo makes the candidate running (SR_EV_APPLY, ietf_interface.cpp:115, :298).
LEMMA CommitApplyStep == ASSUME IInv, CommitApply PROVE IInv'
  <1>1. VomInv /\ Plugin
    BY DEF IInv
  <1>2. VomInv'
    BY <1>1, UnchangedOK DEF CommitApply
  <1>3. DatastoreTypeOK' /\ CreateTypeOK' /\ AddrTypeOK'
    BY <1>1 DEF CommitApply, Plugin, DatastoreTypeOK, CreateTypeOK, AddrTypeOK, createVars, addrVars
  <1>4. CommitTypeOK'
    BY <1>1, Zenon DEF CommitApply, Plugin, CommitTypeOK, createVars, addrVars
  <1>5. LeftOK'
    BY DEF CommitApply, LeftOK, AddrPhase
  <1>6. QED BY <1>2, <1>3, <1>4, <1>5 DEF IInv, Plugin

\* sysrepo calls the commit off (SR_EV_ABORT, ietf_interface.cpp:115,
\* sys_util.h:37-39).
LEMMA CommitAbortStep == ASSUME IInv, CommitAbort PROVE IInv'
  <1>1. VomInv /\ Plugin
    BY DEF IInv
  <1>2. VomInv'
    BY <1>1, UnchangedOK DEF CommitAbort
  <1>3. DatastoreTypeOK' /\ AddrTypeOK'
    BY <1>1 DEF CommitAbort, Discard, Plugin, DatastoreTypeOK, AddrTypeOK
  <1>4. CreateTypeOK'
    BY FreshLocals DEF CommitAbort, LocalsGone, CreateTypeOK
  <1>5. CommitTypeOK'
    BY <1>1, Zenon DEF CommitAbort, Discard, Plugin, CommitTypeOK
  <1>6. LeftOK'
    BY DEF CommitAbort, Discard, LeftOK, AddrPhase
  <1>7. QED BY <1>2, <1>3, <1>4, <1>5, <1>6 DEF IInv, Plugin

\* The process dies: the callback's variables are gone.
LEMMA ProcessGoneStep == ASSUME Plugin, ProcessGone PROVE Plugin'
  <1>1. DatastoreTypeOK'
    BY DEF ProcessGone, dsVars, Plugin, DatastoreTypeOK
  <1>2. AddrTypeOK' /\ CreateTypeOK'
    BY FreshLocals DEF ProcessGone, LocalsGone, AddrTypeOK, CreateTypeOK
  <1>3. CommitTypeOK'
    BY Zenon DEF ProcessGone, Plugin, CommitTypeOK
  <1>4. LeftOK'
    BY DEF ProcessGone, LeftOK, AddrPhase
  <1>5. QED BY <1>1, <1>2, <1>3, <1>4 DEF Plugin

\* Something else brings the process down.
LEMMA CrashStep == ASSUME IInv, Crash PROVE IInv'
  BY ProcessGoneStep, UnchangedOK DEF Crash, IInv

\* The plugin process starts again (sc_plugins.c:116-133).
LEMMA PluginRestartStep == ASSUME IInv, PluginRestart PROVE IInv'
  <1>1. VomInv /\ Plugin
    BY DEF IInv
  <1>2. VomInv'
    BY <1>1, PopulateOK DEF PluginRestart
  <1>3. DatastoreTypeOK' /\ AddrTypeOK'
    BY <1>1 DEF PluginRestart, Discard, Plugin, DatastoreTypeOK, AddrTypeOK
  <1>4. CreateTypeOK'
    BY FreshLocals DEF PluginRestart, LocalsGone, CreateTypeOK
  <1>5. restarts' \in 0 .. MaxRestarts
    BY <1>1, ConfigAssumption DEF PluginRestart, Plugin, CommitTypeOK
  <1>6. CommitTypeOK'
    BY <1>1, <1>5, Zenon DEF PluginRestart, Discard, Plugin, CommitTypeOK
  <1>7. LeftOK'
    BY DEF PluginRestart, Discard, LeftOK, AddrPhase
  <1>8. QED BY <1>2, <1>3, <1>4, <1>6, <1>7 DEF IInv, Plugin

\* The invariant holds in every reachable state.
LEMMA Inductive == Spec => []IInv
  <1>1. IInv /\ UNCHANGED vars => IInv'
    <2>1. SUFFICES ASSUME IInv, UNCHANGED vars PROVE IInv'
      OBVIOUS
    <2>2. VomInv'
      BY <2>1, UnchangedOK DEF IInv, vars
    <2>3. Plugin'
      BY <2>1 DEF IInv, vars, dsVars, createVars, addrVars, Plugin, DatastoreTypeOK,
         CommitTypeOK, CreateTypeOK, AddrTypeOK, LeftOK, ChangedItf, ChangedAddr
    <2>4. QED BY <2>2, <2>3 DEF IInv
  <1>2. IInv /\ [Next]_vars => IInv'
    BY <1>1, CommitStartStep, CreateCbChangeStep, CreateCbFinishStep, AddrCbNextStep,
       AddrCbParseStep, AddrCbDelAddStep, AddrCbReturnStep, CommitApplyStep,
       CommitAbortStep, CrashStep, PluginRestartStep
    DEF Next
  <1>3. QED BY IInvInit, <1>2, PTL DEF Spec

-----------------------------------------------------------------------------
(* The theorems.                                                           *)

\* Type correctness of the callbacks, for commits of any size and whatever the
\* uninitialised flags read as (ietf_interface.cpp:96-369).
THEOREM IetfInterfacesTypeCorrect == Spec => []TypeOK
  <1>1. IInv => TypeOK
    BY DEF IInv, VomInv, Plugin, TypeOK
  <1>2. QED BY Inductive, <1>1, PTL

-----------------------------------------------------------------------------
(* The commit that changes one interface and sets leaf enabled.            *)

\* Interface n is what AcceptedItfReachesVpp is about.
OneSetItf(n) == ChangedItf = {n} /\ SetsEnabled(n)

FreshCreate == builder = NoBuilder /\ flags = NoFlags /\ intf = NoItf

\* The loop of ietf_interface_create_cb has seen interface n, and nothing else: n
\* was created, or the instance VOM has of n was set.
SeenItf(n) ==
    \/ flags.create /\ builder.name = n /\ builder.state = candItf[n].enabled
    \/ /\ flags.modify /\ intf = n /\ builder.name = NoItf
       /\ admin[n] = candItf[n].enabled

\* VOM has pushed the state interface n is given, and n's key owns n, so
\* that no address callback can sweep it.
Pushed(n) == n \in usrItf /\ n \in adminOk /\ admin[n] = candItf[n].enabled

\* The locals of ietf_interface_create_cb belong to one call; it visits what the
\* commit changes and nothing else, and agrees to the state of an interface only
\* once it is pushed.
CreateHistory ==
    /\ phase = "idle" => ~refused
    /\ phase # "itf" /\ ~refused => FreshCreate
    /\ phase = "itf" =>
          \A n \in Ifs :
              OneSetItf(n) => (leftItf = {n} /\ FreshCreate) \/ (leftItf = {} /\ SeenItf(n))
    /\ phase \in AddrPhase \cup {"decide"} /\ ~refused =>
          \A n \in Ifs : OneSetItf(n) => Pushed(n)

\* What is said of a commit depends on the datastores only.
LEMMA SameSetItf ==
    ASSUME UNCHANGED <<runItf, candItf>>, NEW n
    PROVE  OneSetItf(n)' <=> OneSetItf(n)
  BY DEF OneSetItf, SetsEnabled, ChangedItf

\* The leaves of such a commit.
LEMMA SetItfType ==
    ASSUME IInv, NEW n \in Ifs, OneSetItf(n)
    PROVE  /\ candItf[n] \in ItfConfig /\ candItf[n].enabled \in BOOLEAN
           /\ runItf[n] # NoItf => LeafModified(runItf[n].enabled, candItf[n].enabled)
  <1>1. candItf[n] \in ItfConfig
    BY DEF OneSetItf, SetsEnabled, IInv, Plugin, DatastoreTypeOK
  <1>2. candItf[n].enabled \in BOOLEAN
    BY <1>1, ConfigAssumption DEF ItfConfig, OneSetItf, SetsEnabled
  <1>3. QED BY <1>1, <1>2 DEF OneSetItf, SetsEnabled, LeafModified

\* The loop (ietf_interface.cpp:128-169).
LEMMA CreateLoopHistory == IInv /\ CreateHistory /\ CreateCbChange => CreateHistory'
  <1>1. SUFFICES ASSUME IInv, CreateHistory, CreateCbChange PROVE CreateHistory'
    OBVIOUS
  <1>2. PICK m \in leftItf : /\ leftItf' = leftItf \ {m}
                             /\ CreatedItf(m) \/ DeletedItf(m) \/ ModifiedItf(m)
    BY <1>1 DEF CreateCbChange
  <1>3. phase = "itf" /\ UNCHANGED <<runItf, candItf>>
    BY <1>1 DEF CreateCbChange, dsVars
  <1>4. phase' = "itf" \/ (phase' = "ipv4" /\ refused')
    BY <1>2, <1>3 DEF CreatedItf, DeletedItf, ModifiedItf, Return
  <1>5. ASSUME NEW n \in Ifs, OneSetItf(n)
        PROVE  leftItf' = {} /\ (SeenItf(n)' \/ phase' # "itf")
    <2>1. m = n /\ leftItf = {n} /\ FreshCreate /\ leftItf' = {}
      BY <1>1, <1>2, <1>3, <1>5 DEF CreateHistory
    <2>2. /\ candItf[n] # NoItf /\ candItf[n].enabled \in BOOLEAN /\ candItf[n].ip = NoLeaf
          /\ runItf[n] # NoItf => LeafModified(runItf[n].enabled, candItf[n].enabled)
      BY <1>1, <1>5, SetItfType DEF OneSetItf, SetsEnabled
    <2>3. CASE CreatedItf(n)
      <3>1. /\ builder'.name = n
            /\ builder'.state = candItf[n].enabled
            /\ flags'.create
        BY <1>1, <2>2, <2>3, ConfigAssumption DEF CreatedItf, IInv, Plugin, CreateTypeOK
      <3>2. QED BY <1>3, <2>1, <3>1 DEF SeenItf
    <2>4. CASE ModifiedItf(n)
      <3>1. /\ ~LeafModified(runItf[n].ip, candItf[n].ip)
            /\ LeafModified(runItf[n].enabled, candItf[n].enabled)
        BY <2>2, <2>4 DEF ModifiedItf, LeafModified
      <3>2. builder'.name = NoItf
        BY <1>1, <2>1, <2>4 DEF ModifiedItf, FreshCreate, NoBuilder, IInv, Plugin, CreateTypeOK
      <3>3. CASE phase' = "itf"
        <4>1. /\ Itf_set(n, candItf[n].enabled)
              /\ intf' = n
              /\ flags' = [flags EXCEPT !.modify = TRUE]
          BY <2>4, <3>1, <3>3 DEF ModifiedItf, Return
        <4>2. flags'.modify
          BY <1>1, <4>1 DEF IInv, Plugin, CreateTypeOK
        <4>3. admin'[n] = candItf'[n].enabled
          BY <1>1, <1>3, <4>1 DEF Itf_set, IInv, VomInv, VomTypeOK
        <4>4. QED BY <2>1, <3>2, <4>1, <4>2, <4>3 DEF SeenItf
      <3>4. QED BY <2>1, <3>3
    <2>5. QED BY <1>2, <2>1, <2>2, <2>3, <2>4 DEF DeletedItf
  <1>6. QED BY <1>3, <1>4, <1>5, SameSetItf DEF CreateHistory, AddrPhase

\* After the loop (ietf_interface.cpp:171-206).
LEMMA CreateEndHistory == IInv /\ CreateHistory /\ CreateCbFinish => CreateHistory'
  <1>1. SUFFICES ASSUME IInv, CreateHistory, CreateCbFinish PROVE CreateHistory'
    OBVIOUS
  <1>2. PICK uc \in UninitBool, um \in UninitBool, ur \in UninitBool,
             us \in UninitBool, ok \in Outcome :
           WriteOrRemove(flags.create \/ uc, flags.modify \/ um, flags.remove \/ ur, us, ok)
    BY <1>1, Zenon DEF CreateCbFinish
  <1>3. phase = "itf" /\ leftItf = {} /\ UNCHANGED <<runItf, candItf>> /\ LocalsGone
    BY <1>1 DEF CreateCbFinish, dsVars
  <1>4. FreshCreate'
    BY <1>3 DEF LocalsGone, FreshCreate, NoBuilder, NoFlags
  <1>5. phase' = "ipv4" \/ (phase' = "crashed" /\ refused')
    BY <1>2 DEF WriteOrRemove, FailAfterLoop, Return
  <1>6. ASSUME NEW n \in Ifs, OneSetItf(n), ~refused' PROVE Pushed(n)'
    <2>1. SeenItf(n)
      BY <1>1, <1>3, <1>6 DEF CreateHistory
    <2>2. candItf[n].enabled \in BOOLEAN
      BY <1>1, <1>6, SetItfType
    <2>3. /\ OM_write_itf(n, candItf[n].enabled, ok)
          /\ ItfWriteRc(n, candItf[n].enabled, ok)
      <3>1. CASE flags.create /\ builder.name = n /\ builder.state = candItf[n].enabled
        BY <1>2, <1>6, <2>2, <3>1, ConfigAssumption
        DEF WriteOrRemove, Target, TargetState, FailAfterLoop, Return
      <3>2. CASE /\ flags.modify /\ intf = n /\ builder.name = NoItf
                 /\ admin[n] = candItf[n].enabled
        <4>1. ~(flags.create \/ uc)
          BY <1>2, <1>6, <3>2 DEF WriteOrRemove, FailAfterLoop, Return
        <4>2. QED BY <1>2, <1>6, <3>2, <4>1, ConfigAssumption
              DEF WriteOrRemove, Target, TargetState, FailAfterLoop, Return
      <3>3. QED BY <2>1, <3>1, <3>2 DEF SeenItf
    <2>4. n \in usrItf' /\ n \in adminOk'
      BY <2>3 DEF OM_write_itf, ItfWriteRc
    <2>5. admin'[n] = candItf'[n].enabled
      BY <1>1, <1>3, <2>3 DEF OM_write_itf, IInv, VomInv, VomTypeOK
    <2>6. QED BY <2>4, <2>5 DEF Pushed
  <1>7. QED BY <1>3, <1>4, <1>5, <1>6, SameSetItf DEF CreateHistory, AddrPhase

\* The address callbacks do not sweep an interface that its key owns
\* (ietf_interface.cpp:208-242).
LEMMA PushedStays ==
    ASSUME AddrCbDel \/ AddrCbAdd, NEW n, Pushed(n)
    PROVE  Pushed(n)'
  <1>1. candItf' = candItf
    BY DEF AddrCbDel, AddrCbAdd, dsVars
  <1>2. CASE UNCHANGED hwVars
    BY <1>1, <1>2 DEF Pushed, hwVars
  <1>3. ASSUME NEW b, NEW ok, OM_write_l3(b, ok) PROVE Pushed(n)'
    BY <1>1, <1>3 DEF OM_write_l3, Pushed
  <1>4. ASSUME NEW b, NEW ok, OM_remove_l3(b, ok) PROVE Pushed(n)'
    BY <1>1, <1>4 DEF OM_remove_l3, SweepItf, LiveItf, Pushed
  <1>5. QED BY <1>2, <1>3, <1>4
        DEF AddrCbDel, AddrCbAdd, ipv46_config_add_remove, ConfigAdd, ConfigRemove

\* CreateHistory holds in every reachable state.
LEMMA CreateHistoryHolds == Spec => []CreateHistory
  <1>1. Init => CreateHistory
    BY DEF Init, CreateHistory, FreshCreate, AddrPhase
  <1>2. IInv /\ CreateHistory /\ [Next]_vars => CreateHistory'
    <2>1. SUFFICES ASSUME IInv, CreateHistory, [Next]_vars PROVE CreateHistory'
      OBVIOUS
    <2>2. CASE CommitStart
      <3>1. /\ phase = "idle" /\ phase' = "itf" /\ leftItf' = ChangedItf'
            /\ UNCHANGED <<builder, flags, intf>>
        BY <2>2 DEF CommitStart, ChangedItf
      <3>2. FreshCreate'
        BY <2>1, <3>1 DEF CreateHistory, FreshCreate, NoBuilder, NoFlags
      <3>3. QED BY <3>1, <3>2 DEF CreateHistory, OneSetItf, AddrPhase
    <2>3. CASE CreateCbChange
      BY <2>1, <2>3, CreateLoopHistory
    <2>4. CASE CreateCbFinish
      BY <2>1, <2>4, CreateEndHistory
    <2>5. CASE AddrCbNext \/ AddrCbParse \/ AddrCbReturn
      <3>1. /\ phase \in AddrPhase /\ phase' \in AddrPhase \cup {"decide"}
            /\ ~refused' => ~refused
            /\ UNCHANGED <<runItf, candItf, builder, flags, intf, usrItf, adminOk, admin>>
        <4>1. CASE AddrCbNext \/ AddrCbParse
          BY <4>1 DEF AddrCbNext, AddrCbParse, AddrPhase, dsVars, createVars, hwVars
        <4>2. CASE AddrCbReturn
          BY <4>2 DEF AddrCbReturn, Return, AddrPhase, dsVars, createVars, hwVars
        <4>3. QED BY <2>5, <4>1, <4>2
      <3>2. \A n \in Ifs : Pushed(n)' <=> Pushed(n)
        BY <3>1 DEF Pushed
      <3>3. FreshCreate' <=> FreshCreate
        BY <3>1 DEF FreshCreate, NoBuilder, NoFlags
      <3>4. QED BY <2>1, <3>1, <3>2, <3>3, SameSetItf DEF CreateHistory, AddrPhase
    <2>6. CASE AddrCbDel \/ AddrCbAdd
      <3>1. /\ phase \in AddrPhase
            /\ UNCHANGED <<phase, refused, runItf, candItf, builder, flags, intf>>
        BY <2>6 DEF AddrCbDel, AddrCbAdd, dsVars, createVars
      <3>2. FreshCreate' <=> FreshCreate
        BY <3>1 DEF FreshCreate, NoBuilder, NoFlags
      <3>3. QED BY <2>1, <2>6, <3>1, <3>2, SameSetItf, PushedStays DEF CreateHistory, AddrPhase
    <2>7. CASE CommitApply
      <3>1. /\ phase = "decide" /\ ~refused /\ ~refused' /\ phase' = "idle"
            /\ UNCHANGED <<builder, flags, intf>>
        BY <2>7 DEF CommitApply, createVars
      <3>2. QED BY <2>1, <3>1 DEF CreateHistory, FreshCreate, NoBuilder, NoFlags, AddrPhase
    <2>8. CASE CommitAbort \/ PluginRestart \/ Crash
      <3>1. phase' \in {"idle", "crashed"} /\ LocalsGone /\ (phase' = "idle" => ~refused')
        BY <2>8 DEF CommitAbort, PluginRestart, Crash, ProcessGone, Discard
      <3>2. QED BY <3>1 DEF CreateHistory, LocalsGone, FreshCreate, NoBuilder, NoFlags, AddrPhase
    <2>9. CASE UNCHANGED vars
      <3>1. UNCHANGED <<runItf, candItf, phase, refused, leftItf, builder, flags, intf,
                        usrItf, adminOk, admin>>
        BY <2>9 DEF vars, dsVars, createVars, hwVars
      <3>2. /\ FreshCreate' <=> FreshCreate
            /\ \A n \in Ifs : (Pushed(n)' <=> Pushed(n)) /\ (SeenItf(n)' <=> SeenItf(n))
        BY <3>1 DEF FreshCreate, NoBuilder, NoFlags, Pushed, SeenItf
      <3>3. QED BY <2>1, <3>1, <3>2, SameSetItf DEF CreateHistory, AddrPhase
    <2>10. QED BY <2>1, <2>2, <2>3, <2>4, <2>5, <2>6, <2>7, <2>8, <2>9 DEF Next
  <1>3. QED BY <1>1, <1>2, Inductive, PTL DEF Spec

\* Only SR_EV_APPLY accepts a commit.
LEMMA AcceptedIsApply == Next /\ Accepted => CommitApply
  <1>1. SUFFICES ASSUME Next, Accepted PROVE CommitApply
    OBVIOUS
  <1>2. phase = "decide" /\ phase' = "idle" /\ ~refused
    BY <1>1 DEF Accepted
  <1>3. ~CommitStart /\ ~CreateCbChange /\ ~CreateCbFinish
    BY <1>2 DEF CommitStart, CreateCbChange, CreateCbFinish
  <1>4. ~AddrCbNext /\ ~AddrCbParse /\ ~AddrCbDel /\ ~AddrCbAdd /\ ~AddrCbReturn
    BY <1>2 DEF AddrCbNext, AddrCbParse, AddrCbDel, AddrCbAdd, AddrCbReturn, AddrPhase
  <1>5. ~CommitAbort /\ ~Crash /\ ~PluginRestart
    BY <1>2 DEF CommitAbort, Crash, ProcessGone, PluginRestart
  <1>6. QED BY <1>1, <1>3, <1>4, <1>5 DEF Next

\* An accepted commit that changes one interface, creating it with leaf enabled or
\* changing the value of that leaf, has brought it to that state in VPP
\* (ietf_interface.cpp:132-190), whatever the uninitialised flags read as, whatever
\* failed before, and whatever addresses the commit changes besides.
THEOREM ItfReachesVpp == Spec => AcceptedItfReachesVpp
  <1> DEFINE Reached(n) ==
          ChangedItf = {n} /\ SetsEnabled(n) => (n \in vppUp' <=> candItf[n].enabled)
  <1>1. ASSUME IInv, CreateHistory, Next, Accepted PROVE \A n \in Ifs : Reached(n)
    <2>1. CommitApply
      BY <1>1, AcceptedIsApply
    <2>2. phase = "decide" /\ ~refused /\ vppUp' = vppUp
      BY <1>1, <2>1 DEF Accepted, CommitApply, hwVars
    <2>3. QED BY <1>1, <2>2 DEF CreateHistory, OneSetItf, Pushed, IInv, VomInv, BeliefIsSound
  <1>2. IInv /\ CreateHistory /\ [Next]_vars => [Accepted => \A n \in Ifs : Reached(n)]_vars
    BY <1>1
  <1>3. QED BY <1>2, Inductive, CreateHistoryHolds, PTL DEF Spec, AcceptedItfReachesVpp

-----------------------------------------------------------------------------
(* How the address callback walks through the changes of one address.      *)

\* The commit creates or deletes address x, and changes no other one.
ComesOrGoes(x) == runAddr[x] # candAddr[x] /\ (runAddr[x] = NoLeaf \/ candAddr[x] = NoLeaf)
OneAddr(x) == ChangedAddr = {x} /\ ComesOrGoes(x)

\* The subnet that comes or goes, its binding, and the one of length 0 that is
\* written, and removed, when leaf ip was parsed but the prefix was not.
SubnetOf(x) == IF runAddr[x] = NoLeaf THEN candAddr[x] ELSE runAddr[x]
FullBinding(x) == BindingOf(x[1], x[2], SubnetOf(x))
ZeroBinding(x) == [itf |-> x[1], addr |-> x[2], plen |-> 0]

\* A change that is delivered for x.
Delivered(x, node) ==
    [op |-> IF runAddr[x] = NoLeaf THEN "CREATED" ELSE "DELETED",
     node |-> node, itf |-> x[1], addr |-> x[2],
     old |-> IF runAddr[x] = NoLeaf THEN 0 ELSE PlenOf(SubnetOf(x)),
     new |-> IF runAddr[x] = NoLeaf THEN PlenOf(SubnetOf(x)) ELSE 0]

\* The changes that remain once n of them were parsed, and what the locals then
\* say of the address.
Remaining(x, n) ==
    IF n = 0 THEN <<Delivered(x, "address"), Delivered(x, "ip"), Delivered(x, SubnetOf(x).leaf)>>
    ELSE IF n = 1 THEN <<Delivered(x, "ip"), Delivered(x, SubnetOf(x).leaf)>>
    ELSE IF n = 2 THEN <<Delivered(x, SubnetOf(x).leaf)>>
    ELSE <<>>

Known(x, n) ==
    LET a == IF n = 1 THEN NoAddr ELSE x[2]
        plen == IF n = 3 THEN PlenOf(SubnetOf(x)) ELSE 0
    IN  /\ loc.if_name = x[1]
        /\ \/ /\ runAddr[x] = NoLeaf
              /\ loc.create /\ ~loc.del /\ loc.new_addr = a /\ loc.new_prefix = plen
           \/ /\ runAddr[x] # NoLeaf
              /\ ~loc.create /\ loc.del /\ loc.old_addr = a /\ loc.old_prefix = plen

\* The callback is not visiting any address.
Rest == todo = <<>> /\ loc = NoLocals /\ pc = "next"

\* x is yet to be visited; n of its changes were parsed.
Pending(x) == leftAddr = {x} /\ Rest
Parsing(x, n) ==
    /\ leftAddr = {} /\ todo = Remaining(x, n)
    /\ IF n = 0 THEN loc = NoLocals /\ pc = "next" ELSE Known(x, n)

Visiting(x) == Pending(x) \/ \E n \in 0 .. 3 : Parsing(x, n)

\* An address is visited in the callback of its family, one change at a time;
\* the locals belong to one call.
Walk ==
    /\ phase \notin AddrPhase => Rest
    /\ \A x \in Ifs \X Addr : OneAddr(x) =>
          /\ phase = "itf" => leftAddr = {x}
          /\ phase = "ipv4" => Pending(x) \/ (x[2] \in V4 /\ Visiting(x))
          /\ phase = "ipv6" => IF x[2] \in V4 THEN leftAddr = {} /\ Rest ELSE Visiting(x)

\* What is said of the changes depends on the datastores only.
LEMMA SameAddr ==
    ASSUME UNCHANGED <<runAddr, candAddr>>, NEW x
    PROVE  /\ OneAddr(x)' <=> OneAddr(x)
           /\ SubnetOf(x)' = SubnetOf(x)
           /\ FullBinding(x)' = FullBinding(x)
           /\ \A n : Remaining(x, n)' = Remaining(x, n)
  BY DEF OneAddr, ComesOrGoes, ChangedAddr, SubnetOf, FullBinding, BindingOf, PlenOf,
     Remaining, Delivered

\* Such an address is an address of one family with a subnet.
LEMMA OneAddrType ==
    ASSUME IInv, NEW x \in Ifs \X Addr, OneAddr(x) \/ ComesOrGoes(x)
    PROVE  /\ SubnetOf(x) \in Subnet
           /\ SubnetOf(x).leaf \in {"prefix-length", "netmask"}
           /\ x[1] \in Ifs /\ x[2] \in Addr /\ x[2] # NoAddr
           /\ x[2] \in V4 <=> x[2] \notin V6
           /\ PlenOf(SubnetOf(x)) \in 1 .. 255
           /\ runAddr[x] = NoLeaf <=> candAddr[x] # NoLeaf
  <1>1. ComesOrGoes(x)
    BY DEF OneAddr
  <1>2. SubnetOf(x) \in Subnet /\ (runAddr[x] = NoLeaf <=> candAddr[x] # NoLeaf)
    BY <1>1 DEF ComesOrGoes, SubnetOf, IInv, Plugin, DatastoreTypeOK
  <1>3. x[1] \in Ifs /\ x[2] \in Addr /\ x[2] # NoAddr /\ (x[2] \in V4 <=> x[2] \notin V6)
    BY ConfigAssumption
  <1> DEFINE s == SubnetOf(x)
  <1>4. /\ s.leaf \in {"prefix-length", "netmask"} /\ s.len \in 1 .. 128
        /\ s.leaf = "netmask" => s.len <= 32
    BY <1>2, ConfigAssumption
  <1> HIDE DEF s
  <1>5. PlenOf(s) \in 1 .. 255
    BY <1>4, SMT DEF PlenOf, netmask_to_plen
  <1>6. QED BY <1>2, <1>3, <1>4, <1>5 DEF s

\* The three changes of an address that comes or goes.
LEMMA ChangesOfOne ==
    ASSUME IInv, NEW x \in Ifs \X Addr, OneAddr(x) \/ ComesOrGoes(x)
    PROVE  ChangesOf(x) = Remaining(x, 0)
  <1>1. runAddr[x] = NoLeaf <=> candAddr[x] # NoLeaf
    BY OneAddrType
  <1>2. CASE runAddr[x] = NoLeaf
    BY <1>1, <1>2 DEF ChangesOf, Remaining, Delivered, SubnetOf
  <1>3. CASE runAddr[x] # NoLeaf
    BY <1>1, <1>3 DEF ChangesOf, Remaining, Delivered, SubnetOf
  <1>4. QED BY <1>2, <1>3

\* What a created and a deleted node make of the locals.
LEMMA ParsedFields ==
    ASSUME NEW l, NEW c
    PROVE  /\ Parsed(l, c).if_name = c.itf
           /\ c.op = "CREATED" =>
                 /\ Parsed(l, c).create /\ (~l.del => ~Parsed(l, c).del)
                 /\ Parsed(l, c).new_addr = ParsedAddr(c, l.new_addr)
                 /\ Parsed(l, c).new_prefix = ParsedPrefix(c, c.new, l.new_prefix)
           /\ c.op = "DELETED" =>
                 /\ Parsed(l, c).del /\ (~l.create => ~Parsed(l, c).create)
                 /\ Parsed(l, c).old_addr = ParsedAddr(c, l.old_addr)
                 /\ Parsed(l, c).old_prefix = ParsedPrefix(c, c.old, l.old_prefix)
  BY DEF Parsed

\* Parsing one more change (ietf_interface.cpp:311-347).
LEMMA ParseOne ==
    ASSUME IInv, NEW x \in Ifs \X Addr, OneAddr(x), NEW n \in 0 .. 2, Parsing(x, n),
           AddrCbParse
    PROVE  Parsing(x, n + 1)'
  <1>1. /\ loc' = Parsed(loc, Head(todo)) /\ todo' = Tail(todo)
        /\ UNCHANGED <<runAddr, candAddr, leftAddr>>
    BY DEF AddrCbParse, dsVars
  <1> DEFINE node == IF n = 0 THEN "address" ELSE IF n = 1 THEN "ip" ELSE SubnetOf(x).leaf
  <1>2. Head(todo) = Delivered(x, node) /\ todo' = Remaining(x, n + 1)
    <2>1. CASE n = 0
      BY <1>1, <2>1 DEF Parsing, Remaining
    <2>2. CASE n = 1
      BY <1>1, <2>2 DEF Parsing, Remaining
    <2>3. CASE n = 2
      BY <1>1, <2>3 DEF Parsing, Remaining
    <2>4. QED BY <2>1, <2>2, <2>3
  <1>3. todo' = Remaining(x, n + 1)'
    BY <1>1, <1>2, SameAddr
  <1>4. /\ SubnetOf(x).leaf \in {"prefix-length", "netmask"}
        /\ SubnetOf(x)' = SubnetOf(x) /\ PlenOf(SubnetOf(x))' = PlenOf(SubnetOf(x))
    BY <1>1, OneAddrType, SameAddr DEF PlenOf
  <1>5. CASE n = 0
    <2>1. loc = NoLocals /\ loc' = Parsed(NoLocals, Delivered(x, "address"))
      BY <1>1, <1>2, <1>5 DEF Parsing
    <2>2. Known(x, 1)'
      BY <1>1, <2>1, ParsedFields DEF Known, ParsedAddr, ParsedPrefix, NoLocals, Delivered
    <2>3. QED BY <1>1, <1>3, <1>5, <2>2 DEF Parsing
  <1>6. CASE n = 1
    <2>1. Known(x, 1) /\ loc' = Parsed(loc, Delivered(x, "ip"))
      BY <1>1, <1>2, <1>6 DEF Parsing
    <2>2. Known(x, 2)'
      BY <1>1, <2>1, ParsedFields DEF Known, ParsedAddr, ParsedPrefix, Delivered
    <2>3. QED BY <1>1, <1>3, <1>6, <2>2 DEF Parsing
  <1>7. CASE n = 2
    <2>1. Known(x, 2) /\ loc' = Parsed(loc, Delivered(x, SubnetOf(x).leaf))
      BY <1>1, <1>2, <1>7 DEF Parsing
    <2>2. Known(x, 3)'
      BY <1>1, <1>4, <2>1, ParsedFields DEF Known, ParsedAddr, ParsedPrefix, Delivered
    <2>3. QED BY <1>1, <1>3, <1>7, <2>2 DEF Parsing
  <1>8. QED BY <1>5, <1>6, <1>7

\* Removing and adding bindings leaves what the locals say of the address alone
\* (ietf_interface.cpp:349-357).
LEMMA OperateOne ==
    ASSUME IInv, AddrCbDel \/ AddrCbAdd, NEW x, NEW n \in 1 .. 3, Parsing(x, n)
    PROVE  Parsing(x, n)'
  <1>1. UNCHANGED <<runAddr, candAddr, leftAddr, todo>>
    BY DEF AddrCbDel, AddrCbAdd, dsVars
  <1>2. loc' = loc \/ \E rc : loc' = [loc EXCEPT !.op_rc = rc]
    BY DEF AddrCbDel, AddrCbAdd, ipv46_config_add_remove, ConfigAdd, ConfigRemove
  <1>3. /\ loc'.if_name = loc.if_name /\ loc'.create = loc.create /\ loc'.del = loc.del
        /\ loc'.new_addr = loc.new_addr /\ loc'.new_prefix = loc.new_prefix
        /\ loc'.old_addr = loc.old_addr /\ loc'.old_prefix = loc.old_prefix
    BY <1>2 DEF IInv, Plugin, AddrTypeOK
  <1>4. SubnetOf(x)' = SubnetOf(x) /\ PlenOf(SubnetOf(x))' = PlenOf(SubnetOf(x))
    BY <1>1, SameAddr DEF PlenOf
  <1>5. Known(x, n)'
    BY <1>1, <1>3, <1>4 DEF Parsing, Known
  <1>6. todo' = Remaining(x, n)'
    BY <1>1, SameAddr DEF Parsing
  <1>7. QED BY <1>1, <1>5, <1>6 DEF Parsing

\* How many changes remain tells how many were parsed, and parsed changes show
\* in the locals.
LEMMA StageFacts ==
    ASSUME NEW x
    PROVE  /\ \A n \in 0 .. 2 : Parsing(x, n) => todo # <<>>
           /\ Parsing(x, 3) => todo = <<>>
           /\ \A n \in 1 .. 3 : Parsing(x, n) => loc # NoLocals
           /\ Rest => \A n \in 0 .. 3 : ~Parsing(x, n)
  <1>1. \A n \in 0 .. 2 : Parsing(x, n) => todo # <<>>
    BY DEF Parsing, Remaining
  <1>2. Parsing(x, 3) => todo = <<>>
    BY DEF Parsing, Remaining
  <1>3. \A n \in 1 .. 3 : Parsing(x, n) => loc # NoLocals
    BY DEF Parsing, Known, NoLocals
  <1>4. Rest => \A n \in 0 .. 3 : ~Parsing(x, n)
    BY <1>1, <1>3 DEF Rest
  <1>5. QED BY <1>1, <1>2, <1>3, <1>4

\* Where the walk is in a phase of the address callbacks.
LEMMA WalkState ==
    ASSUME IInv, Walk, phase \in AddrPhase, NEW x \in Ifs \X Addr, OneAddr(x)
    PROVE  \/ Pending(x) /\ (phase = "ipv6" => x[2] \in V6)
           \/ x[2] \in Family /\ \E n \in 0 .. 3 : Parsing(x, n)
           \/ phase = "ipv6" /\ x[2] \in V4 /\ leftAddr = {} /\ Rest
  BY OneAddrType DEF Walk, Visiting, Family, AddrPhase

\* The callback visits the one address there is.
LEMMA NextWalk ==
    ASSUME IInv, Walk, AddrCbNext, NEW x \in Ifs \X Addr, OneAddr(x)
    PROVE  x[2] \in Family /\ Parsing(x, 0)'
  <1>1. PICK y \in leftAddr : y[2] \in Family /\ leftAddr' = leftAddr \ {y} /\ todo' = ChangesOf(y)
    BY DEF AddrCbNext
  <1>2. /\ phase \in AddrPhase /\ pc = "next" /\ todo = <<>>
        /\ UNCHANGED <<loc, pc, runAddr, candAddr>>
    BY DEF AddrCbNext, dsVars
  <1>3. Pending(x)
    BY <1>1, <1>2, WalkState DEF Parsing
  <1>4. y = x /\ leftAddr' = {} /\ loc' = NoLocals /\ pc' = "next"
    BY <1>1, <1>2, <1>3 DEF Pending, Rest
  <1>5. todo' = Remaining(x, 0)'
    BY <1>1, <1>2, <1>4, ChangesOfOne, SameAddr
  <1>6. QED BY <1>1, <1>4, <1>5 DEF Parsing

\* Parsing and operating go on with the address that is visited.
LEMMA StepWalk ==
    ASSUME IInv, Walk, AddrCbParse \/ AddrCbDel \/ AddrCbAdd,
           NEW x \in Ifs \X Addr, OneAddr(x)
    PROVE  x[2] \in Family /\ \E n \in 1 .. 3 : Parsing(x, n)'
  <1>1. phase \in AddrPhase /\ (todo # <<>> \/ pc # "next")
    BY DEF AddrCbParse, AddrCbDel, AddrCbAdd
  <1>2. PICK n \in 0 .. 3 : Parsing(x, n) /\ x[2] \in Family
    BY <1>1, WalkState DEF Pending, Rest
  <1>3. CASE AddrCbParse
    <2>1. n \in 0 .. 2
      BY <1>2, <1>3, StageFacts DEF AddrCbParse
    <2>2. Parsing(x, n + 1)' /\ n + 1 \in 1 .. 3
      BY <1>2, <1>3, <2>1, ParseOne
    <2>3. QED BY <1>2, <2>2
  <1>4. CASE AddrCbDel \/ AddrCbAdd
    <2>1. pc # "next"
      BY <1>4 DEF AddrCbDel, AddrCbAdd
    <2>2. n # 0
      BY <1>2, <2>1 DEF Parsing
    <2>3. QED BY <1>2, <1>4, <2>2, OperateOne
  <1>5. QED BY <1>3, <1>4

\* The callback of the address's family returns only once it has made all
\* operations of the address.
LEMMA ReturnWalk ==
    ASSUME IInv, Walk, AddrCbReturn, NEW x \in Ifs \X Addr, OneAddr(x)
    PROVE  \/ Parsing(x, 3) /\ x[2] \in Family
           \/ phase = "ipv4" /\ x[2] \in V6 /\ Pending(x)
           \/ phase = "ipv6" /\ x[2] \in V4 /\ leftAddr = {}
  <1>1. /\ phase \in AddrPhase /\ pc = "next" /\ todo = <<>>
        /\ \A y \in leftAddr : y[2] \notin Family
    BY DEF AddrCbReturn
  <1>2. CASE Pending(x)
    <2>1. x[2] \notin Family
      BY <1>1, <1>2 DEF Pending
    <2>2. QED BY <1>1, <1>2, <2>1, WalkState, OneAddrType DEF Family, AddrPhase
  <1>3. ASSUME NEW n \in 0 .. 3, Parsing(x, n) PROVE n = 3
    BY <1>1, <1>3, StageFacts
  <1>4. QED BY <1>1, <1>2, <1>3, WalkState

\* Walk holds in every reachable state.
LEMMA WalkHolds == Spec => []Walk
  <1>1. Init => Walk
    BY DEF Init, Walk, Rest, AddrPhase
  <1>2. IInv /\ Walk /\ [Next]_vars => Walk'
    <2>1. SUFFICES ASSUME IInv, Walk, [Next]_vars PROVE Walk'
      OBVIOUS
    <2>2. CASE CommitStart
      <3>1. /\ phase = "idle" /\ phase' = "itf" /\ leftAddr' = ChangedAddr'
            /\ UNCHANGED <<todo, loc, pc>>
        BY <2>2 DEF CommitStart, ChangedAddr
      <3>2. Rest'
        BY <2>1, <3>1 DEF Walk, Rest, AddrPhase, NoLocals
      <3>3. QED BY <3>1, <3>2 DEF Walk, OneAddr
    <2>3. CASE CreateCbChange \/ CreateCbFinish
      <3>1. /\ phase = "itf" /\ phase' \in {"itf", "ipv4", "crashed"}
            /\ UNCHANGED <<runAddr, candAddr, leftAddr, todo, loc, pc>>
        BY <2>3 DEF CreateCbChange, CreatedItf, DeletedItf, ModifiedItf, CreateCbFinish,
           WriteOrRemove, FailAfterLoop, Return, dsVars, addrVars
      <3>2. Rest'
        BY <2>1, <3>1 DEF Walk, Rest, AddrPhase, NoLocals
      <3>3. ASSUME NEW x \in Ifs \X Addr, OneAddr(x)' PROVE leftAddr' = {x}
        BY <2>1, <3>1, <3>3, SameAddr DEF Walk
      <3>4. QED BY <3>1, <3>2, <3>3 DEF Walk, Pending
    <2>4. CASE AddrCbNext
      <3>1. phase \in AddrPhase /\ UNCHANGED <<phase, runAddr, candAddr>>
        BY <2>4 DEF AddrCbNext, dsVars
      <3>2. ASSUME NEW x \in Ifs \X Addr, OneAddr(x)'
            PROVE  x[2] \in Family /\ Visiting(x)'
        <4>1. OneAddr(x)
          BY <3>1, <3>2, SameAddr
        <4>2. QED BY <2>1, <2>4, <4>1, NextWalk DEF Visiting
      <3>3. ASSUME NEW x \in Ifs \X Addr, OneAddr(x)'
            PROVE  phase = "ipv6" => x[2] \notin V4
        BY <3>2, <3>3, ConfigAssumption DEF Family
      <3>4. QED BY <3>1, <3>2, <3>3 DEF Walk, Family, AddrPhase
    <2>5. CASE AddrCbParse \/ AddrCbDel \/ AddrCbAdd
      <3>1. phase \in AddrPhase /\ UNCHANGED <<phase, runAddr, candAddr>>
        BY <2>5 DEF AddrCbParse, AddrCbDel, AddrCbAdd, dsVars
      <3>2. ASSUME NEW x \in Ifs \X Addr, OneAddr(x)'
            PROVE  x[2] \in Family /\ Visiting(x)'
        <4>1. OneAddr(x)
          BY <3>1, <3>2, SameAddr
        <4>2. PICK n \in 1 .. 3 : Parsing(x, n)' /\ x[2] \in Family
          BY <2>1, <2>5, <4>1, StepWalk
        <4>3. n \in 0 .. 3
          OBVIOUS
        <4>4. QED BY <4>2, <4>3 DEF Visiting
      <3>3. ASSUME NEW x \in Ifs \X Addr, OneAddr(x)'
            PROVE  phase = "ipv6" => x[2] \notin V4
        BY <3>2, <3>3, ConfigAssumption DEF Family
      <3>4. QED BY <3>1, <3>2, <3>3 DEF Walk, Family, AddrPhase
    <2>6. CASE AddrCbReturn
      <3>1. /\ \/ phase = "ipv4" /\ phase' = "ipv6"
               \/ phase = "ipv6" /\ phase' = "decide"
            /\ todo = <<>> /\ pc = "next" /\ loc' = NoLocals
            /\ UNCHANGED <<runAddr, candAddr, leftAddr, todo, pc>>
        <4>1. /\ phase \in AddrPhase
              /\ phase' = (IF phase = "ipv4" THEN "ipv6" ELSE "decide")
              /\ todo = <<>> /\ pc = "next" /\ loc' = NoLocals
              /\ UNCHANGED <<runAddr, candAddr, leftAddr, todo, pc>>
          BY <2>6 DEF AddrCbReturn, Return, dsVars
        <4>2. QED BY <4>1 DEF AddrPhase
      <3>2. Rest'
        BY <3>1 DEF Rest, NoLocals
      <3>3. ASSUME NEW x \in Ifs \X Addr, OneAddr(x)', phase = "ipv4"
            PROVE  IF x[2] \in V4 THEN leftAddr' = {} ELSE Pending(x)'
        <4>1. OneAddr(x)
          BY <3>1, <3>3, SameAddr
        <4>2. \/ Parsing(x, 3) /\ x[2] \in V4
              \/ x[2] \in V6 /\ leftAddr = {x}
          <5>1. \/ Parsing(x, 3) /\ x[2] \in Family
                \/ x[2] \in V6 /\ Pending(x)
                \/ phase = "ipv6"
            BY <2>1, <2>6, <4>1, ReturnWalk
          <5>2. QED BY <3>3, <5>1 DEF Family, Pending
        <4>3. QED BY <2>1, <3>1, <3>2, <4>1, <4>2, OneAddrType DEF Parsing, Pending
      <3>4. QED BY <3>1, <3>2, <3>3 DEF Walk, AddrPhase, Visiting
    <2>7. CASE CommitApply
      BY <2>1, <2>7 DEF Walk, CommitApply, Rest, AddrPhase, NoLocals, addrVars
    <2>8. CASE CommitAbort \/ Crash \/ PluginRestart
      <3>1. phase' \in {"idle", "crashed"}
        BY <2>8 DEF CommitAbort, Crash, ProcessGone, PluginRestart, Discard
      <3>2. Rest'
        BY <2>1, <2>8 DEF CommitAbort, Crash, ProcessGone, PluginRestart, Walk, Rest, AddrPhase, NoLocals
      <3>3. QED BY <3>1, <3>2 DEF Walk, AddrPhase
    <2>9. CASE UNCHANGED vars
      <3>1. UNCHANGED <<runAddr, candAddr, phase, leftAddr, todo, loc, pc>>
        BY <2>9 DEF vars, dsVars, addrVars
      <3>2. Rest' <=> Rest
        BY <3>1 DEF Rest, NoLocals
      <3>3. ASSUME NEW x PROVE /\ Pending(x)' <=> Pending(x)
                               /\ \A n \in 0 .. 3 : Parsing(x, n)' <=> Parsing(x, n)
        <4>1. \A n \in 0 .. 3 : Known(x, n)' <=> Known(x, n)
          BY <3>1 DEF Known, SubnetOf, PlenOf
        <4>2. QED BY <3>1, <3>2, <4>1, SameAddr DEF Pending, Parsing, NoLocals
      <3>4. QED BY <2>1, <3>1, <3>2, <3>3, SameAddr DEF Walk, Visiting
    <2>10. QED BY <2>1, <2>2, <2>3, <2>4, <2>5, <2>6, <2>7, <2>8, <2>9 DEF Next
  <1>3. QED BY <1>1, <1>2, Inductive, PTL DEF Spec

-----------------------------------------------------------------------------
(* The commit that creates one address.                                    *)

\* The callback has done all it does for x, and agrees.
Agreed(x) == \/ phase \in AddrPhase /\ Parsing(x, 3) /\ pc = "next" /\ loc.op_rc
             \/ phase = "ipv6" /\ x[2] \in V4 /\ ~refused
             \/ phase = "decide" /\ ~refused

\* The last operation of the callback writes the prefix that was configured, and
\* its result is the one that is returned.
AddrHistory ==
    \A x \in Ifs \X Addr :
        OneAddr(x) /\ runAddr[x] = NoLeaf /\ Agreed(x) => FullBinding(x) \in l3Ok

\* Adding the binding of the address, once its prefix is known
\* (ietf_interface.cpp:354-357).
LEMMA AddFull ==
    ASSUME IInv, NEW x \in Ifs \X Addr, OneAddr(x), runAddr[x] = NoLeaf, Parsing(x, 3),
           AddrCbAdd, loc'.op_rc
    PROVE  FullBinding(x) \in l3Ok'
  <1>1. /\ loc.create /\ loc.new_addr = x[2] /\ loc.new_addr # NoAddr
        /\ NewBinding = FullBinding(x)
    BY OneAddrType DEF Parsing, Known, NewBinding, FullBinding, BindingOf
  <1>2. ipv46_config_add_remove(FullBinding(x), TRUE)
    BY <1>1 DEF AddrCbAdd
  <1>3. ASSUME NEW b, NEW ok, ConfigAdd(b, ok) PROVE b \in l3Ok'
    BY <1>3 DEF ConfigAdd, OM_write_l3, L3WriteRc, IInv, Plugin, AddrTypeOK
  <1>4. loc' # [loc EXCEPT !.op_rc = FALSE]
    BY DEF IInv, Plugin, AddrTypeOK
  <1>5. QED BY <1>2, <1>3, <1>4 DEF ipv46_config_add_remove

\* AddrHistory holds in every reachable state.
LEMMA AddrHistoryHolds == Spec => []AddrHistory
  <1>1. Init => AddrHistory
    BY DEF Init, AddrHistory, Agreed, AddrPhase
  <1>2. IInv /\ Walk /\ AddrHistory /\ [Next]_vars => AddrHistory'
    <2>1. SUFFICES ASSUME IInv, Walk, AddrHistory, [Next]_vars,
                          NEW x \in Ifs \X Addr,
                          OneAddr(x)', runAddr'[x] = NoLeaf, Agreed(x)'
                   PROVE  FullBinding(x)' \in l3Ok'
      BY DEF AddrHistory
    <2>2. phase' \in AddrPhase \cup {"decide"}
      BY <2>1 DEF Agreed, AddrPhase
    <2>3. CASE CommitStart \/ CommitApply \/ CommitAbort \/ Crash \/ PluginRestart
      BY <2>2, <2>3 DEF CommitStart, CommitApply, CommitAbort, Crash, ProcessGone,
         PluginRestart, Discard, AddrPhase
    <2>4. CASE CreateCbChange \/ CreateCbFinish
      <3>1. /\ phase = "itf" /\ phase' \in {"itf", "ipv4", "crashed"}
            /\ loc' = loc
        BY <2>4 DEF CreateCbChange, CreatedItf, DeletedItf, ModifiedItf, CreateCbFinish,
           WriteOrRemove, FailAfterLoop, Return, addrVars
      <3>2. loc' = NoLocals
        BY <2>1, <3>1 DEF Walk, Rest, AddrPhase
      <3>3. ~Parsing(x, 3)'
        BY <3>2 DEF Parsing, Known, NoLocals
      <3>4. QED BY <2>1, <3>1, <3>3 DEF Agreed
    <2>5. CASE AddrCbNext \/ AddrCbParse \/ AddrCbDel \/ AddrCbAdd
      <3>1. /\ phase \in AddrPhase
            /\ UNCHANGED <<phase, refused, runAddr, candAddr>>
        BY <2>5 DEF AddrCbNext, AddrCbParse, AddrCbDel, AddrCbAdd, dsVars
      <3>2. OneAddr(x) /\ runAddr[x] = NoLeaf /\ FullBinding(x)' = FullBinding(x)
        BY <2>1, <3>1, SameAddr
      <3>3. x[2] \in Family
        BY <2>1, <2>5, <3>2, NextWalk, StepWalk
      <3>4. Parsing(x, 3)' /\ pc' = "next" /\ loc'.op_rc
        BY <2>1, <3>1, <3>3, ConfigAssumption DEF Agreed, Family, AddrPhase
      <3>5. ~AddrCbNext
        BY <2>1, <3>2, <3>4, NextWalk DEF Parsing, Remaining
      <3>6. AddrCbAdd
        BY <2>5, <3>4, <3>5 DEF AddrCbParse, AddrCbDel
      <3>7. todo = <<>> /\ pc # "next"
        BY <3>4, <3>6 DEF AddrCbAdd, Parsing, Remaining
      <3>8. PICK n \in 0 .. 3 : Parsing(x, n)
        BY <2>1, <3>1, <3>2, <3>7, WalkState DEF Pending, Rest
      <3>9. Parsing(x, 3)
        BY <3>7, <3>8, StageFacts
      <3>10. QED BY <2>1, <3>2, <3>4, <3>6, <3>9, AddFull
    <2>6. CASE AddrCbReturn
      <3>1. /\ phase \in AddrPhase
            /\ phase' = (IF phase = "ipv4" THEN "ipv6" ELSE "decide")
            /\ refused' = (refused \/ ~loc.op_rc)
            /\ pc = "next" /\ loc' = NoLocals
            /\ UNCHANGED <<runAddr, candAddr, l3Ok>>
        BY <2>6 DEF AddrCbReturn, Return, dsVars, hwVars
      <3>2. OneAddr(x) /\ runAddr[x] = NoLeaf /\ FullBinding(x)' = FullBinding(x)
        BY <2>1, <3>1, SameAddr
      <3>3. ~Parsing(x, 3)'
        BY <3>1 DEF Parsing, Known, NoLocals
      <3>4. ~refused' /\ (phase' = "ipv6" => x[2] \in V4)
        BY <2>1, <3>1, <3>3 DEF Agreed
      <3>5. ~refused /\ loc.op_rc
        BY <2>1, <3>1, <3>4 DEF IInv, Plugin, CommitTypeOK, AddrTypeOK
      <3>6. Agreed(x)
        BY <2>1, <2>6, <3>1, <3>2, <3>4, <3>5, ReturnWalk, ConfigAssumption DEF Agreed, AddrPhase
      <3>7. QED BY <2>1, <3>1, <3>2, <3>6 DEF AddrHistory
    <2>7. CASE UNCHANGED vars
      <3>1. UNCHANGED <<runAddr, candAddr, phase, refused, leftAddr, todo, loc, pc, l3Ok>>
        BY <2>7 DEF vars, dsVars, addrVars, hwVars
      <3>2. Known(x, 3)' <=> Known(x, 3)
        BY <3>1 DEF Known, SubnetOf, PlenOf
      <3>3. Parsing(x, 3)' <=> Parsing(x, 3)
        BY <3>1, <3>2, SameAddr DEF Parsing
      <3>4. Agreed(x)
        BY <2>1, <3>1, <3>3 DEF Agreed
      <3>5. QED BY <2>1, <3>1, <3>4, SameAddr DEF AddrHistory
    <2>8. QED BY <2>1, <2>3, <2>4, <2>5, <2>6, <2>7 DEF Next
  <1>3. QED BY <1>1, <1>2, Inductive, WalkHolds, PTL DEF Spec

\* An accepted commit that creates one address, and changes no other, has bound
\* it in VPP with the prefix length that was asked for, if netmasks consist of whole
\* octets, whatever failed or was refused before and whatever the commit does to
\* interfaces (ietf_interface.cpp:302-364).
THEOREM AdditionReachesVpp == Exact => (Spec => AcceptedAddressReachesVpp)
  <1> SUFFICES ASSUME Exact PROVE Spec => AcceptedAddressReachesVpp
    OBVIOUS
  <1> DEFINE Bound(x) ==
          runAddr[x] = NoLeaf /\ ChangedAddr = {x} =>
              PrefixOf(x[1], x[2], candAddr[x]) \in vppL3'
  <1>1. ASSUME IInv, AddrHistory, Next, Accepted PROVE \A x \in Ifs \X Addr : Bound(x)
    <2>1. CommitApply
      BY <1>1, AcceptedIsApply
    <2>2. phase = "decide" /\ ~refused /\ vppL3' = vppL3
      BY <1>1, <2>1 DEF Accepted, CommitApply, hwVars
    <2>3. ASSUME NEW x \in Ifs \X Addr, runAddr[x] = NoLeaf, ChangedAddr = {x}
          PROVE  PrefixOf(x[1], x[2], candAddr[x]) \in vppL3'
      <3>1. OneAddr(x) /\ FullBinding(x) \in l3Ok
        BY <1>1, <2>2, <2>3 DEF AddrHistory, OneAddr, ComesOrGoes, ChangedAddr, Agreed
      <3>2. candAddr[x] \in Subnet /\ FullBinding(x) = BindingOf(x[1], x[2], candAddr[x])
        BY <1>1, <2>3, <3>1, OneAddrType DEF FullBinding, SubnetOf
      <3>3. FullBinding(x) = PrefixOf(x[1], x[2], candAddr[x])
        BY <3>2, ExactBinding
      <3>4. QED BY <1>1, <2>2, <3>1, <3>3 DEF IInv, VomInv, BeliefIsSound
    <2>4. QED BY <2>3
  <1>2. IInv /\ AddrHistory /\ [Next]_vars
          => [Accepted => \A x \in Ifs \X Addr : Bound(x)]_vars
    BY <1>1
  <1>3. QED BY <1>2, Inductive, AddrHistoryHolds, PTL DEF Spec, AcceptedAddressReachesVpp
=============================================================================
