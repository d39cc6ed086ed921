-------------------------- MODULE IetfCommitProofs --------------------------
(***************************************************************************)
(* How VPP follows the running datastore of ietf-interfaces when it takes  *)
(* every command: commits of several addresses bind and unbind what they   *)
(* say; commits of single changes keep VPP an image of the datastore.      *)
(* Each theorem names the circumstances it is about in an operator on the  *)
(* constants; no bound on the number of commits, addresses or subnets is   *)
(* among them.                                                             *)
(***************************************************************************)
EXTENDS IetfInterfacesProofs, FiniteSetTheorems

-----------------------------------------------------------------------------
(* Commits that VPP can follow.                                            *)

\* VPP has every interface the configuration can name, the model knows their
\* type, VPP takes every command, a bool that was not assigned reads as false,
\* and the process dies only of what the callbacks do.  The code guarantees none
\* of this: a flag that reads as true refuses commits (ietf_interface.cpp:109), an
\* interface VPP does not have fails its addresses (:214-218).  The commits may be of any
\* size, the plugin may restart, and interfaces, addresses and subnets are any.
Supported ==
    /\ AtBoot = Ifs
    /\ IfType \subseteq {"ethernetCsmacd"}
    /\ Outcome = {TRUE}
    /\ UninitBool = {FALSE}
    /\ MayCrash = FALSE

\* Nothing is refused: VOM finds every interface, what the create callback will
\* write can be built, and every operation on an address names an interface.
Calm ==
    /\ bootItf = Ifs
    /\ ~refused /\ phase # "crashed"
    /\ flags.create => builder.name # NoItf /\ builder.type
    /\ flags.modify => intf # NoItf
    /\ loc.op_rc
    /\ pc # "next" => loc.if_name \in Ifs

LEMMA AllFound == ASSUME IInv, bootItf = Ifs PROVE Found = Ifs
  BY DEF Found, LiveItf, IInv, VomInv, VomTypeOK, Binding

\* The locals of ietf_interface_create_cb, on entry and once it has returned.
LEMMA CalmFresh == LocalsGone => ~flags'.create /\ ~flags'.modify
  BY DEF LocalsGone, NoFlags

\* The loop of ietf_interface_create_cb (ietf_interface.cpp:128-169).
LEMMA CalmLoop == ASSUME Supported, IInv, Calm, CreateCbChange PROVE Calm'
  <1>1. PICK n \in leftItf : CreatedItf(n) \/ DeletedItf(n) \/ ModifiedItf(n)
    BY DEF CreateCbChange
  <1>2. /\ phase = "itf" /\ UNCHANGED <<loc, pc>>
        /\ n \in Ifs /\ runItf[n] # candItf[n]
        /\ candItf[n] \in ItfConfig \cup {NoItf}
    BY DEF CreateCbChange, addrVars, IInv, Plugin, LeftOK, ChangedItf, DatastoreTypeOK
  <1>3. n # NoItf /\ Found = Ifs
    BY <1>2, AllFound, ConfigAssumption DEF Calm
  <1>4. CASE CreatedItf(n)
    <2>1. candItf[n].type = "ethernetCsmacd"
      BY <1>2, <1>4 DEF CreatedItf, ItfConfig, Supported
    <2>2. builder'.name = n /\ builder'.type /\ flags'.modify = flags.modify
      BY <1>4, <2>1 DEF CreatedItf, IInv, Plugin, CreateTypeOK
    <2>3. QED BY <1>2, <1>3, <1>4, <2>2 DEF CreatedItf, Calm, hwVars
  <1>5. CASE DeletedItf(n)
    <2>1. /\ builder'.name = n /\ builder'.type = builder.type
          /\ flags'.create = flags.create /\ flags'.modify = flags.modify
      BY <1>5 DEF DeletedItf, IInv, Plugin, CreateTypeOK
    <2>2. QED BY <1>2, <1>3, <1>5, <2>1 DEF DeletedItf, Calm, hwVars
  <1>6. CASE ModifiedItf(n)
    <2>1. builder'.name = builder.name /\ builder'.type = builder.type
      BY <1>6 DEF ModifiedItf, IInv, Plugin, CreateTypeOK
    <2>2. \/ UNCHANGED <<flags, intf>>
          \/ flags'.create = flags.create /\ intf' = n
      BY <1>2, <1>3, <1>6 DEF ModifiedItf, IInv, Plugin, CreateTypeOK
    <2>3. UNCHANGED <<phase, refused, bootItf>>
      BY <1>2, <1>3, <1>6 DEF ModifiedItf, Itf_set, hwVars
    <2>4. QED BY <1>2, <1>3, <2>1, <2>2, <2>3 DEF Calm
  <1>7. QED BY <1>1, <1>4, <1>5, <1>6

\* A flag that was not assigned reads as false (ietf_interface.cpp:105).
LEMMA AssignedFlags ==
    ASSUME UninitBool = {FALSE}, IInv, CreateCbFinish
    PROVE  \E us \in UninitBool, ok \in Outcome :
              WriteOrRemove(flags.create, flags.modify, flags.remove, us, ok)
  <1>1. PICK uc \in UninitBool, um \in UninitBool, ur \in UninitBool,
             us \in UninitBool, ok \in Outcome :
           WriteOrRemove(flags.create \/ uc, flags.modify \/ um, flags.remove \/ ur, us, ok)
    BY Zenon DEF CreateCbFinish
  <1>2. /\ flags.create \in BOOLEAN /\ flags.modify \in BOOLEAN /\ flags.remove \in BOOLEAN
        /\ uc = FALSE /\ um = FALSE /\ ur = FALSE
    BY DEF IInv, Plugin, CreateTypeOK
  <1>3. /\ (flags.create \/ uc) = flags.create
        /\ (flags.modify \/ um) = flags.modify
        /\ (flags.remove \/ ur) = flags.remove
    BY <1>2
  <1>4. QED BY <1>1, <1>3, Zenon

\* After the loop (ietf_interface.cpp:171-206).
LEMMA CalmEnd == ASSUME Supported, IInv, Calm, CreateCbFinish PROVE Calm'
  <1>1. PICK us \in UninitBool, ok \in Outcome :
           WriteOrRemove(flags.create, flags.modify, flags.remove, us, ok)
    BY AssignedFlags DEF Supported
  <1>2. ok = TRUE
    BY DEF Supported
  <1>3. /\ LocalsGone /\ UNCHANGED <<loc, pc>>
    BY DEF CreateCbFinish, addrVars
  <1>4. phase' = "ipv4" /\ ~refused' /\ bootItf' = bootItf
    BY <1>1, <1>2 DEF WriteOrRemove, Calm, Target, ItfWriteRc, Return, OM_write_itf,
       OM_remove_itf, hwVars
  <1>5. QED BY <1>3, <1>4, CalmFresh DEF Calm

\* The address callbacks (ietf_interface.cpp:302-364).
LEMMA CalmAddr ==
    ASSUME Supported, IInv, Calm,
           AddrCbNext \/ AddrCbParse \/ AddrCbDel \/ AddrCbAdd \/ AddrCbReturn
    PROVE  Calm'
  <1>1. UNCHANGED <<flags, builder, intf>>
    BY DEF AddrCbNext, AddrCbParse, AddrCbDel, AddrCbAdd, AddrCbReturn, createVars
  <1>2. CASE AddrCbNext
    BY <1>1, <1>2 DEF AddrCbNext, Calm, hwVars
  <1>3. CASE AddrCbParse
    <2>1. Head(todo) \in Change /\ loc' = Parsed(loc, Head(todo))
      BY <1>3 DEF AddrCbParse, IInv, Plugin, AddrTypeOK
    <2>2. loc'.if_name \in Ifs /\ loc'.op_rc = loc.op_rc
      BY <2>1 DEF Parsed, Change
    <2>3. QED BY <1>1, <1>3, <2>2 DEF AddrCbParse, Calm, hwVars
  <1>4. CASE AddrCbDel \/ AddrCbAdd
    <2>1. /\ UNCHANGED <<phase, refused>> /\ pc # "next"
      BY <1>4 DEF AddrCbDel, AddrCbAdd
    <2>2. loc.if_name \in Found
      BY <2>1, AllFound DEF Calm
    <2>3. /\ bootItf' = bootItf
          /\ loc' = loc \/ loc' = [loc EXCEPT !.op_rc = TRUE]
      BY <1>4, <2>2 DEF AddrCbDel, AddrCbAdd, ipv46_config_add_remove, ConfigAdd, ConfigRemove,
         OM_write_l3, OM_remove_l3, L3WriteRc, OldBinding, NewBinding, Supported, hwVars
    <2>4. loc'.op_rc /\ loc'.if_name = loc.if_name
      BY <2>3 DEF Calm, IInv, Plugin, AddrTypeOK
    <2>5. QED BY <1>1, <2>1, <2>3, <2>4 DEF Calm
  <1>5. CASE AddrCbReturn
    BY <1>1, <1>5 DEF AddrCbReturn, Return, NoLocals, Calm, hwVars
  <1>6. QED BY <1>2, <1>3, <1>4, <1>5

\* Calm holds in every reachable state.
LEMMA CalmHolds == Supported => (Spec => []Calm)
  <1>1. SUFFICES ASSUME Supported PROVE Spec => []Calm
    OBVIOUS
  <1>2. Init => Calm
    BY <1>1 DEF Init, VomInit, Calm, NoFlags, NoLocals, Supported
  <1>3. IInv /\ Calm /\ [Next]_vars => Calm'
    <2>1. SUFFICES ASSUME IInv, Calm, [Next]_vars PROVE Calm'
      OBVIOUS
    <2>2. CASE CommitStart
      BY <2>1, <2>2 DEF CommitStart, Calm, hwVars
    <2>3. CASE CreateCbChange
      BY <1>1, <2>1, <2>3, CalmLoop
    <2>4. CASE CreateCbFinish
      BY <1>1, <2>1, <2>4, CalmEnd
    <2>5. CASE AddrCbNext \/ AddrCbParse \/ AddrCbDel \/ AddrCbAdd \/ AddrCbReturn
      BY <1>1, <2>1, <2>5, CalmAddr
    <2>6. CASE CommitApply
      BY <2>1, <2>6 DEF CommitApply, Calm, createVars, addrVars, hwVars
    <2>7. CASE CommitAbort \/ Crash
      BY <1>1, <2>1, <2>7 DEF CommitAbort, Crash, Calm, Supported
    <2>8. CASE PluginRestart
      <3>1. bootItf' = Ifs
        BY <1>1, <2>1, <2>8 DEF PluginRestart, OM_populate, LiveItf, Supported, IInv, VomInv,
           VomTypeOK, Binding
      <3>2. phase' = "idle" /\ refused' = FALSE /\ LocalsGone /\ UNCHANGED <<loc, pc>>
        BY <2>8 DEF PluginRestart, Discard
      <3>3. QED BY <2>1, <3>1, <3>2, CalmFresh DEF Calm
    <2>9. CASE UNCHANGED vars
      BY <2>1, <2>9 DEF vars, createVars, addrVars, hwVars, Calm
    <2>10. QED BY <2>1, <2>2, <2>3, <2>4, <2>5, <2>6, <2>7, <2>8, <2>9 DEF Next
  <1>4. QED BY <1>2, <1>3, Inductive, PTL DEF Spec

-----------------------------------------------------------------------------
(* When VPP takes every command, it has the bindings VOM believes it has.  *)

\* No binding is owned by "boot" as long as the plugin did not restart.
InStep ==
    /\ vppL3 = l3Ok
    /\ MaxRestarts = 0 => bootL3 = {}

\* ietf_interface_create_cb touches no binding.
LEMMA CreateKeepsL3 ==
    CreateCbChange \/ CreateCbFinish => UNCHANGED <<l3Ok, vppL3, bootL3, usrL3>>
  <1>1. CreateCbChange => UNCHANGED <<l3Ok, vppL3, bootL3, usrL3>>
    BY DEF CreateCbChange, CreatedItf, DeletedItf, ModifiedItf, Itf_set, hwVars
  <1>2. CreateCbFinish => UNCHANGED <<l3Ok, vppL3, bootL3, usrL3>>
    <2>1. ASSUME NEW create, NEW modify, NEW remove, NEW us, NEW ok,
                 WriteOrRemove(create, modify, remove, us, ok)
          PROVE  UNCHANGED <<l3Ok, vppL3, bootL3, usrL3>>
      BY <2>1 DEF WriteOrRemove, OM_write_itf, OM_remove_itf, hwVars
    <2>2. QED BY <2>1, Zenon DEF CreateCbFinish
  <1>3. QED BY <1>1, <1>2

LEMMA InStepHolds == Outcome = {TRUE} => (Spec => []InStep)
  <1>1. SUFFICES ASSUME Outcome = {TRUE} PROVE Spec => []InStep
    OBVIOUS
  <1>2. Init => InStep
    BY DEF Init, VomInit, InStep
  <1>3. IInv /\ InStep /\ [Next]_vars => InStep'
    <2>1. SUFFICES ASSUME IInv, InStep, [Next]_vars PROVE InStep'
      OBVIOUS
    <2>2. CASE UNCHANGED <<vppL3, l3Ok, bootL3>>
      BY <2>1, <2>2 DEF InStep
    <2>3. CASE CreateCbChange \/ CreateCbFinish
      BY <2>2, <2>3, CreateKeepsL3
    <2>4. CASE AddrCbDel \/ AddrCbAdd
      <3>1. ASSUME NEW b, OM_write_l3(b, TRUE) PROVE InStep'
        BY <2>1, <3>1 DEF OM_write_l3, InStep
      <3>2. ASSUME NEW b, OM_remove_l3(b, TRUE) PROVE InStep'
        BY <2>1, <3>2 DEF OM_remove_l3, InStep
      <3>3. QED BY <1>1, <2>2, <2>4, <3>1, <3>2
            DEF AddrCbDel, AddrCbAdd, ipv46_config_add_remove, ConfigAdd, ConfigRemove, hwVars
    <2>5. CASE PluginRestart
      BY <2>1, <2>5, ConfigAssumption
      DEF PluginRestart, OM_populate, InStep, vppVars, IInv, Plugin, CommitTypeOK
    <2>6. CASE UNCHANGED hwVars
      BY <2>2, <2>6 DEF hwVars
    <2>7. QED BY <2>1, <2>3, <2>4, <2>5, <2>6
          DEF Next, CommitStart, AddrCbNext, AddrCbParse, AddrCbReturn, CommitApply,
              CommitAbort, Crash, vars
  <1>4. QED BY <1>2, <1>3, Inductive, PTL DEF Spec

-----------------------------------------------------------------------------
(* Commits that create and delete addresses of one interface.              *)

\* There is one interface, and commits do not change the prefix of an address
\* that stays.
OneInterface ==
    /\ Supported
    /\ \E n \in Ifs : Ifs = {n}
    /\ AddrOps \subseteq {"created", "deleted"}

New(x) == runAddr[x] = NoLeaf /\ candAddr[x] # NoLeaf
Gone(x) == runAddr[x] # NoLeaf /\ candAddr[x] = NoLeaf

\* The bindings the two datastores ask for at x.
CandBinding(x) == BindingOf(x[1], x[2], candAddr[x])
RunBinding(x) == BindingOf(x[1], x[2], runAddr[x])

\* k changes of x were parsed and are what the locals say of x; what an earlier
\* address has left in the other locals does not matter.
SaysOf(x, k) ==
    LET a == IF k = 1 THEN NoAddr ELSE x[2]
        plen == PlenOf(SubnetOf(x))
    IN  /\ runAddr[x] = NoLeaf => /\ loc.create /\ loc.new_addr = a
                                  /\ k = 3 => loc.new_prefix = plen
        /\ runAddr[x] # NoLeaf => /\ loc.del /\ loc.old_addr = a
                                  /\ k = 3 => loc.old_prefix = plen
AtStage(x, k) ==
    /\ ComesOrGoes(x) /\ x[2] \in Family
    /\ todo = Remaining(x, k)
    /\ IF k = 0 THEN pc = "next" ELSE SaysOf(x, k)

\* The locals only ever hold addresses that this commit deletes and creates,
\* and an address is in one of the two sets only.
LocalsOfCommit ==
    /\ loc.old_addr # NoAddr => \E x \in Ifs \X Addr : Gone(x) /\ x[2] = loc.old_addr
    /\ loc.new_addr # NoAddr => \E x \in Ifs \X Addr : New(x) /\ x[2] = loc.new_addr

\* An address that stays or comes is bound, unless it is yet to be visited or the
\* last of its operations is yet to be made; one that goes is unbound likewise.
Settling ==
    \A x \in Ifs \X Addr :
        /\ candAddr[x] # NoLeaf =>
              \/ x \in leftAddr
              \/ \E k \in 0 .. 3 : AtStage(x, k) /\ (k = 3 => pc # "next")
              \/ CandBinding(x) \in l3Ok
        /\ Gone(x) /\ MaxRestarts = 0 =>
              \/ x \in leftAddr
              \/ \E k \in 0 .. 3 : AtStage(x, k) /\ (k = 3 => pc = "del")
              \/ RunBinding(x) \notin vppL3

\* Several addresses are visited one after another, each in the callback of its
\* family, with the locals kept from one to the next.
Tour ==
    /\ \A x \in ChangedAddr : ComesOrGoes(x)
    /\ leftAddr \subseteq ChangedAddr
    /\ phase = "idle" => ChangedAddr = {}
    /\ phase = "ipv6" => leftAddr \cap (Ifs \X V4) = {}
    /\ phase = "decide" => leftAddr = {}
    /\ phase \notin AddrPhase => Rest
    /\ todo # <<>> \/ pc # "next" =>
          \E x \in Ifs \X Addr : \E k \in 0 .. 3 : AtStage(x, k)
    /\ LocalsOfCommit
    /\ Settling

\* An address is the key of its entry.
LEMMA SameKey ==
    ASSUME OneInterface, NEW x \in Ifs \X Addr, NEW y \in Ifs \X Addr, x[2] = y[2]
    PROVE  x = y
  <1>1. x[1] = y[1]
    BY DEF OneInterface
  <1>2. x = <<x[1], x[2]>> /\ y = <<y[1], y[2]>>
    OBVIOUS
  <1>3. QED BY <1>1, <1>2

\* What is said of an address depends on the datastores only.
LEMMA SameEntry ==
    ASSUME UNCHANGED <<runAddr, candAddr>>, NEW x
    PROVE  /\ New(x)' <=> New(x)
           /\ Gone(x)' <=> Gone(x)
           /\ ComesOrGoes(x)' <=> ComesOrGoes(x)
           /\ CandBinding(x)' = CandBinding(x)
           /\ RunBinding(x)' = RunBinding(x)
           /\ PlenOf(SubnetOf(x))' = PlenOf(SubnetOf(x))
           /\ ChangedAddr' = ChangedAddr
  BY DEF New, Gone, ComesOrGoes, CandBinding, RunBinding, BindingOf, PlenOf, SubnetOf, ChangedAddr

LEMMA StageTodo == ASSUME NEW x, NEW k \in 0 .. 3, AtStage(x, k) PROVE todo = <<>> <=> k = 3
  BY DEF AtStage, Remaining

\* Between two addresses nothing is half done.
LEMMA SettledAtRest ==
    ASSUME Tour, todo = <<>>, pc = "next", NEW x \in Ifs \X Addr
    PROVE  /\ candAddr[x] # NoLeaf => x \in leftAddr \/ CandBinding(x) \in l3Ok
           /\ Gone(x) /\ MaxRestarts = 0 => x \in leftAddr \/ RunBinding(x) \notin vppL3
  BY StageTodo DEF Tour, Settling

\* The nodes that are created leave the locals for the old value alone, and
\* vice versa.
LEMMA ParsedOther ==
    ASSUME NEW l, NEW c
    PROVE  /\ c.op = "CREATED" => Parsed(l, c).old_addr = l.old_addr
           /\ c.op = "DELETED" => Parsed(l, c).new_addr = l.new_addr
  BY DEF Parsed

\* Parsing one more change of an address (ietf_interface.cpp:311-347).
LEMMA StageParse ==
    ASSUME IInv, NEW x \in Ifs \X Addr, NEW k \in 0 .. 2, AtStage(x, k), AddrCbParse
    PROVE  /\ AtStage(x, k + 1)'
           /\ runAddr[x] = NoLeaf => loc'.old_addr = loc.old_addr
           /\ runAddr[x] # NoLeaf => loc'.new_addr = loc.new_addr
  <1>1. /\ loc' = Parsed(loc, Head(todo)) /\ todo' = Tail(todo)
        /\ UNCHANGED <<runAddr, candAddr, phase>>
    BY DEF AddrCbParse, dsVars
  <1> DEFINE node == IF k = 0 THEN "address" ELSE IF k = 1 THEN "ip" ELSE SubnetOf(x).leaf
  <1>2. Head(todo) = Delivered(x, node) /\ todo' = Remaining(x, k + 1)
    <2>1. CASE k = 0
      BY <1>1, <2>1 DEF AtStage, Remaining
    <2>2. CASE k = 1
      BY <1>1, <2>2 DEF AtStage, Remaining
    <2>3. CASE k = 2
      BY <1>1, <2>3 DEF AtStage, Remaining
    <2>4. QED BY <2>1, <2>2, <2>3
  <1>3. todo' = Remaining(x, k + 1)'
    BY <1>1, <1>2, SameAddr
  <1>4. ComesOrGoes(x)' /\ x[2] \in Family'
    BY <1>1, SameEntry DEF AtStage, Family
  <1>5. /\ SubnetOf(x).leaf \in {"prefix-length", "netmask"}
        /\ SubnetOf(x)' = SubnetOf(x) /\ PlenOf(SubnetOf(x))' = PlenOf(SubnetOf(x))
    BY <1>1, OneAddrType, SameAddr, SameEntry DEF AtStage
  <1>6. SaysOf(x, k + 1)'
    <2>1. CASE k = 0
      <3>1. loc' = Parsed(loc, Delivered(x, "address"))
        BY <1>1, <1>2, <2>1
      <3>2. QED BY <1>1, <2>1, <3>1, ParsedFields DEF SaysOf, ParsedAddr, Delivered
    <2>2. CASE k = 1
      <3>1. loc' = Parsed(loc, Delivered(x, "ip"))
        BY <1>1, <1>2, <2>2
      <3>2. QED BY <1>1, <2>2, <3>1, ParsedFields DEF SaysOf, ParsedAddr, Delivered
    <2>3. CASE k = 2
      <3>1. loc' = Parsed(loc, Delivered(x, SubnetOf(x).leaf)) /\ SaysOf(x, 2)
        BY <1>1, <1>2, <2>3 DEF AtStage
      <3>2. QED BY <1>1, <1>5, <2>3, <3>1, ParsedFields
            DEF SaysOf, ParsedAddr, ParsedPrefix, Delivered
    <2>4. QED BY <2>1, <2>2, <2>3
  <1>7. /\ runAddr[x] = NoLeaf => loc'.old_addr = loc.old_addr
        /\ runAddr[x] # NoLeaf => loc'.new_addr = loc.new_addr
    BY <1>1, <1>2, ParsedOther DEF Delivered
  <1>8. QED BY <1>3, <1>4, <1>6, <1>7 DEF AtStage

\* Removing and adding leaves the stage alone (ietf_interface.cpp:349-357).
LEMMA StageOperate ==
    ASSUME IInv, AddrCbDel \/ AddrCbAdd, NEW x, NEW k \in 0 .. 3, AtStage(x, k)
    PROVE  AtStage(x, k)' /\ SaysOf(x, k)
  <1>1. UNCHANGED <<runAddr, candAddr, leftAddr, todo, phase>> /\ pc # "next"
    BY DEF AddrCbDel, AddrCbAdd, dsVars
  <1>2. loc' = loc \/ \E rc : loc' = [loc EXCEPT !.op_rc = rc]
    BY DEF AddrCbDel, AddrCbAdd, ipv46_config_add_remove, ConfigAdd, ConfigRemove
  <1>3. /\ loc'.create = loc.create /\ loc'.del = loc.del
        /\ loc'.new_addr = loc.new_addr /\ loc'.new_prefix = loc.new_prefix
        /\ loc'.old_addr = loc.old_addr /\ loc'.old_prefix = loc.old_prefix
    BY <1>2 DEF IInv, Plugin, AddrTypeOK
  <1>4. k # 0 /\ SaysOf(x, k)
    BY <1>1 DEF AtStage
  <1>5. SaysOf(x, k)'
    BY <1>1, <1>3, <1>4, SameEntry DEF SaysOf
  <1>6. todo' = Remaining(x, k)' /\ ComesOrGoes(x)' /\ x[2] \in Family'
    BY <1>1, SameAddr, SameEntry DEF AtStage, Family
  <1>7. QED BY <1>4, <1>5, <1>6 DEF AtStage

\* A commit starts.
LEMMA TourStart == ASSUME OneInterface, IInv, Tour, CommitStart PROVE Tour'
  <1>1. /\ phase = "idle" /\ phase' = "itf" /\ leftAddr' = ChangedAddr'
        /\ UNCHANGED <<runAddr, todo, loc, pc, l3Ok, vppL3>>
    BY DEF CommitStart, ChangedAddr, hwVars
  <1>2. Rest /\ Rest' /\ ChangedAddr = {} /\ leftAddr = {}
    BY <1>1 DEF Tour, AddrPhase, Rest, NoLocals
  <1>3. ASSUME NEW x \in ChangedAddr' PROVE ComesOrGoes(x)'
    <2>1. OpOn(runAddr[x], candAddr'[x]) \in AddrOps
      BY <1>1, <1>3 DEF CommitStart
    <2>2. OpOn(runAddr[x], candAddr'[x]) # "modified"
      BY <2>1 DEF OneInterface
    <2>3. runAddr[x] = NoLeaf \/ candAddr'[x] = NoLeaf
      BY <2>2 DEF OpOn
    <2>4. QED BY <1>1, <1>3, <2>3 DEF ComesOrGoes, ChangedAddr
  <1>4. LocalsOfCommit'
    BY <1>2 DEF LocalsOfCommit, Rest, NoLocals
  <1>5. Settling'
    <2>1. SUFFICES ASSUME NEW x \in Ifs \X Addr, x \notin leftAddr'
                   PROVE  /\ candAddr'[x] # NoLeaf => CandBinding(x)' \in l3Ok'
                          /\ ~Gone(x)'
      BY DEF Settling
    <2>2. candAddr'[x] = runAddr[x] /\ runAddr[x] = candAddr[x]
      BY <1>1, <1>2, <2>1 DEF ChangedAddr
    <2>3. candAddr[x] # NoLeaf => CandBinding(x) \in l3Ok
      BY <1>2, SettledAtRest DEF Rest
    <2>4. CandBinding(x)' = CandBinding(x)
      BY <2>2 DEF CandBinding, BindingOf, PlenOf
    <2>5. QED BY <1>1, <2>2, <2>3, <2>4 DEF Gone
  <1>6. QED BY <1>1, <1>2, <1>3, <1>4, <1>5 DEF Tour, AddrPhase, Rest

\* Steps between two addresses.
LEMMA TourRests ==
    ASSUME Tour, todo = <<>>, pc = "next", Rest',
           UNCHANGED <<runAddr, candAddr, leftAddr, l3Ok, vppL3>>,
           phase' # "idle",
           phase' = "ipv6" => leftAddr \cap (Ifs \X V4) = {},
           phase' = "decide" => leftAddr = {}
    PROVE  Tour'
  <1>1. Settling'
    BY SettledAtRest, SameEntry DEF Settling
  <1>2. LocalsOfCommit'
    BY DEF LocalsOfCommit, Rest, NoLocals
  <1>3. (\A x \in ChangedAddr : ComesOrGoes(x))'
    BY SameEntry DEF Tour
  <1>4. ChangedAddr' = ChangedAddr /\ leftAddr' = leftAddr /\ todo' = <<>> /\ pc' = "next"
    BY SameEntry DEF Rest
  <1>5. QED BY <1>1, <1>2, <1>3, <1>4 DEF Tour

\* ietf_interface_create_cb leaves the addresses alone (ietf_interface.cpp:94-206).
LEMMA TourCreate ==
    ASSUME Tour, Calm', CreateCbChange \/ CreateCbFinish
    PROVE  Tour'
  <1>1. /\ phase = "itf" /\ phase' \in {"itf", "ipv4", "crashed"}
        /\ UNCHANGED <<runAddr, candAddr, leftAddr, todo, loc, pc>>
    BY DEF CreateCbChange, CreatedItf, DeletedItf, ModifiedItf, CreateCbFinish,
       WriteOrRemove, FailAfterLoop, Return, dsVars, addrVars
  <1>2. Rest /\ Rest'
    BY <1>1 DEF Tour, Rest, AddrPhase, NoLocals
  <1>3. QED BY <1>1, <1>2, CreateKeepsL3, TourRests DEF Rest

\* The next address is visited.
LEMMA TourNext == ASSUME IInv, Tour, AddrCbNext PROVE Tour'
  <1>1. PICK y \in leftAddr : y[2] \in Family /\ leftAddr' = leftAddr \ {y} /\ todo' = ChangesOf(y)
    BY DEF AddrCbNext
  <1>2. /\ phase \in AddrPhase /\ pc = "next" /\ todo = <<>>
        /\ UNCHANGED <<loc, pc, runAddr, candAddr, phase, l3Ok, vppL3>>
    BY DEF AddrCbNext, dsVars, hwVars
  <1>3. y \in Ifs \X Addr /\ ComesOrGoes(y)
    BY <1>1 DEF Tour, ChangedAddr
  <1>4. AtStage(y, 0)'
    <2>1. todo' = Remaining(y, 0)'
      BY <1>1, <1>2, <1>3, ChangesOfOne, SameAddr
    <2>2. ComesOrGoes(y)' /\ Family' = Family
      BY <1>2, <1>3, SameEntry DEF Family
    <2>3. QED BY <1>1, <1>2, <2>1, <2>2 DEF AtStage
  <1>5. Settling'
    <2>1. SUFFICES ASSUME NEW x \in Ifs \X Addr, x \notin leftAddr', x # y
                   PROVE  /\ candAddr'[x] # NoLeaf => CandBinding(x)' \in l3Ok'
                          /\ Gone(x)' /\ MaxRestarts = 0 => RunBinding(x)' \notin vppL3'
      BY <1>4 DEF Settling
    <2>2. QED BY <1>1, <1>2, <2>1, SettledAtRest, SameEntry
  <1>6. LocalsOfCommit'
    BY <1>2, SameEntry DEF Tour, LocalsOfCommit
  <1>7. (\A x \in ChangedAddr : ComesOrGoes(x))' /\ ChangedAddr' = ChangedAddr
    BY <1>2, SameEntry DEF Tour
  <1>8. QED BY <1>1, <1>2, <1>3, <1>4, <1>5, <1>6, <1>7 DEF Tour, AddrPhase

\* A change is parsed.
LEMMA TourParse == ASSUME IInv, Tour, AddrCbParse PROVE Tour'
  <1>1. /\ phase \in AddrPhase /\ pc' = "del" /\ todo # <<>>
        /\ UNCHANGED <<leftAddr, runAddr, candAddr, phase, l3Ok, vppL3>>
    BY DEF AddrCbParse, dsVars, hwVars
  <1>2. ASSUME NEW x \in Ifs \X Addr, NEW k \in 0 .. 3, AtStage(x, k)
        PROVE  k + 1 \in 0 .. 3 /\ AtStage(x, k + 1)'
    BY <1>1, <1>2, StageTodo, StageParse
  <1>3. PICK y \in Ifs \X Addr, k \in 0 .. 3 : AtStage(y, k)
    BY <1>1 DEF Tour
  <1>4. k \in 0 .. 2 /\ AtStage(y, k + 1)'
    BY <1>1, <1>2, <1>3, StageTodo
  <1>5. Settling'
    <2>1. ASSUME NEW x \in Ifs \X Addr, NEW j \in 0 .. 3, AtStage(x, j)
          PROVE  \E i \in 0 .. 3 : AtStage(x, i)' /\ pc' = "del"
      BY <1>1, <1>2, <2>1
    <2>2. QED BY <1>1, <2>1, SameEntry DEF Tour, Settling
  <1>6. LocalsOfCommit'
    <2>1. SaysOf(y, k + 1)' /\ ComesOrGoes(y)
      BY <1>3, <1>4 DEF AtStage
    <2>2. CASE runAddr[y] = NoLeaf
      <3>1. loc'.old_addr = loc.old_addr /\ loc'.new_addr \in {NoAddr, y[2]} /\ New(y)
        BY <1>1, <1>3, <1>4, <2>1, <2>2, StageParse DEF SaysOf, New, ComesOrGoes
      <3>2. QED BY <1>1, <3>1, SameEntry DEF Tour, LocalsOfCommit
    <2>3. CASE runAddr[y] # NoLeaf
      <3>1. loc'.new_addr = loc.new_addr /\ loc'.old_addr \in {NoAddr, y[2]} /\ Gone(y)
        BY <1>1, <1>3, <1>4, <2>1, <2>3, StageParse DEF SaysOf, Gone, ComesOrGoes
      <3>2. QED BY <1>1, <3>1, SameEntry DEF Tour, LocalsOfCommit
    <2>4. QED BY <2>2, <2>3
  <1>7. (\A x \in ChangedAddr : ComesOrGoes(x))' /\ ChangedAddr' = ChangedAddr
    BY <1>1, SameEntry DEF Tour
  <1>8. \E x \in Ifs \X Addr : \E j \in 0 .. 3 : AtStage(x, j)'
    BY <1>2, <1>3
  <1>9. QED BY <1>1, <1>5, <1>6, <1>7, <1>8 DEF Tour, AddrPhase

\* What a removal and an addition have in common.
LEMMA OperateFrame ==
    ASSUME OneInterface, IInv, Calm, Tour, AddrCbDel \/ AddrCbAdd
    PROVE  /\ phase \in AddrPhase /\ loc.if_name \in Found
           /\ UNCHANGED <<runAddr, candAddr, leftAddr, todo, phase>>
           /\ LocalsOfCommit'
           /\ \A x \in ChangedAddr : ComesOrGoes(x)'
           /\ ChangedAddr' = ChangedAddr
           /\ \A x \in Ifs \X Addr : \A k \in 0 .. 3 :
                 AtStage(x, k) => AtStage(x, k)' /\ SaysOf(x, k)
  <1>1. phase \in AddrPhase /\ UNCHANGED <<runAddr, candAddr, leftAddr, todo, phase>>
    BY DEF AddrCbDel, AddrCbAdd, dsVars
  <1>2. loc.if_name \in Found
    BY AllFound DEF AddrCbDel, AddrCbAdd, Calm
  <1>3. loc' = loc \/ \E rc : loc' = [loc EXCEPT !.op_rc = rc]
    BY DEF AddrCbDel, AddrCbAdd, ipv46_config_add_remove, ConfigAdd, ConfigRemove
  <1>4. loc'.new_addr = loc.new_addr /\ loc'.old_addr = loc.old_addr
    BY <1>3 DEF IInv, Plugin, AddrTypeOK
  <1>5. LocalsOfCommit'
    BY <1>1, <1>4, SameEntry DEF Tour, LocalsOfCommit
  <1>6. (\A x \in ChangedAddr : ComesOrGoes(x)') /\ ChangedAddr' = ChangedAddr
    BY <1>1, SameEntry DEF Tour
  <1>7. QED BY <1>1, <1>2, <1>5, <1>6, StageOperate

\* A removal takes away what the commit deletes, and nothing else
\* (ietf_interface.cpp:349-352).
LEMMA TourDel == ASSUME OneInterface, IInv, InStep, Calm, Tour, AddrCbDel PROVE Tour'
  <1> USE OperateFrame
  <1>1. pc = "del" /\ pc' = "add"
    BY DEF AddrCbDel
  <1>2. \/ UNCHANGED hwVars /\ ~(loc.del /\ loc.old_addr # NoAddr)
        \/ loc.del /\ loc.old_addr # NoAddr /\ OM_remove_l3(OldBinding, TRUE)
    BY DEF AddrCbDel, ipv46_config_add_remove, ConfigRemove, OldBinding, OneInterface, Supported
  <1>3. ASSUME NEW x \in Ifs \X Addr, candAddr[x] # NoLeaf, CandBinding(x) \in l3Ok
        PROVE  CandBinding(x) \in l3Ok'
    <2>1. ASSUME loc.old_addr # NoAddr PROVE CandBinding(x) # OldBinding
      <3>1. PICK z \in Ifs \X Addr : Gone(z) /\ z[2] = loc.old_addr
        BY <2>1 DEF Tour, LocalsOfCommit
      <3>2. x[2] # loc.old_addr
        BY <1>3, <3>1, SameKey DEF Gone
      <3>3. QED BY <3>2 DEF CandBinding, BindingOf, OldBinding
    <2>2. QED BY <1>2, <1>3, <2>1 DEF OM_remove_l3, hwVars
  <1>4. vppL3' \subseteq vppL3
    BY <1>2 DEF OM_remove_l3, hwVars
  <1>5. ASSUME NEW x \in Ifs \X Addr, Gone(x), MaxRestarts = 0, AtStage(x, 3)
        PROVE  RunBinding(x) \notin vppL3'
    <2>1. loc.del /\ loc.old_addr = x[2] /\ loc.old_prefix = PlenOf(runAddr[x])
      BY <1>5 DEF SaysOf, Gone, SubnetOf
    <2>2. loc.old_addr # NoAddr /\ loc.if_name = x[1]
      BY <2>1, ConfigAssumption, AllFound DEF OneInterface, Calm
    <2>3. OM_remove_l3(RunBinding(x), TRUE)
      BY <1>2, <2>1, <2>2 DEF OldBinding, RunBinding, BindingOf
    <2>4. vppL3 \subseteq usrL3 /\ vppL3 = l3Ok /\ bootL3 = {}
      BY <1>5 DEF InStep, IInv, VomInv, BeliefIsSound
    <2>5. QED BY <2>3, <2>4 DEF OM_remove_l3
  <1>6. Settling'
    <2>1. SUFFICES ASSUME NEW x \in Ifs \X Addr, x \notin leftAddr
                   PROVE  /\ candAddr[x] # NoLeaf =>
                                \/ \E k \in 0 .. 3 : AtStage(x, k)' /\ (k = 3 => pc' # "next")
                                \/ CandBinding(x) \in l3Ok'
                          /\ Gone(x) /\ MaxRestarts = 0 =>
                                \/ \E k \in 0 .. 3 : AtStage(x, k)' /\ (k = 3 => pc' = "del")
                                \/ RunBinding(x) \notin vppL3'
      BY SameEntry DEF Settling
    <2>2. ASSUME candAddr[x] # NoLeaf
          PROVE  \/ \E k \in 0 .. 3 : AtStage(x, k)' /\ (k = 3 => pc' # "next")
                 \/ CandBinding(x) \in l3Ok'
      BY <1>1, <1>3, <2>1, <2>2 DEF Tour, Settling
    <2>3. ASSUME Gone(x), MaxRestarts = 0
          PROVE  \/ \E k \in 0 .. 3 : AtStage(x, k)' /\ (k = 3 => pc' = "del")
                 \/ RunBinding(x) \notin vppL3'
      BY <1>4, <1>5, <2>1, <2>3 DEF Tour, Settling
    <2>4. QED BY <2>2, <2>3
  <1>7. \E x \in Ifs \X Addr : \E k \in 0 .. 3 : AtStage(x, k)'
    BY <1>1 DEF Tour
  <1>8. QED BY <1>6, <1>7 DEF Tour, AddrPhase

\* An addition binds what the commit creates, and nothing it deletes
\* (ietf_interface.cpp:354-357).
LEMMA TourAdd == ASSUME OneInterface, IInv, InStep, Calm, Tour, AddrCbAdd PROVE Tour'
  <1> USE OperateFrame
  <1>1. pc = "add" /\ pc' = "next"
    BY DEF AddrCbAdd
  <1>2. \/ UNCHANGED hwVars /\ ~(loc.create /\ loc.new_addr # NoAddr)
        \/ loc.create /\ loc.new_addr # NoAddr /\ OM_write_l3(NewBinding, TRUE)
    BY DEF AddrCbAdd, ipv46_config_add_remove, ConfigAdd, NewBinding, OneInterface, Supported
  <1>3. l3Ok \subseteq l3Ok'
    BY <1>2 DEF OM_write_l3, hwVars
  <1>4. ASSUME NEW x \in Ifs \X Addr, candAddr[x] # NoLeaf, AtStage(x, 3)
        PROVE  CandBinding(x) \in l3Ok'
    <2>1. /\ loc.create /\ loc.new_addr = x[2]
          /\ loc.new_prefix = PlenOf(candAddr[x])
      BY <1>4 DEF SaysOf, AtStage, ComesOrGoes, SubnetOf
    <2>2. loc.new_addr # NoAddr /\ loc.if_name = x[1]
      BY <2>1, ConfigAssumption, AllFound DEF OneInterface, Calm
    <2>3. OM_write_l3(CandBinding(x), TRUE)
      BY <1>2, <2>1, <2>2 DEF NewBinding, CandBinding, BindingOf
    <2>4. QED BY <2>3 DEF OM_write_l3
  <1>5. ASSUME NEW x \in Ifs \X Addr, Gone(x), RunBinding(x) \notin vppL3
        PROVE  RunBinding(x) \notin vppL3'
    <2>1. ASSUME loc.new_addr # NoAddr PROVE RunBinding(x) # NewBinding
      <3>1. PICK z \in Ifs \X Addr : New(z) /\ z[2] = loc.new_addr
        BY <2>1 DEF Tour, LocalsOfCommit
      <3>2. x[2] # loc.new_addr
        BY <1>5, <3>1, SameKey DEF Gone, New
      <3>3. QED BY <3>2 DEF RunBinding, BindingOf, NewBinding
    <2>2. QED BY <1>2, <1>5, <2>1 DEF OM_write_l3, hwVars
  <1>6. Settling'
    <2>1. SUFFICES ASSUME NEW x \in Ifs \X Addr, x \notin leftAddr
                   PROVE  /\ candAddr[x] # NoLeaf =>
                                \/ \E k \in 0 .. 3 : AtStage(x, k)' /\ (k = 3 => pc' # "next")
                                \/ CandBinding(x) \in l3Ok'
                          /\ Gone(x) /\ MaxRestarts = 0 =>
                                \/ \E k \in 0 .. 3 : AtStage(x, k)' /\ (k = 3 => pc' = "del")
                                \/ RunBinding(x) \notin vppL3'
      BY SameEntry DEF Settling
    <2>2. ASSUME candAddr[x] # NoLeaf
          PROVE  \/ \E k \in 0 .. 3 : AtStage(x, k)' /\ (k = 3 => pc' # "next")
                 \/ CandBinding(x) \in l3Ok'
      BY <1>3, <1>4, <2>1, <2>2 DEF Tour, Settling
    <2>3. ASSUME Gone(x), MaxRestarts = 0
          PROVE  \/ \E k \in 0 .. 3 : AtStage(x, k)' /\ (k = 3 => pc' = "del")
                 \/ RunBinding(x) \notin vppL3'
      BY <1>1, <1>5, <2>1, <2>3 DEF Tour, Settling
    <2>4. QED BY <2>2, <2>3
  <1>7. \E x \in Ifs \X Addr : \E k \in 0 .. 3 : AtStage(x, k)'
    BY <1>1 DEF Tour
  <1>8. QED BY <1>6, <1>7 DEF Tour, AddrPhase

\* A callback has visited the addresses of its family (ietf_interface.cpp:359-366).
LEMMA TourReturn == ASSUME IInv, Tour, AddrCbReturn PROVE Tour'
  <1>1. /\ phase \in AddrPhase /\ todo = <<>> /\ pc = "next" /\ loc' = NoLocals
        /\ phase' = (IF phase = "ipv4" THEN "ipv6" ELSE "decide")
        /\ \A x \in leftAddr : x[2] \notin Family
        /\ UNCHANGED <<runAddr, candAddr, leftAddr, todo, pc, l3Ok, vppL3>>
    BY DEF AddrCbReturn, Return, dsVars, hwVars
  <1>2. Rest'
    BY <1>1 DEF Rest, NoLocals
  <1>3. phase = "ipv4" => leftAddr \cap (Ifs \X V4) = {}
    BY <1>1 DEF Family
  <1>4. phase = "ipv6" => leftAddr = {}
    <2>1. \A x \in leftAddr : x \in Ifs \X Addr
      BY DEF Tour, ChangedAddr
    <2>2. QED BY <1>1, <2>1, ConfigAssumption DEF Tour, Family
  <1>5. QED BY <1>1, <1>2, <1>3, <1>4, TourRests DEF AddrPhase

\* The commit is over, or the plugin starts again between commits.
LEMMA TourOver ==
    ASSUME IInv, Calm, InStep, Tour, CommitApply \/ PluginRestart
    PROVE  Tour'
  <1>1. /\ phase' = "idle" /\ UNCHANGED <<todo, loc, pc>>
        /\ runAddr' = candAddr /\ candAddr' = candAddr
        /\ vppL3' = vppL3 /\ l3Ok' = l3Ok
        /\ phase \in {"idle", "decide"} /\ leftAddr' = {}
    <2>1. CASE CommitApply
      BY <2>1 DEF CommitApply, Tour, addrVars, hwVars
    <2>2. CASE PluginRestart
      <3>1. phase = "idle" /\ ChangedAddr = {}
        BY <2>2 DEF PluginRestart, Calm, Tour
      <3>2. runAddr = candAddr
        BY <3>1 DEF ChangedAddr, IInv, Plugin, DatastoreTypeOK
      <3>3. QED BY <2>2, <3>1, <3>2 DEF PluginRestart, Discard, OM_populate, vppVars, InStep
    <2>3. QED BY <2>1, <2>2
  <1>2. Rest /\ Rest' /\ leftAddr = {}
    BY <1>1 DEF Tour, Rest, AddrPhase, NoLocals, ChangedAddr
  <1>3. ChangedAddr' = {}
    BY <1>1 DEF ChangedAddr
  <1>4. Settling'
    <2>1. ASSUME NEW x PROVE ~Gone(x)' /\ CandBinding(x)' = CandBinding(x)
      BY <1>1 DEF Gone, CandBinding, BindingOf, PlenOf
    <2>2. QED BY <1>1, <1>2, <2>1, SettledAtRest DEF Settling, Rest
  <1>5. LocalsOfCommit'
    BY <1>2 DEF LocalsOfCommit, Rest, NoLocals
  <1>6. QED BY <1>1, <1>2, <1>3, <1>4, <1>5 DEF Tour, Rest

\* Tour holds in every reachable state.
LEMMA TourHolds == OneInterface => (Spec => []Tour)
  <1>1. SUFFICES ASSUME OneInterface PROVE Spec => []Tour
    OBVIOUS
  <1>2. Supported /\ Outcome = {TRUE}
    BY <1>1 DEF OneInterface, Supported
  <1>3. Spec => []Calm
    BY <1>2, CalmHolds
  <1>4. Spec => []InStep
    BY <1>2, InStepHolds
  <1>5. Init => Tour
    <2>1. SUFFICES ASSUME Init PROVE Tour
      OBVIOUS
    <2>2. /\ \A x \in Ifs \X Addr : runAddr[x] = NoLeaf /\ candAddr[x] = NoLeaf
          /\ ChangedAddr = {}
      BY <2>1 DEF Init, ChangedAddr
    <2>3. Rest /\ phase = "idle" /\ leftAddr = {}
      BY <2>1 DEF Init, Rest
    <2>4. Settling /\ LocalsOfCommit
      BY <2>2, <2>3 DEF Settling, LocalsOfCommit, Gone, Rest, NoLocals
    <2>5. QED BY <2>2, <2>3, <2>4 DEF Tour, Rest
  <1>6. IInv /\ InStep /\ Calm /\ Calm' /\ Tour /\ [Next]_vars => Tour'
    <2>1. SUFFICES ASSUME IInv, InStep, Calm, Calm', Tour, [Next]_vars PROVE Tour'
      OBVIOUS
    <2>2. CASE CommitStart
      BY <1>1, <2>1, <2>2, TourStart
    <2>3. CASE CreateCbChange \/ CreateCbFinish
      BY <2>1, <2>3, TourCreate
    <2>4. CASE AddrCbNext
      BY <2>1, <2>4, TourNext
    <2>5. CASE AddrCbParse
      BY <2>1, <2>5, TourParse
    <2>6. CASE AddrCbDel
      BY <1>1, <2>1, <2>6, TourDel
    <2>7. CASE AddrCbAdd
      BY <1>1, <2>1, <2>7, TourAdd
    <2>8. CASE AddrCbReturn
      BY <2>1, <2>8, TourReturn
    <2>9. CASE CommitApply \/ PluginRestart
      BY <2>1, <2>9, TourOver
    <2>10. CASE CommitAbort \/ Crash
      BY <1>2, <2>1, <2>10 DEF CommitAbort, Crash, Calm, Supported
    <2>11. CASE UNCHANGED vars
      <3>1. UNCHANGED <<runAddr, candAddr, phase, leftAddr, todo, loc, pc, l3Ok, vppL3>>
        BY <2>11 DEF vars, dsVars, addrVars, hwVars
      <3>2. \A x \in Ifs \X Addr : \A k \in 0 .. 3 : AtStage(x, k)' <=> AtStage(x, k)
        BY <3>1, SameEntry, SameAddr DEF AtStage, SaysOf, Family
      <3>3. Settling' /\ LocalsOfCommit'
        BY <2>1, <3>1, <3>2, SameEntry DEF Tour, Settling, LocalsOfCommit
      <3>4. (\A x \in ChangedAddr : ComesOrGoes(x))' /\ ChangedAddr' = ChangedAddr
        BY <2>1, <3>1, SameEntry DEF Tour
      <3>5. Rest' <=> Rest
        BY <3>1 DEF Rest, NoLocals
      <3>6. QED BY <2>1, <3>1, <3>2, <3>3, <3>4, <3>5 DEF Tour
    <2>12. QED BY <2>1, <2>2, <2>3, <2>4, <2>5, <2>6, <2>7, <2>8, <2>9, <2>10, <2>11 DEF Next
  <1>7. QED BY <1>3, <1>4, <1>5, <1>6, Inductive, PTL DEF Spec

LEMMA ConfiguredType ==
    ASSUME IInv, NEW x \in Ifs \X Addr, runAddr[x] # NoLeaf PROVE runAddr[x] \in Subnet
  BY DEF IInv, Plugin, DatastoreTypeOK

\* Between commits every prefix that is configured on the interface is bound in
\* VPP, however many addresses each commit creates and deletes, in whatever order
\* they are delivered, and across restarts, if netmasks consist of whole octets
\* (ietf_interface.cpp:302-364).
THEOREM ConfiguredStayBound == OneInterface /\ Exact => (Spec => []ConfiguredAreBound)
  <1>1. ASSUME Exact PROVE IInv /\ InStep /\ Tour => ConfiguredAreBound
    <2>1. SUFFICES ASSUME IInv, InStep, Tour, phase = "idle",
                          NEW x \in Ifs \X Addr, runAddr[x] # NoLeaf
                   PROVE  PrefixOf(x[1], x[2], runAddr[x]) \in vppL3
      BY DEF ConfiguredAreBound, ConfiguredL3, Configured
    <2>2. leftAddr = {} /\ candAddr[x] = runAddr[x] /\ Rest
      BY <2>1 DEF Tour, ChangedAddr, AddrPhase
    <2>3. CandBinding(x) \in l3Ok
      BY <2>1, <2>2, SettledAtRest DEF Rest
    <2>4. BindingOf(x[1], x[2], runAddr[x]) = PrefixOf(x[1], x[2], runAddr[x])
      BY <1>1, <2>1, ConfiguredType, ExactBinding
    <2>5. QED BY <2>1, <2>2, <2>3, <2>4 DEF InStep, CandBinding
  <1>2. SUFFICES ASSUME OneInterface, Exact PROVE Spec => []ConfiguredAreBound
    OBVIOUS
  <1>3. Spec => []Tour
    BY <1>2, TourHolds
  <1>4. Spec => []InStep
    BY <1>2, InStepHolds DEF OneInterface, Supported
  <1>5. IInv /\ InStep /\ Tour => ConfiguredAreBound
    BY <1>1, <1>2
  <1>6. QED BY <1>3, <1>4, <1>5, Inductive, PTL

\* An accepted commit that deletes addresses of the interface has unbound each of
\* them in VPP, whatever it creates besides, unless the plugin restarted: VOM then
\* owns the binding by "boot" and keeps it (ietf_interface.cpp:336-352).
THEOREM DeletionReachesVpp ==
    OneInterface /\ Exact /\ MaxRestarts = 0 => (Spec => DeletedIsUnbound)
  <1> DEFINE Unbound == \A x \in Configured :
          candAddr[x] = NoLeaf => PrefixOf(x[1], x[2], runAddr[x]) \notin vppL3'
  <1>1. SUFFICES ASSUME OneInterface, Exact, MaxRestarts = 0 PROVE Spec => DeletedIsUnbound
    OBVIOUS
  <1>2. ASSUME IInv, Tour, Next, Accepted PROVE Unbound
    <2>1. phase = "decide" /\ vppL3' = vppL3
      BY <1>2, AcceptedIsApply DEF CommitApply, hwVars
    <2>2. leftAddr = {} /\ Rest
      BY <1>2, <2>1 DEF Tour, AddrPhase
    <2>3. ASSUME NEW x \in Configured, candAddr[x] = NoLeaf
          PROVE  PrefixOf(x[1], x[2], runAddr[x]) \notin vppL3'
      <3>1. BindingOf(x[1], x[2], runAddr[x]) \notin vppL3
        BY <1>1, <1>2, <2>1, <2>2, <2>3, SettledAtRest DEF Configured, Gone, RunBinding, Rest
      <3>2. BindingOf(x[1], x[2], runAddr[x]) = PrefixOf(x[1], x[2], runAddr[x])
        BY <1>1, <1>2, ConfiguredType, ExactBinding DEF Configured
      <3>3. QED BY <2>1, <3>1, <3>2
    <2>4. QED BY <2>3
  <1>3. IInv /\ Tour /\ [Next]_vars => [Accepted => Unbound]_vars
    BY <1>2
  <1>4. Spec => []Tour
    BY <1>1, TourHolds
  <1>5. QED BY <1>3, <1>4, Inductive, PTL DEF Spec, DeletedIsUnbound

-----------------------------------------------------------------------------
(* Commits that change one interface or one address at a time.             *)

\* Which interfaces VPP has at the start, and which a commit creates, is left
\* open.  Every interface has leaf enabled and none has leaf ipv4/enabled.
SingleChanges ==
    /\ IsFiniteSet(Ifs) /\ IsFiniteSet(Addr)
    /\ IfType \subseteq {"ethernetCsmacd"}
    /\ EnabledLeaf \subseteq BOOLEAN /\ IpLeaf \subseteq {NoLeaf}
    /\ Outcome = {TRUE} /\ UninitBool = {FALSE}
    /\ MayCrash = FALSE /\ MaxRestarts = 0
    /\ MaxItfChanges = 1 /\ MaxAddrChanges = 1
    /\ AddrOps \subseteq {"created", "deleted"}

\* VOM owns interface n by its name and has pushed the state that ds asks for.
Carried(ds, n) ==
    ds[n] # NoItf => n \in usrItf /\ n \in adminOk /\ admin[n] = Enabled(ds[n])

\* The loop of ietf_interface_create_cb has seen interface m, and nothing else.
SeenOne(m) ==
    \/ /\ runItf[m] = NoItf /\ candItf[m] # NoItf
       /\ flags.create
       /\ builder = [name |-> m, type |-> TRUE, state |-> Enabled(candItf[m])]
    \/ /\ candItf[m] = NoItf
       /\ ~flags.create /\ ~flags.modify /\ flags.remove
       /\ builder.name = m
    \/ /\ runItf[m] # NoItf /\ candItf[m] # NoItf
       /\ ~flags.create /\ flags.modify
       /\ intf = m /\ m \in usrItf /\ admin[m] = Enabled(candItf[m])

\* The callback leaves every other interface as it is, and the commit's only
\* once it is done.
Admins ==
    /\ phase = "itf" =>
          \/ leftItf = ChangedItf /\ FreshCreate /\ \A n \in Ifs : Carried(runItf, n)
          \/ /\ leftItf = {}
             /\ \E m \in Ifs : /\ ChangedItf = {m} /\ SeenOne(m)
                               /\ \A n \in Ifs \ {m} : Carried(runItf, n)
    /\ phase # "itf" => FreshCreate /\ \A n \in Ifs : Carried(candItf, n)

\* What VOM has pushed at address y, and what a datastore asks for there.
Bound(y) == {b \in l3Ok : b.itf = y[1] /\ b.addr = y[2]}
Asked(ds, y) == IF ds[y] = NoLeaf THEN {}
                ELSE {ZeroBinding(y), BindingOf(y[1], y[2], ds[y])}

\* What it has pushed once n changes of x were parsed: the zero binding comes and
\* goes with leaf ip, the full one with the prefix.
BoundAt(x, n) ==
    IF runAddr[x] = NoLeaf
    THEN IF n < 2 \/ (n = 2 /\ pc # "next") THEN {}
         ELSE IF n = 2 \/ pc # "next" THEN {ZeroBinding(x)}
         ELSE {ZeroBinding(x), FullBinding(x)}
    ELSE IF n < 2 \/ (n = 2 /\ pc = "del") THEN {ZeroBinding(x), FullBinding(x)}
         ELSE IF n = 2 \/ pc = "del" THEN {FullBinding(x)}
         ELSE {}

\* The address that the commit changes was dealt with.
Visited(y) == phase = "decide" \/ (phase = "ipv6" /\ y[2] \in V4)

Bindings ==
    \A y \in Ifs \X Addr :
        /\ phase \in {"idle", "itf"} \/ y \notin ChangedAddr \/ Pending(y) =>
              Bound(y) = Asked(runAddr, y)
        /\ y \in ChangedAddr /\ phase \in AddrPhase =>
              \A n \in 0 .. 3 : Parsing(y, n) => Bound(y) = BoundAt(y, n)
        /\ y \in ChangedAddr /\ Visited(y) => Bound(y) = Asked(candAddr, y)

\* A commit is small, its addresses belong to its interfaces, and no callback
\* refuses it.
SmallCommit ==
    /\ phase = "idle" => candItf = runItf /\ candAddr = runAddr
    /\ \A n, m \in ChangedItf : n = m
    /\ \A y \in ChangedAddr : OneAddr(y)
    /\ \A y \in Ifs \X Addr : candAddr[y] # NoLeaf => candItf[y[1]] # NoItf
    /\ phase # "idle" /\ ChangedAddr = {} => Rest
    /\ ~refused /\ phase # "crashed" /\ loc.op_rc

Image == SmallCommit /\ Admins /\ Bindings

LEMMA AtMostOne ==
    ASSUME NEW S, IsFiniteSet(S), Cardinality(S) <= 1, NEW x \in S, NEW y \in S
    PROVE  x = y
  <1>1. /\ IsFiniteSet(S \ {x})
        /\ Cardinality(S \ {x}) = Cardinality(S) - 1
        /\ Cardinality(S) \in Nat /\ Cardinality(S \ {x}) \in Nat
    BY FS_RemoveElement, FS_CardinalityType
  <1>2. Cardinality(S \ {x}) = 0
    BY <1>1
  <1>3. S \ {x} = {}
    BY <1>1, <1>2, FS_EmptySet
  <1>4. QED BY <1>3

\* The configuration of an interface says whether it is up.
LEMMA ConfigSays ==
    ASSUME SingleChanges, NEW c \in ItfConfig
    PROVE  /\ c.type = "ethernetCsmacd" /\ c.ip = NoLeaf
           /\ c.enabled \in BOOLEAN /\ c.enabled # NoLeaf
           /\ Enabled(c) = c.enabled
  <1>1. c.type = "ethernetCsmacd" /\ c.ip = NoLeaf /\ c.enabled \in BOOLEAN
    BY DEF SingleChanges, ItfConfig
  <1>2. c.enabled # NoLeaf
    BY <1>1, ConfigAssumption
  <1>3. Enabled(c) = c.enabled
    BY <1>1 DEF Enabled
  <1>4. QED BY <1>1, <1>2, <1>3

\* A commit starts.
LEMMA ImageStart == ASSUME SingleChanges, IInv, Walk, Image, CommitStart PROVE Image'
  <1>1. /\ phase = "idle" /\ phase' = "itf"
        /\ leftItf' = ChangedItf' /\ leftAddr' = ChangedAddr'
        /\ Cardinality(ChangedItf') <= 1 /\ Cardinality(ChangedAddr') <= 1
        /\ UNCHANGED <<runItf, runAddr, refused, builder, flags, intf, todo, loc, pc,
                       l3Ok, usrItf, adminOk, admin>>
    BY DEF CommitStart, ChangedItf, ChangedAddr, hwVars, SingleChanges
  <1>2. /\ candItf = runItf /\ candAddr = runAddr /\ Rest
        /\ FreshCreate /\ \A n \in Ifs : Carried(candItf, n)
    BY <1>1 DEF Image, SmallCommit, Admins, Walk, AddrPhase
  <1>3. SmallCommit'
    <2>1. \A n, m \in ChangedItf' : n = m
      <3>1. IsFiniteSet(ChangedItf')
        BY FS_Subset DEF SingleChanges, ChangedItf
      <3>2. QED BY <1>1, <3>1, AtMostOne
    <2>2. ASSUME NEW y \in ChangedAddr' PROVE OneAddr(y)'
      <3>1. IsFiniteSet(ChangedAddr')
        BY FS_Subset, FS_Product DEF SingleChanges, ChangedAddr
      <3>2. ChangedAddr' = {y}
        BY <1>1, <2>2, <3>1, AtMostOne
      <3>3. OpOn(runAddr[y], candAddr'[y]) \in AddrOps
        BY <1>1, <2>2 DEF CommitStart
      <3>4. OpOn(runAddr[y], candAddr'[y]) # "modified"
        BY <3>3 DEF SingleChanges
      <3>5. runAddr[y] = NoLeaf \/ candAddr'[y] = NoLeaf
        BY <3>4 DEF OpOn
      <3>6. QED BY <1>1, <2>2, <3>2, <3>5 DEF OneAddr, ComesOrGoes, ChangedAddr
    <2>3. \A y \in Ifs \X Addr : candAddr'[y] # NoLeaf => candItf'[y[1]] # NoItf
      BY DEF CommitStart
    <2>4. Rest' /\ ~refused' /\ loc'.op_rc
      BY <1>1, <1>2 DEF Rest, NoLocals, Image, SmallCommit
    <2>5. QED BY <1>1, <2>1, <2>2, <2>3, <2>4 DEF SmallCommit
  <1>4. Admins'
    <2>1. FreshCreate'
      BY <1>1, <1>2 DEF FreshCreate, NoBuilder, NoFlags
    <2>2. \A n \in Ifs : Carried(runItf, n)'
      BY <1>1, <1>2 DEF Carried, Enabled
    <2>3. QED BY <1>1, <2>1, <2>2 DEF Admins
  <1>5. Bindings'
    <2>1. ASSUME NEW y \in Ifs \X Addr PROVE Bound(y)' = Asked(runAddr, y)'
      <3>1. Bound(y) = Asked(runAddr, y)
        BY <1>1 DEF Image, Bindings
      <3>2. QED BY <1>1, <3>1 DEF Bound, Asked, ZeroBinding, BindingOf, PlenOf
    <2>2. QED BY <1>1, <2>1 DEF Bindings, Visited, AddrPhase
  <1>6. QED BY <1>3, <1>4, <1>5 DEF Image

\* The loop of ietf_interface_create_cb, over one interface
\* (ietf_interface.cpp:128-169).
LEMMA AdminLoop ==
    ASSUME SingleChanges, IInv, Image, CreateCbChange
    PROVE  Admins' /\ phase' = "itf" /\ ~refused'
  <1>1. PICK m \in leftItf : /\ leftItf' = leftItf \ {m}
                             /\ CreatedItf(m) \/ DeletedItf(m) \/ ModifiedItf(m)
    BY DEF CreateCbChange
  <1>2. phase = "itf" /\ UNCHANGED <<runItf, candItf>> /\ ~refused
    BY DEF CreateCbChange, dsVars, Image, SmallCommit
  <1>3. /\ leftItf = ChangedItf /\ FreshCreate
        /\ \A n \in Ifs : Carried(runItf, n)
    BY <1>1, <1>2 DEF Image, Admins
  <1>4. m \in Ifs /\ ChangedItf = {m} /\ leftItf' = {} /\ runItf[m] # candItf[m]
    BY <1>1, <1>3 DEF Image, SmallCommit, ChangedItf
  <1>5. runItf[m] \in ItfConfig \cup {NoItf} /\ candItf[m] \in ItfConfig \cup {NoItf}
    BY <1>4 DEF IInv, Plugin, DatastoreTypeOK
  <1>6. ChangedItf' = {m}
    BY <1>2, <1>4 DEF ChangedItf
  <1>7. /\ SeenOne(m)' /\ phase' = "itf" /\ ~refused'
        /\ \A n \in Ifs \ {m} : Carried(runItf, n)'
    <2>1. CASE CreatedItf(m)
      <3>1. candItf[m] \in ItfConfig
        BY <1>4, <1>5, <2>1 DEF CreatedItf
      <3>2. builder' = [name |-> m, type |-> TRUE, state |-> Enabled(candItf[m])]
        BY <2>1, <3>1, ConfigSays DEF CreatedItf
      <3>3. flags'.create
        BY <2>1 DEF CreatedItf, IInv, Plugin, CreateTypeOK
      <3>4. UNCHANGED <<phase, refused, usrItf, adminOk, admin>>
        BY <2>1 DEF CreatedItf, hwVars
      <3>5. SeenOne(m)'
        BY <1>2, <1>4, <2>1, <3>2, <3>3 DEF CreatedItf, SeenOne, Enabled
      <3>6. QED BY <1>2, <1>3, <3>4, <3>5 DEF Carried, Enabled
    <2>2. CASE DeletedItf(m)
      <3>1. /\ builder'.name = m /\ flags'.remove /\ ~flags'.create /\ ~flags'.modify
            /\ candItf'[m] = NoItf
        BY <1>2, <1>3, <2>2 DEF DeletedItf, FreshCreate, NoFlags, NoBuilder
      <3>2. UNCHANGED <<phase, refused, usrItf, adminOk, admin>>
        BY <2>2 DEF DeletedItf, hwVars
      <3>3. QED BY <1>2, <1>3, <3>1, <3>2 DEF Carried, Enabled, SeenOne
    <2>3. CASE ModifiedItf(m)
      <3>1. runItf[m] \in ItfConfig /\ candItf[m] \in ItfConfig
            /\ runItf[m] # NoItf /\ candItf[m] # NoItf
        BY <1>5, <2>3 DEF ModifiedItf
      <3>2. runItf[m].enabled # candItf[m].enabled
        BY <1>4, <3>1, ConfigSays DEF ItfConfig
      <3>3. /\ LeafModified(runItf[m].enabled, candItf[m].enabled)
            /\ ~LeafModified(runItf[m].ip, candItf[m].ip)
        BY <3>1, <3>2, ConfigSays DEF LeafModified
      <3>4. m \in usrItf /\ m \in Found
        BY <1>3, <1>4, <3>1 DEF Carried, Found, LiveItf
      <3>5. /\ Itf_set(m, candItf[m].enabled) /\ intf' = m
            /\ flags' = [flags EXCEPT !.modify = TRUE]
            /\ UNCHANGED <<phase, refused>>
        BY <2>3, <3>3, <3>4 DEF ModifiedItf
      <3>6. ~flags'.create /\ flags'.modify
        BY <1>3, <3>5 DEF FreshCreate, NoFlags
      <3>7. /\ usrItf' = usrItf /\ adminOk' = adminOk \ {m}
            /\ admin' = [admin EXCEPT ![m] = candItf[m].enabled]
        BY <3>5 DEF Itf_set
      <3>8. admin'[m] = Enabled(candItf[m]) /\ \A n \in Ifs \ {m} : admin'[n] = admin[n]
        BY <1>4, <3>1, <3>7, ConfigSays DEF IInv, VomInv, VomTypeOK
      <3>9. SeenOne(m)'
        <4>1. Enabled(candItf[m])' = Enabled(candItf[m])
          BY <1>2 DEF Enabled
        <4>2. /\ runItf'[m] # NoItf /\ candItf'[m] # NoItf
              /\ intf' = m /\ m \in usrItf'
              /\ admin'[m] = Enabled(candItf[m])'
          BY <1>2, <3>1, <3>4, <3>5, <3>7, <3>8, <4>1
        <4>3. QED BY <3>6, <4>2 DEF SeenOne
      <3>10. QED BY <1>2, <1>3, <3>5, <3>7, <3>8, <3>9 DEF Carried, Enabled
    <2>4. QED BY <1>1, <2>1, <2>2, <2>3
  <1>8. QED BY <1>4, <1>6, <1>7 DEF Admins

\* OM::write pushes the state of one interface.
LEMMA WritePushes ==
    ASSUME IInv, NEW m \in Ifs, NEW up \in BOOLEAN, OM_write_itf(m, up, TRUE)
    PROVE  /\ m \in usrItf' /\ m \in adminOk' /\ admin'[m] = up
           /\ \A n \in Ifs \ {m} : /\ n \in usrItf' <=> n \in usrItf
                                   /\ n \in adminOk' <=> n \in adminOk
                                   /\ admin'[n] = admin[n]
  BY DEF OM_write_itf, IInv, VomInv, VomTypeOK

\* After the loop: the interface is written or removed
\* (ietf_interface.cpp:171-206).
LEMMA AdminEnd ==
    ASSUME SingleChanges, IInv, Image, CreateCbFinish
    PROVE  Admins' /\ phase' = "ipv4" /\ ~refused'
  <1>1. PICK us \in UninitBool :
           WriteOrRemove(flags.create, flags.modify, flags.remove, us, TRUE)
    BY AssignedFlags DEF SingleChanges
  <1>2. /\ phase = "itf" /\ leftItf = {} /\ UNCHANGED <<runItf, candItf>>
        /\ LocalsGone /\ ~refused
    BY DEF CreateCbFinish, dsVars, Image, SmallCommit
  <1>3. FreshCreate'
    BY <1>2 DEF LocalsGone, FreshCreate, NoBuilder, NoFlags
  <1>4. /\ phase' = "ipv4" /\ ~refused'
        /\ \A n \in Ifs : Carried(candItf, n)'
    <2>1. CASE leftItf = ChangedItf /\ FreshCreate /\ \A n \in Ifs : Carried(runItf, n)
      <3>1. ~flags.create /\ ~flags.modify /\ ~flags.remove
        BY <2>1 DEF FreshCreate, NoFlags
      <3>2. Return("ipv4", TRUE) /\ UNCHANGED <<usrItf, adminOk, admin>>
        BY <1>1, <3>1 DEF WriteOrRemove, hwVars
      <3>3. \A n \in Ifs : candItf'[n] = runItf[n]
        BY <1>2, <2>1 DEF ChangedItf
      <3>4. QED BY <1>2, <2>1, <3>2, <3>3 DEF Return, Carried, Enabled
    <2>2. CASE \E m \in Ifs : /\ ChangedItf = {m} /\ SeenOne(m)
                              /\ \A n \in Ifs \ {m} : Carried(runItf, n)
      <3>1. PICK m \in Ifs : /\ ChangedItf = {m} /\ SeenOne(m)
                             /\ \A n \in Ifs \ {m} : Carried(runItf, n)
        BY <2>2
      <3>2. m # NoItf /\ Enabled(candItf[m]) \in BOOLEAN
            /\ Enabled(candItf[m])' = Enabled(candItf[m])
        BY <1>2, ConfigAssumption DEF Enabled
      <3>3. CASE flags.create \/ flags.modify
        <4>1. candItf[m] # NoItf
          BY <3>1, <3>3 DEF SeenOne
        <4>2. /\ OM_write_itf(m, Enabled(candItf[m]), TRUE)
              /\ Return("ipv4", TRUE)
          <5>1. CASE flags.create
            <6>1. builder = [name |-> m, type |-> TRUE, state |-> Enabled(candItf[m])]
              BY <3>1, <5>1 DEF SeenOne
            <6>2. /\ builder.name = m /\ builder.type
                  /\ builder.state = Enabled(candItf[m]) /\ builder.state # NoLeaf
              BY <3>2, <6>1, ConfigAssumption
            <6>3. Target(flags.create) = m /\ TargetState(flags.create, us) = Enabled(candItf[m])
              BY <5>1, <6>2 DEF Target, TargetState
            <6>4. QED BY <1>1, <3>2, <5>1, <6>2, <6>3 DEF WriteOrRemove, ItfWriteRc
          <5>2. CASE ~flags.create
            <6>1. flags.modify /\ intf = m /\ admin[m] = Enabled(candItf[m])
              BY <3>1, <3>3, <5>2 DEF SeenOne
            <6>2. Target(flags.create) = m /\ TargetState(flags.create, us) = Enabled(candItf[m])
              BY <5>2, <6>1 DEF Target, TargetState
            <6>3. QED BY <1>1, <3>2, <5>2, <6>1, <6>2 DEF WriteOrRemove, ItfWriteRc
          <5>3. QED BY <5>1, <5>2
        <4>3. /\ m \in usrItf' /\ m \in adminOk' /\ admin'[m] = Enabled(candItf[m])
              /\ \A n \in Ifs \ {m} : /\ n \in usrItf' <=> n \in usrItf
                                      /\ n \in adminOk' <=> n \in adminOk
                                      /\ admin'[n] = admin[n]
          BY <3>2, <4>2, WritePushes
        <4>4. Carried(candItf, m)'
          <5>1. admin'[m] = Enabled(candItf[m])'
            BY <3>2, <4>3
          <5>2. QED BY <4>3, <5>1 DEF Carried
        <4>5. ASSUME NEW n \in Ifs \ {m} PROVE Carried(candItf, n)'
          <5>1. n \in Ifs /\ n \notin ChangedItf /\ Carried(runItf, n)
            BY <3>1
          <5>2. /\ n \in usrItf => n \in usrItf'
                /\ n \in usrItf /\ n \in adminOk => n \in adminOk'
                /\ admin'[n] = admin[n]
            BY <4>3
          <5>3. candItf'[n] = runItf[n]
            BY <1>2, <5>1 DEF ChangedItf
          <5>4. QED BY <5>1, <5>2, <5>3 DEF Carried, Enabled
        <4>6. QED BY <1>2, <4>2, <4>4, <4>5 DEF Return
      <3>4. CASE ~flags.create /\ ~flags.modify
        <4>1. candItf[m] = NoItf /\ flags.remove /\ builder.name = m
          BY <3>1, <3>4 DEF SeenOne
        <4>2. OM_remove_itf(m, TRUE) /\ Return("ipv4", TRUE)
          BY <1>1, <3>4, <4>1 DEF WriteOrRemove
        <4>3. \A n \in Ifs \ {m} : /\ n \in usrItf => n \in usrItf'
                                   /\ n \in usrItf /\ n \in adminOk => n \in adminOk'
                                   /\ admin'[n] = admin[n]
          <5>1. /\ usrItf' = usrItf \ {m} /\ admin' = admin
                /\ adminOk' = adminOk \ (Found \ LiveItf(bootItf \cup usrItf', bootL3 \cup usrL3))
            BY <4>2 DEF OM_remove_itf, SweepItf
          <5>2. usrItf' \subseteq LiveItf(bootItf \cup usrItf', bootL3 \cup usrL3)
            BY DEF LiveItf
          <5>3. QED BY <5>1, <5>2
        <4>4. ASSUME NEW n \in Ifs \ {m} PROVE Carried(candItf, n)'
          <5>1. n \in Ifs /\ n \notin ChangedItf /\ Carried(runItf, n)
            BY <3>1
          <5>2. /\ n \in usrItf => n \in usrItf'
                /\ n \in usrItf /\ n \in adminOk => n \in adminOk'
                /\ admin'[n] = admin[n]
            BY <4>3
          <5>3. candItf'[n] = runItf[n]
            BY <1>2, <5>1 DEF ChangedItf
          <5>4. QED BY <5>1, <5>2, <5>3 DEF Carried, Enabled
        <4>5. QED BY <1>2, <4>1, <4>2, <4>4 DEF Return, Carried
      <3>5. QED BY <3>3, <3>4
    <2>3. QED BY <1>2, <2>1, <2>2 DEF Image, Admins
  <1>5. QED BY <1>3, <1>4 DEF Admins

\* Of the commit, the create callback changes its interface only.
LEMMA ImageCreate ==
    ASSUME SingleChanges, IInv, Walk, Image, CreateCbChange \/ CreateCbFinish
    PROVE  Image'
  <1>1. Admins' /\ phase' \in {"itf", "ipv4"} /\ ~refused'
    BY AdminLoop, AdminEnd
  <1>2. /\ phase = "itf"
        /\ UNCHANGED <<runItf, candItf, runAddr, candAddr, leftAddr, todo, loc, pc>>
    BY DEF CreateCbChange, CreateCbFinish, dsVars, addrVars
  <1>3. Rest /\ Rest'
    BY <1>2 DEF Walk, Rest, AddrPhase, NoLocals
  <1>4. SmallCommit'
    BY <1>1, <1>2, <1>3, SameAddr, SameEntry DEF Image, SmallCommit, ChangedItf
  <1>5. Bindings'
    <2>1. ASSUME NEW y \in Ifs \X Addr PROVE Bound(y)' = Asked(runAddr, y)'
      <3>1. Bound(y) = Asked(runAddr, y)
        BY <1>2 DEF Image, Bindings
      <3>2. l3Ok' = l3Ok
        BY CreateKeepsL3
      <3>3. QED BY <1>2, <3>1, <3>2 DEF Bound, Asked, ZeroBinding, BindingOf, PlenOf
    <2>2. ASSUME NEW y, NEW n \in 0 .. 3 PROVE ~Parsing(y, n)'
      <3>1. CASE n = 0
        BY <1>3, <3>1 DEF Parsing, Rest, Remaining
      <3>2. CASE n # 0
        BY <1>3, <3>2 DEF Parsing, Known, Rest, NoLocals
      <3>3. QED BY <3>1, <3>2
    <2>3. QED BY <1>1, <2>1, <2>2 DEF Bindings, Visited
  <1>6. QED BY <1>1, <1>4, <1>5 DEF Image

\* The number of changes that remain tells how many were parsed.
LEMMA OneStage ==
    ASSUME NEW x, NEW m \in 0 .. 3, NEW n \in 0 .. 3, Remaining(x, m) = Remaining(x, n)
    PROVE  m = n
  <1>1. \A k \in 0 .. 3 : Len(Remaining(x, k)) = 3 - k
    BY DEF Remaining
  <1>2. 3 - m = 3 - n
    BY <1>1
  <1>3. QED BY <1>2

\* What the datastores ask for does not depend on anything else.
LEMMA SameAsked ==
    ASSUME NEW y
    PROVE  /\ UNCHANGED runAddr => Asked(runAddr, y)' = Asked(runAddr, y)
           /\ UNCHANGED candAddr => Asked(candAddr, y)' = Asked(candAddr, y)
           /\ UNCHANGED l3Ok => Bound(y)' = Bound(y)
           /\ UNCHANGED <<runAddr, candAddr, pc>> =>
                 \A n \in 0 .. 3 : BoundAt(y, n)' = BoundAt(y, n)
  <1>1. UNCHANGED runAddr => Asked(runAddr, y)' = Asked(runAddr, y)
    BY DEF Asked, ZeroBinding, BindingOf, PlenOf
  <1>2. UNCHANGED candAddr => Asked(candAddr, y)' = Asked(candAddr, y)
    BY DEF Asked, ZeroBinding, BindingOf, PlenOf
  <1>3. UNCHANGED l3Ok => Bound(y)' = Bound(y)
    BY DEF Bound
  <1>4. ASSUME UNCHANGED <<runAddr, candAddr, pc>>, NEW n \in 0 .. 3
        PROVE  BoundAt(y, n)' = BoundAt(y, n)
    <2>1. FullBinding(y)' = FullBinding(y) /\ ZeroBinding(y)' = ZeroBinding(y)
      BY <1>4, SameAddr DEF ZeroBinding
    <2>2. QED BY <1>4, <2>1 DEF BoundAt
  <1>5. QED BY <1>1, <1>2, <1>3, <1>4

\* What is left to be visited was changed, and while an address callback is not
\* at rest there is one address it works on.
LEMMA TheAddress ==
    ASSUME SingleChanges, IInv, Walk, Image, phase \in AddrPhase, ~Rest
    PROVE  \E x \in Ifs \X Addr : /\ ChangedAddr = {x} /\ OneAddr(x) /\ x[2] \in Family
                                  /\ \E n \in 0 .. 3 : Parsing(x, n)
  <1>1. ChangedAddr # {}
    BY DEF Image, SmallCommit, AddrPhase
  <1>2. PICK x \in ChangedAddr : OneAddr(x)
    BY <1>1 DEF Image, SmallCommit
  <1>3. x \in Ifs \X Addr /\ ChangedAddr = {x}
    BY <1>2 DEF OneAddr, ChangedAddr
  <1>4. x[2] \in Family /\ \E n \in 0 .. 3 : Parsing(x, n)
    BY <1>2, <1>3, WalkState DEF Pending
  <1>5. QED BY <1>2, <1>3, <1>4

\* What the steps of the address callbacks have in common.
LEMMA AddrFrame ==
    ASSUME IInv, Image, AddrCbNext \/ AddrCbParse \/ AddrCbDel \/ AddrCbAdd
    PROVE  /\ phase \in AddrPhase /\ UNCHANGED <<phase, refused, runAddr, candAddr>>
           /\ UNCHANGED <<runItf, candItf, builder, flags, intf>>
           /\ ChangedAddr' = ChangedAddr /\ ChangedItf' = ChangedItf
           /\ \A y \in ChangedAddr' : OneAddr(y)'
           /\ FreshCreate'
           /\ loc'.op_rc /\ (ChangedAddr = {} => Rest') => SmallCommit'
  <1>1. /\ phase \in AddrPhase /\ UNCHANGED <<phase, refused, runAddr, candAddr>>
        /\ UNCHANGED <<runItf, candItf, builder, flags, intf>>
    BY DEF AddrCbNext, AddrCbParse, AddrCbDel, AddrCbAdd, dsVars, createVars
  <1>2. ChangedAddr' = ChangedAddr /\ ChangedItf' = ChangedItf
    BY <1>1 DEF ChangedAddr, ChangedItf
  <1>3. \A y \in ChangedAddr' : OneAddr(y)'
    BY <1>1, <1>2, SameAddr DEF Image, SmallCommit
  <1>4. FreshCreate'
    BY <1>1 DEF Image, Admins, AddrPhase, FreshCreate, NoBuilder, NoFlags
  <1>5. loc'.op_rc /\ (ChangedAddr = {} => Rest') => SmallCommit'
    BY <1>1, <1>2, <1>3 DEF Image, SmallCommit, AddrPhase
  <1>6. QED BY <1>1, <1>2, <1>3, <1>4, <1>5

\* The address is visited, and its changes are parsed, without touching VOM.
LEMMA ImageParse ==
    ASSUME SingleChanges, IInv, Walk, Image, AddrCbNext \/ AddrCbParse
    PROVE  Image'
  <1> USE AddrFrame
  <1>1. /\ pc = "next" /\ UNCHANGED <<l3Ok, usrItf, adminOk, admin>>
        /\ leftAddr # {} \/ ~Rest
    BY DEF AddrCbNext, AddrCbParse, hwVars, Rest
  <1>2. PICK x \in Ifs \X Addr : ChangedAddr = {x} /\ OneAddr(x)
    <2>1. CASE ~Rest
      BY <2>1, TheAddress
    <2>2. CASE leftAddr # {}
      <3>1. PICK x \in ChangedAddr : TRUE
        BY <2>2 DEF IInv, Plugin, LeftOK
      <3>2. x \in Ifs \X Addr /\ OneAddr(x)
        BY DEF Image, SmallCommit, ChangedAddr
      <3>3. QED BY <3>2 DEF OneAddr
    <2>3. QED BY <1>1, <2>1, <2>2
  <1>3. loc'.op_rc
    BY DEF AddrCbNext, AddrCbParse, Parsed, Image, SmallCommit
  <1>4. SmallCommit'
    BY <1>2, <1>3
  <1>5. Admins'
    BY <1>1 DEF Image, Admins, Carried, Enabled, AddrPhase
  <1>6. Bound(x)' = Bound(x) /\ x[2] \in Family
    BY <1>1, <1>2, NextWalk, StepWalk, SameAsked DEF Image
  <1>7. ~Visited(x) /\ ~Visited(x)'
    BY <1>6, ConfigAssumption DEF Visited, AddrPhase, Family
  <1>8. CASE AddrCbNext
    <2>1. Parsing(x, 0)' /\ pc' = "next"
      BY <1>2, <1>8, NextWalk DEF AddrCbNext, Image
    <2>2. \A n \in 0 .. 3 : Parsing(x, n)' => n = 0
      BY <2>1, OneStage DEF Parsing, Remaining
    <2>3. Pending(x)
      <3>1. x \in leftAddr
        BY <1>2, <1>8 DEF AddrCbNext, IInv, Plugin, LeftOK
      <3>2. QED BY <1>2, <1>8, <3>1, WalkState DEF Parsing, AddrCbNext
    <2>4. Bound(x) = Asked(runAddr, x) /\ ~Pending(x)'
      BY <1>2, <2>1, <2>3 DEF Image, Bindings, Pending, Parsing
    <2>5. BoundAt(x, 0)' = Asked(runAddr, x)
      BY DEF BoundAt, Asked, FullBinding, ZeroBinding, BindingOf, PlenOf, SubnetOf
    <2>6. Bindings'
      BY <1>1, <1>2, <1>6, <1>7, <2>2, <2>4, <2>5, SameAsked DEF Image, Bindings, AddrPhase
    <2>7. QED BY <1>4, <1>5, <2>6 DEF Image
  <1>9. CASE AddrCbParse
    <2>1. PICK n \in 0 .. 3 : Parsing(x, n)
      BY <1>2, <1>9, WalkState DEF AddrCbParse, Pending, Rest, Image
    <2>2. n \in 0 .. 2
      BY <1>9, <2>1, StageFacts DEF AddrCbParse
    <2>3. Parsing(x, n + 1)' /\ pc' = "del"
      BY <1>2, <1>9, <2>1, <2>2, ParseOne DEF AddrCbParse
    <2>4. \A k \in 0 .. 3 : Parsing(x, k)' => k = n + 1
      <3>1. \A k \in 0 .. 3 : Parsing(x, k)' => Remaining(x, k) = Remaining(x, n + 1)
        BY <2>2, <2>3, SameAddr DEF Parsing
      <3>2. QED BY <2>2, <3>1, OneStage
    <2>5. Bound(x) = BoundAt(x, n) /\ ~Pending(x)'
      BY <1>2, <2>1, <2>3 DEF Image, Bindings, Pending, Parsing
    <2>6. BoundAt(x, n + 1)' = BoundAt(x, n)
      BY <1>1, <2>2, <2>3 DEF BoundAt, FullBinding, ZeroBinding, BindingOf, PlenOf, SubnetOf
    <2>7. Bindings'
      BY <1>1, <1>2, <1>6, <1>7, <2>4, <2>5, <2>6, SameAsked DEF Image, Bindings, AddrPhase
    <2>8. QED BY <1>4, <1>5, <2>7 DEF Image
  <1>10. QED BY <1>8, <1>9

\* Adding and removing a binding of address x.
LEMMA PutBinding ==
    ASSUME NEW x \in Ifs \X Addr, NEW b, b.itf = x[1], b.addr = x[2], OM_write_l3(b, TRUE)
    PROVE  /\ Bound(x)' = Bound(x) \cup {b}
           /\ \A y \in (Ifs \X Addr) \ {x} : Bound(y)' = Bound(y)
  <1>1. l3Ok' = l3Ok \cup {b}
    BY DEF OM_write_l3
  <1>2. \A y \in (Ifs \X Addr) \ {x} : y[1] # x[1] \/ y[2] # x[2]
    OBVIOUS
  <1>3. QED BY <1>1, <1>2 DEF Bound

LEMMA TakeBinding ==
    ASSUME SingleChanges, IInv, InStep,
           NEW x \in Ifs \X Addr, NEW b, b.itf = x[1], b.addr = x[2], OM_remove_l3(b, TRUE)
    PROVE  /\ Bound(x)' = Bound(x) \ {b}
           /\ \A y \in (Ifs \X Addr) \ {x} : Bound(y)' = Bound(y)
  <1>1. bootL3 = {} /\ l3Ok \subseteq usrL3
    BY DEF SingleChanges, InStep, IInv, VomInv, BeliefIsSound
  <1>2. l3Ok' = l3Ok \ {b}
    BY <1>1 DEF OM_remove_l3
  <1>3. \A y \in (Ifs \X Addr) \ {x} : y[1] # x[1] \/ y[2] # x[2]
    OBVIOUS
  <1>4. QED BY <1>2, <1>3 DEF Bound

\* An interface has an instance as long as one of its bindings is there.
LEMMA BoundIsFound ==
    ASSUME IInv, NEW x, NEW b \in Bound(x)
    PROVE  x[1] \in Found
  BY DEF Bound, Found, LiveItf, IInv, VomInv, BeliefIsSound

\* The two bindings of an address differ.
LEMMA TwoBindings ==
    ASSUME IInv, NEW x \in Ifs \X Addr, OneAddr(x)
    PROVE  /\ ZeroBinding(x) # FullBinding(x)
           /\ ZeroBinding(x).itf = x[1] /\ ZeroBinding(x).addr = x[2]
           /\ FullBinding(x).itf = x[1] /\ FullBinding(x).addr = x[2]
  <1>1. PlenOf(SubnetOf(x)) # 0
    BY OneAddrType
  <1>2. QED BY <1>1 DEF ZeroBinding, FullBinding, BindingOf

\* A removal (ietf_interface.cpp:349-352).
LEMMA RemoveBound ==
    ASSUME SingleChanges, IInv, InStep, Walk, Image, AddrCbDel,
           NEW x \in Ifs \X Addr, OneAddr(x), NEW n \in 1 .. 3, Parsing(x, n),
           Bound(x) = BoundAt(x, n)
    PROVE  /\ Bound(x)' = BoundAt(x, n)' /\ loc'.op_rc
           /\ \A y \in (Ifs \X Addr) \ {x} : Bound(y)' = Bound(y)
  <1>1. /\ pc = "del" /\ pc' = "add" /\ runAddr' = runAddr /\ loc.op_rc
        /\ ZeroBinding(x)' = ZeroBinding(x) /\ FullBinding(x)' = FullBinding(x)
    BY SameAddr DEF AddrCbDel, dsVars, Image, SmallCommit, ZeroBinding
  <1>2. CASE UNCHANGED <<loc, hwVars>> /\ (runAddr[x] = NoLeaf \/ n = 1)
    <2>1. BoundAt(x, n)' = BoundAt(x, n)
      BY <1>1, <1>2 DEF BoundAt
    <2>2. QED BY <1>1, <1>2, <2>1 DEF Bound, hwVars
  <1>3. ASSUME runAddr[x] # NoLeaf, NEW b, b.itf = x[1], b.addr = x[2], OldBinding = b,
               loc.del, loc.old_addr = x[2], b \in Bound(x)
        PROVE  /\ Bound(x)' = Bound(x) \ {b} /\ loc'.op_rc
               /\ \A y \in (Ifs \X Addr) \ {x} : Bound(y)' = Bound(y)
    <2>1. b.itf \in Found /\ loc.old_addr # NoAddr
      BY <1>3, BoundIsFound, OneAddrType
    <2>2. OM_remove_l3(b, TRUE) /\ loc' = [loc EXCEPT !.op_rc = TRUE]
      BY <1>1, <1>3, <2>1 DEF AddrCbDel, ipv46_config_add_remove, ConfigRemove, SingleChanges
    <2>3. loc'.op_rc
      BY <2>2 DEF IInv, Plugin, AddrTypeOK
    <2>4. QED BY <1>3, <2>2, <2>3, TakeBinding
  <1>4. CASE runAddr[x] = NoLeaf
    <2>1. ~loc.del
      BY <1>4 DEF Parsing, Known
    <2>2. QED BY <1>2, <1>4, <2>1 DEF AddrCbDel
  <1>5. CASE runAddr[x] # NoLeaf /\ n = 1
    <2>1. loc.old_addr = NoAddr
      BY <1>5 DEF Parsing, Known
    <2>2. QED BY <1>2, <1>5, <2>1 DEF AddrCbDel
  <1>6. CASE runAddr[x] # NoLeaf /\ n = 2
    <2>1. loc.del /\ loc.old_addr = x[2] /\ OldBinding = ZeroBinding(x)
      BY <1>6 DEF Parsing, Known, OldBinding, ZeroBinding
    <2>2. BoundAt(x, n) = {ZeroBinding(x), FullBinding(x)} /\ BoundAt(x, n)' = {FullBinding(x)}
      BY <1>1, <1>6 DEF BoundAt
    <2>3. QED BY <1>3, <1>6, <2>1, <2>2, TwoBindings
  <1>7. CASE runAddr[x] # NoLeaf /\ n = 3
    <2>1. loc.del /\ loc.old_addr = x[2] /\ OldBinding = FullBinding(x)
      BY <1>7 DEF Parsing, Known, OldBinding, FullBinding, BindingOf
    <2>2. BoundAt(x, n) = {FullBinding(x)} /\ BoundAt(x, n)' = {}
      BY <1>1, <1>7 DEF BoundAt
    <2>3. QED BY <1>3, <1>7, <2>1, <2>2, TwoBindings
  <1>8. QED BY <1>4, <1>5, <1>6, <1>7

\* An addition (ietf_interface.cpp:354-357).
LEMMA AddBound ==
    ASSUME SingleChanges, IInv, InStep, Walk, Image, AddrCbAdd,
           NEW x \in Ifs \X Addr, OneAddr(x), NEW n \in 1 .. 3, Parsing(x, n),
           Bound(x) = BoundAt(x, n)
    PROVE  /\ Bound(x)' = BoundAt(x, n)' /\ loc'.op_rc
           /\ \A y \in (Ifs \X Addr) \ {x} : Bound(y)' = Bound(y)
  <1>1. /\ pc = "add" /\ pc' = "next" /\ runAddr' = runAddr /\ loc.op_rc
        /\ phase \in AddrPhase
        /\ ZeroBinding(x)' = ZeroBinding(x) /\ FullBinding(x)' = FullBinding(x)
    BY SameAddr DEF AddrCbAdd, dsVars, Image, SmallCommit, ZeroBinding
  <1>2. CASE UNCHANGED <<loc, hwVars>> /\ (runAddr[x] # NoLeaf \/ n = 1)
    <2>1. BoundAt(x, n)' = BoundAt(x, n)
      BY <1>1, <1>2 DEF BoundAt
    <2>2. QED BY <1>1, <1>2, <2>1 DEF Bound, hwVars
  <1>3. ASSUME runAddr[x] = NoLeaf, NEW b, b.itf = x[1], b.addr = x[2], NewBinding = b,
               loc.create, loc.new_addr = x[2]
        PROVE  /\ Bound(x)' = Bound(x) \cup {b} /\ loc'.op_rc
               /\ \A y \in (Ifs \X Addr) \ {x} : Bound(y)' = Bound(y)
    <2>1. candAddr[x] # NoLeaf /\ x[1] \in Ifs /\ loc.new_addr # NoAddr
      BY <1>3, OneAddrType
    <2>2. x[1] \in usrItf
      BY <1>1, <2>1 DEF Image, SmallCommit, Admins, Carried, AddrPhase
    <2>3. b.itf \in Found
      BY <1>3, <2>2 DEF Found, LiveItf
    <2>4. OM_write_l3(b, TRUE) /\ loc' = [loc EXCEPT !.op_rc = TRUE]
      BY <1>1, <1>3, <2>1, <2>3
      DEF AddrCbAdd, ipv46_config_add_remove, ConfigAdd, L3WriteRc, SingleChanges
    <2>5. loc'.op_rc
      BY <2>4 DEF IInv, Plugin, AddrTypeOK
    <2>6. QED BY <1>3, <2>4, <2>5, PutBinding
  <1>4. CASE runAddr[x] # NoLeaf
    <2>1. ~loc.create
      BY <1>4 DEF Parsing, Known
    <2>2. QED BY <1>2, <1>4, <2>1 DEF AddrCbAdd
  <1>5. CASE runAddr[x] = NoLeaf /\ n = 1
    <2>1. loc.new_addr = NoAddr
      BY <1>5 DEF Parsing, Known
    <2>2. QED BY <1>2, <1>5, <2>1 DEF AddrCbAdd
  <1>6. CASE runAddr[x] = NoLeaf /\ n = 2
    <2>1. loc.create /\ loc.new_addr = x[2] /\ NewBinding = ZeroBinding(x)
      BY <1>6 DEF Parsing, Known, NewBinding, ZeroBinding
    <2>2. BoundAt(x, n) = {} /\ BoundAt(x, n)' = {ZeroBinding(x)}
      BY <1>1, <1>6 DEF BoundAt
    <2>3. QED BY <1>3, <1>6, <2>1, <2>2, TwoBindings
  <1>7. CASE runAddr[x] = NoLeaf /\ n = 3
    <2>1. loc.create /\ loc.new_addr = x[2] /\ NewBinding = FullBinding(x)
      BY <1>7 DEF Parsing, Known, NewBinding, FullBinding, BindingOf
    <2>2. /\ BoundAt(x, n) = {ZeroBinding(x)}
          /\ BoundAt(x, n)' = {ZeroBinding(x), FullBinding(x)}
      BY <1>1, <1>7 DEF BoundAt
    <2>3. QED BY <1>3, <1>7, <2>1, <2>2, TwoBindings
  <1>8. QED BY <1>4, <1>5, <1>6, <1>7

\* The operations on the address that is visited.
LEMMA ImageOperate ==
    ASSUME SingleChanges, IInv, InStep, Walk, Image, AddrCbDel \/ AddrCbAdd
    PROVE  Image'
  <1> USE AddrFrame
  <1>1. pc # "next" /\ todo' = todo /\ leftAddr' = leftAddr
    BY DEF AddrCbDel, AddrCbAdd
  <1>2. PICK x \in Ifs \X Addr : /\ ChangedAddr = {x} /\ OneAddr(x) /\ x[2] \in Family
                                 /\ \E k \in 0 .. 3 : Parsing(x, k)
    BY <1>1, TheAddress DEF Rest
  <1>3. PICK n \in 0 .. 3 : Parsing(x, n)
    BY <1>2
  <1>4. n \in 1 .. 3 /\ Bound(x) = BoundAt(x, n)
    <2>1. n # 0
      BY <1>1, <1>3 DEF Parsing
    <2>2. QED BY <1>2, <1>3, <2>1 DEF Image, Bindings
  <1>5. Parsing(x, n)'
    BY <1>3, <1>4, OperateOne
  <1>6. /\ Bound(x)' = BoundAt(x, n)' /\ loc'.op_rc
        /\ \A y \in (Ifs \X Addr) \ {x} : Bound(y)' = Bound(y)
    BY <1>2, <1>3, <1>4, RemoveBound, AddBound
  <1>7. SmallCommit'
    BY <1>2, <1>6
  <1>8. Admins'
    <2>1. ASSUME NEW m \in Ifs PROVE Carried(candItf, m)'
      <3>1. Carried(candItf, m)
        BY DEF Image, Admins, AddrPhase
      <3>2. m \in usrItf => /\ m \in usrItf' /\ admin'[m] = admin[m]
                            /\ m \in adminOk => m \in adminOk'
        <4>1. ASSUME NEW b, OM_write_l3(b, TRUE)
              PROVE  UNCHANGED <<usrItf, admin, adminOk>>
          BY <4>1 DEF OM_write_l3
        <4>2. ASSUME NEW b, OM_remove_l3(b, TRUE), m \in usrItf
              PROVE  UNCHANGED <<usrItf, admin>> /\ (m \in adminOk => m \in adminOk')
          BY <4>2 DEF OM_remove_l3, SweepItf, LiveItf
        <4>3. QED BY <4>1, <4>2
              DEF AddrCbDel, AddrCbAdd, ipv46_config_add_remove, ConfigAdd, ConfigRemove,
                  SingleChanges, hwVars
      <3>3. QED BY <3>1, <3>2 DEF Carried, Enabled
    <2>2. QED BY <2>1 DEF Admins, AddrPhase
  <1>9. Bindings'
    <2>1. \A k \in 0 .. 3 : Parsing(x, k)' => k = n
      <3>1. \A k \in 0 .. 3 : Parsing(x, k)' => Remaining(x, k) = Remaining(x, n)
        BY <1>5, SameAddr DEF Parsing
      <3>2. QED BY <3>1, OneStage
    <2>2. ~Pending(x)' /\ ~Visited(x)'
      BY <1>2, <1>5, ConfigAssumption DEF Parsing, Pending, Visited, AddrPhase, Family
    <2>3. \A y \in (Ifs \X Addr) \ {x} : Bound(y)' = Asked(runAddr, y)'
      BY <1>2, <1>6, SameAsked DEF Image, Bindings
    <2>4. QED BY <1>2, <1>6, <2>1, <2>2, <2>3 DEF Bindings, AddrPhase
  <1>10. QED BY <1>7, <1>8, <1>9 DEF Image

\* An address callback returns (ietf_interface.cpp:359-366).
LEMMA ImageReturn ==
    ASSUME SingleChanges, IInv, Walk, Image, AddrCbReturn
    PROVE  Image'
  <1>1. /\ phase \in AddrPhase /\ todo = <<>> /\ pc = "next" /\ loc' = NoLocals
        /\ phase' = (IF phase = "ipv4" THEN "ipv6" ELSE "decide")
        /\ refused' = (refused \/ ~loc.op_rc)
        /\ UNCHANGED <<runItf, candItf, runAddr, candAddr, builder, flags, intf, leftAddr, todo,
                       pc, l3Ok, usrItf, adminOk, admin>>
    BY DEF AddrCbReturn, Return, dsVars, createVars, hwVars
  <1>2. Rest' /\ loc'.op_rc /\ ~refused' /\ phase' \in {"ipv6", "decide"}
    BY <1>1 DEF Rest, NoLocals, Image, SmallCommit
  <1>3. SmallCommit'
    <2>1. ChangedItf' = ChangedItf /\ ChangedAddr' = ChangedAddr
      BY <1>1 DEF ChangedItf, ChangedAddr
    <2>2. \A y \in ChangedAddr' : OneAddr(y)'
      BY <1>1, <2>1, SameAddr DEF Image, SmallCommit
    <2>3. QED BY <1>1, <1>2, <2>1, <2>2 DEF Image, SmallCommit
  <1>4. Admins'
    <2>1. FreshCreate /\ \A n \in Ifs : Carried(candItf, n)
      BY <1>1 DEF Image, Admins, AddrPhase
    <2>2. QED BY <1>1, <1>2, <2>1 DEF Admins, Carried, Enabled, FreshCreate, NoBuilder, NoFlags
  <1>5. ASSUME NEW y, NEW n \in 0 .. 3 PROVE ~Parsing(y, n)'
    <2>1. CASE n = 0
      BY <1>1, <2>1 DEF Parsing, Remaining
    <2>2. CASE n # 0
      BY <1>1, <2>2 DEF Parsing, Known, NoLocals
    <2>3. QED BY <2>1, <2>2
  <1>6. ASSUME NEW y \in Ifs \X Addr
        PROVE  /\ y \notin ChangedAddr \/ Pending(y)' => Bound(y) = Asked(runAddr, y)
               /\ y \in ChangedAddr /\ Visited(y)' => Bound(y) = Asked(candAddr, y)
    <2>1. CASE y \notin ChangedAddr
      BY <2>1 DEF Image, Bindings
    <2>2. CASE y \in ChangedAddr
      <3>1. OneAddr(y) /\ (runAddr[y] = NoLeaf <=> candAddr[y] # NoLeaf)
        BY <2>2, OneAddrType DEF Image, SmallCommit
      <3>2. CASE Parsing(y, 3) /\ y[2] \in Family
        <4>1. Bound(y) = BoundAt(y, 3)
          BY <1>1, <2>2, <3>2 DEF Image, Bindings
        <4>2. BoundAt(y, 3) = Asked(candAddr, y)
          <5>1. CASE runAddr[y] = NoLeaf
            BY <1>1, <3>1, <5>1 DEF BoundAt, Asked, FullBinding, SubnetOf
          <5>2. CASE runAddr[y] # NoLeaf
            BY <1>1, <3>1, <5>2 DEF BoundAt, Asked
          <5>3. QED BY <5>1, <5>2
        <4>3. ~Pending(y)'
          BY <1>1, <3>2 DEF Parsing, Pending
        <4>4. QED BY <2>2, <4>1, <4>2, <4>3
      <3>3. CASE phase = "ipv4" /\ y[2] \in V6 /\ Pending(y)
        BY <1>1, <2>2, <3>3, ConfigAssumption DEF Image, Bindings, Visited
      <3>4. CASE phase = "ipv6" /\ y[2] \in V4 /\ leftAddr = {}
        BY <1>1, <2>2, <3>4 DEF Image, Bindings, Visited, Pending
      <3>5. QED BY <3>1, <3>2, <3>3, <3>4, ReturnWalk
    <2>3. QED BY <2>1, <2>2
  <1>7. Bindings'
    <2>1. ChangedAddr' = ChangedAddr
      BY <1>1 DEF ChangedAddr
    <2>2. QED BY <1>1, <1>2, <1>5, <1>6, <2>1, SameAsked DEF Bindings
  <1>8. QED BY <1>3, <1>4, <1>7 DEF Image

\* The commit is accepted.
LEMMA ImageApply == ASSUME SingleChanges, IInv, Image, CommitApply PROVE Image'
  <1>1. /\ phase = "decide" /\ phase' = "idle" /\ runItf' = candItf /\ runAddr' = candAddr
        /\ UNCHANGED <<candItf, candAddr, refused, builder, flags, intf, leftAddr, todo, loc,
                       pc, l3Ok, usrItf, adminOk, admin>>
    BY DEF CommitApply, createVars, addrVars, hwVars
  <1>2. ChangedItf' = {} /\ ChangedAddr' = {}
    BY <1>1 DEF ChangedItf, ChangedAddr
  <1>3. SmallCommit'
    BY <1>1, <1>2 DEF Image, SmallCommit
  <1>4. Admins'
    BY <1>1 DEF Image, Admins, Carried, Enabled, FreshCreate, NoBuilder, NoFlags
  <1>5. Bindings'
    <2>1. ASSUME NEW y \in Ifs \X Addr PROVE Bound(y) = Asked(candAddr, y)
      <3>1. CASE y \in ChangedAddr
        BY <1>1, <3>1 DEF Image, Bindings, Visited
      <3>2. CASE y \notin ChangedAddr
        BY <3>2 DEF Image, Bindings, ChangedAddr, Asked
      <3>3. QED BY <3>1, <3>2
    <2>2. ASSUME NEW y \in Ifs \X Addr PROVE Bound(y)' = Asked(runAddr, y)'
      BY <1>1, <2>1 DEF Bound, Asked, ZeroBinding, BindingOf, PlenOf
    <2>3. QED BY <1>1, <1>2, <2>2 DEF Bindings, AddrPhase
  <1>6. QED BY <1>3, <1>4, <1>5 DEF Image

\* Image holds in every reachable state.
LEMMA ImageHolds == SingleChanges => (Spec => []Image)
  <1>1. SUFFICES ASSUME SingleChanges PROVE Spec => []Image
    OBVIOUS
  <1>2. Spec => []InStep
    BY <1>1, InStepHolds DEF SingleChanges
  <1>3. Init => Image
    <2>1. SUFFICES ASSUME Init PROVE Image
      OBVIOUS
    <2>2. ChangedItf = {} /\ ChangedAddr = {}
      BY <2>1 DEF Init, ChangedItf, ChangedAddr
    <2>3. SmallCommit
      BY <2>1, <2>2 DEF Init, SmallCommit, NoLocals
    <2>4. Admins
      BY <2>1 DEF Init, Admins, Carried, FreshCreate
    <2>5. Bindings
      BY <2>1, <2>2 DEF Init, VomInit, Bindings, Bound, Asked, AddrPhase
    <2>6. QED BY <2>3, <2>4, <2>5 DEF Image
  <1>4. IInv /\ InStep /\ Walk /\ Image /\ [Next]_vars => Image'
    <2>1. SUFFICES ASSUME IInv, InStep, Walk, Image, [Next]_vars PROVE Image'
      OBVIOUS
    <2>2. CASE CommitStart
      BY <1>1, <2>1, <2>2, ImageStart
    <2>3. CASE CreateCbChange \/ CreateCbFinish
      BY <1>1, <2>1, <2>3, ImageCreate
    <2>4. CASE AddrCbNext \/ AddrCbParse
      BY <1>1, <2>1, <2>4, ImageParse
    <2>5. CASE AddrCbDel \/ AddrCbAdd
      BY <1>1, <2>1, <2>5, ImageOperate
    <2>6. CASE AddrCbReturn
      BY <1>1, <2>1, <2>6, ImageReturn
    <2>7. CASE CommitApply
      BY <1>1, <2>1, <2>7, ImageApply
    <2>8. CASE CommitAbort \/ Crash
      BY <1>1, <2>1, <2>8 DEF CommitAbort, Crash, Image, SmallCommit, SingleChanges
    <2>9. CASE PluginRestart
      BY <1>1, <2>1, <2>9 DEF PluginRestart, SingleChanges, IInv, Plugin, CommitTypeOK
    <2>10. CASE UNCHANGED vars
      <3>1. UNCHANGED <<runItf, candItf, runAddr, candAddr, phase, refused, leftItf, leftAddr,
                        builder, flags, intf, todo, loc, pc, l3Ok, usrItf, adminOk, admin>>
        BY <2>10 DEF vars, dsVars, createVars, addrVars, hwVars
      <3>2. ChangedItf' = ChangedItf /\ ChangedAddr' = ChangedAddr
        BY <3>1 DEF ChangedItf, ChangedAddr
      <3>3. (Rest' <=> Rest) /\ (FreshCreate' <=> FreshCreate)
        BY <3>1 DEF Rest, NoLocals, FreshCreate, NoBuilder, NoFlags
      <3>4. SmallCommit'
        BY <2>1, <3>1, <3>2, <3>3, SameAddr DEF Image, SmallCommit
      <3>5. Admins'
        <4>1. \A n \in Ifs : /\ Carried(runItf, n)' <=> Carried(runItf, n)
                             /\ Carried(candItf, n)' <=> Carried(candItf, n)
                             /\ SeenOne(n)' <=> SeenOne(n)
          BY <3>1 DEF Carried, SeenOne, Enabled
        <4>2. QED BY <2>1, <3>1, <3>2, <3>3, <4>1 DEF Image, Admins
      <3>6. Bindings'
        <4>1. ASSUME NEW y PROVE /\ Pending(y)' <=> Pending(y)
                                 /\ Visited(y)' <=> Visited(y)
                                 /\ \A n \in 0 .. 3 : Parsing(y, n)' <=> Parsing(y, n)
          <5>1. \A n \in 0 .. 3 : Known(y, n)' <=> Known(y, n)
            BY <3>1 DEF Known, SubnetOf, PlenOf
          <5>2. QED BY <3>1, <3>3, <5>1, SameAddr DEF Pending, Visited, Parsing, NoLocals
        <4>2. QED BY <2>1, <3>1, <3>2, <4>1, SameAsked DEF Image, Bindings
      <3>7. QED BY <3>4, <3>5, <3>6 DEF Image
    <2>11. QED BY <2>1, <2>2, <2>3, <2>4, <2>5, <2>6, <2>7, <2>8, <2>9, <2>10 DEF Next
  <1>5. QED BY <1>2, <1>3, <1>4, Inductive, WalkHolds, PTL DEF Spec

\* When every commit changes at most one interface and one address, an interface
\* is admin up in VPP between commits if and only if the running datastore enables
\* it, whatever interfaces VPP had at the start (ietf_interface.cpp:94-206).
THEOREM AdminStaysInStep == SingleChanges => (Spec => []AdminFollowsRunning)
  <1>1. IInv /\ Image => AdminFollowsRunning
    <2>1. SUFFICES ASSUME IInv, Image, phase = "idle", NEW n \in Ifs, runItf[n] # NoItf
                   PROVE  n \in vppUp <=> Enabled(runItf[n])
      BY DEF AdminFollowsRunning
    <2>2. n \in adminOk /\ admin[n] = Enabled(runItf[n])
      BY <2>1 DEF Image, SmallCommit, Admins, Carried
    <2>3. QED BY <2>1, <2>2 DEF IInv, VomInv, BeliefIsSound
  <1>2. QED BY <1>1, ImageHolds, Inductive, PTL

\* And VPP has every prefix that is configured, if netmasks consist of whole
\* octets, and no binding of an address that is not configured: the binding of
\* length 0 that comes with an address goes with it (ietf_interface.cpp:302-364).
THEOREM AddressesStayMirrored ==
    SingleChanges /\ Exact => (Spec => []AddressesMirrorRunning)
  <1>1. ASSUME Exact PROVE IInv /\ InStep /\ Image => AddressesMirrorRunning
    <2>1. SUFFICES ASSUME IInv, InStep, Image, phase = "idle"
                   PROVE  /\ ConfiguredL3 \subseteq vppL3
                          /\ \A b \in vppL3 : <<b.itf, b.addr>> \in Configured
      BY DEF AddressesMirrorRunning
    <2>2. \A y \in Ifs \X Addr : Bound(y) = Asked(runAddr, y)
      BY <2>1 DEF Image, Bindings
    <2>3. ASSUME NEW b \in vppL3 PROVE <<b.itf, b.addr>> \in Configured
      <3>1. b \in l3Ok /\ b.itf \in Ifs /\ b.addr \in Addr
        BY <2>1, <2>3 DEF InStep, IInv, VomInv, VomTypeOK, Binding
      <3> DEFINE y == <<b.itf, b.addr>>
      <3>2. y \in Ifs \X Addr /\ b \in Bound(y)
        BY <3>1 DEF Bound
      <3> HIDE DEF y
      <3>3. b \in Asked(runAddr, y)
        BY <2>2, <3>2
      <3>4. y \in Configured
        BY <3>2, <3>3 DEF Asked, Configured
      <3>5. QED BY <3>4 DEF y
    <2>4. ASSUME NEW x \in Configured PROVE PrefixOf(x[1], x[2], runAddr[x]) \in vppL3
      <3>1. x \in Ifs \X Addr /\ Bound(x) = {ZeroBinding(x), BindingOf(x[1], x[2], runAddr[x])}
        BY <2>2, <2>4 DEF Configured, Asked
      <3>2. BindingOf(x[1], x[2], runAddr[x]) = PrefixOf(x[1], x[2], runAddr[x])
        BY <1>1, <2>1, <2>4, ConfiguredType, ExactBinding DEF Configured
      <3>3. QED BY <2>1, <3>1, <3>2 DEF Bound, InStep
    <2>5. ConfiguredL3 \subseteq vppL3
      BY <2>4 DEF ConfiguredL3
    <2>6. QED BY <2>3, <2>5
  <1>2. SUFFICES ASSUME SingleChanges, Exact PROVE Spec => []AddressesMirrorRunning
    OBVIOUS
  <1>3. Spec => []Image
    BY <1>2, ImageHolds
  <1>4. Spec => []InStep
    BY <1>2, InStepHolds DEF SingleChanges
  <1>5. IInv /\ InStep /\ Image => AddressesMirrorRunning
    BY <1>1, <1>2
  <1>6. QED BY <1>3, <1>4, <1>5, Inductive, PTL
=============================================================================
