--------------------------- MODULE IetfInterfaces ---------------------------
(***************************************************************************)
(* The configuration callbacks of src/plugins/ietf/ietf_interface.cpp,     *)
(* driven by sysrepo commits and acting on VOM and VPP (module Vom).       *)
(*                                                                         *)
(* sysrepo (external) runs a commit as a vote: every subscriber whose      *)
(* subtree changed gets SR_EV_VERIFY, in the order of the priorities given *)
(* in ietf_interface_init, iterates over the changes and returns OK or an  *)
(* error.  If all return OK the candidate becomes the running datastore    *)
(* and SR_EV_APPLY follows, otherwise running is kept and SR_EV_ABORT      *)
(* follows.  The callbacks do their work on VERIFY.  On ABORT the create   *)
(* callback returns at once, and in the address callback foreach_change    *)
(* (sys_util.h) makes no iteration.                                        *)
(*                                                                         *)
(* A change set is delivered one changed list instance at a time (an       *)
(* interface, an address), in an order sysrepo chooses; within an instance *)
(* the nodes come in schema order.                                         *)
(***************************************************************************)
EXTENDS Vom, Sequences, FiniteSets, SysUtil

CONSTANTS
    V4, V6,         \* the addresses below ipv4/address and ipv6/address
    Subnet,         \* values of the subnet choice: [leaf, len]
    IfType,         \* values of leaf type; "ethernetCsmacd" is the known one
    EnabledLeaf,    \* values leaf enabled of an interface can have
    IpLeaf,         \* values leaf ipv4/enabled can have
    NoLeaf,         \* a leaf that is not in the configuration
    NoItf, NoAddr,  \* an interface or address that is not there; nullptr, ""
    UninitBool,     \* what an uninitialised bool may read as
    Outcome,        \* the outcomes of commands sent to VPP
    AddrOps,        \* what commits do to addresses: created, modified, deleted
    MaxItfChanges,  \* bound: interfaces changed by one commit
    MaxAddrChanges, \* bound: addresses changed by one commit
    MayCrash,       \* may the process die for reasons outside these callbacks?
    MaxRestarts     \* bound: restarts of the plugin process

ASSUME ConfigAssumption ==
    /\ Addr = V4 \cup V6
    /\ V4 \cap V6 = {}
    /\ Subnet \subseteq [leaf : {"prefix-length", "netmask"}, len : 1 .. 128]
    /\ \A s \in Subnet : s.leaf = "netmask" => s.len <= 32
    /\ EnabledLeaf \subseteq BOOLEAN \cup {NoLeaf}
    /\ IpLeaf \subseteq BOOLEAN \cup {NoLeaf}
    /\ UninitBool \subseteq BOOLEAN
    /\ Outcome \subseteq BOOLEAN
    /\ MaxItfChanges \in Nat
    /\ MaxAddrChanges \in Nat
    /\ MayCrash \in BOOLEAN
    /\ MaxRestarts \in Nat
    /\ NoLeaf \notin BOOLEAN /\ NoLeaf \notin Subnet
    /\ NoItf \notin Ifs /\ NoAddr \notin Addr

VARIABLES
    runItf, runAddr,    \* the running datastore: interfaces, their addresses
    candItf, candAddr,  \* the datastore being committed
    phase,      \* "idle", the callback that runs, "decide", or "crashed"
    refused,    \* has a callback of this commit returned an error?
    leftItf,    \* changed interfaces ietf_interface_create_cb has yet to visit
    leftAddr,   \* changed addresses the address callbacks have yet to visit
    builder,    \* interface_builder of the running create callback
    flags,      \* create, modify, remove: the ones that were assigned TRUE
    intf,       \* shared_ptr intf of the running create callback
    todo,       \* remaining changes of the address being visited
    loc,        \* locals of the running address callback
    pc,         \* next step of the address callback's loop body
    restarts    \* how often the plugin process was restarted

dsVars == <<runItf, runAddr, candItf, candAddr>>
createVars == <<leftItf, builder, flags, intf>>
addrVars == <<leftAddr, todo, loc, pc>>
vars == <<dsVars, phase, refused, createVars, addrVars, restarts, hwVars>>

-----------------------------------------------------------------------------
(* Datastore contents.                                                     *)

ItfConfig == [type : IfType, enabled : EnabledLeaf, ip : IpLeaf]

\* The admin state the configuration of an interface asks for: leaf enabled,
\* which defaults to true.
Enabled(c) == c.enabled # FALSE

\* The prefix length parse_interface_ipv46_address takes from the subnet.
PlenOf(s) == IF s.leaf = "netmask" THEN netmask_to_plen(s.len) ELSE s.len

ChangedItf == {n \in Ifs : runItf[n] # candItf[n]}
ChangedAddr == {x \in Ifs \X Addr : runAddr[x] # candAddr[x]}

Change == [op : {"CREATED", "MODIFIED", "DELETED"},
           node : {"address", "ip", "prefix-length", "netmask"},
           itf : Ifs, addr : Addr, old : 0 .. 255, new : 0 .. 255]

NoBuilder == [name |-> NoItf, type |-> FALSE, state |-> NoLeaf]
NoFlags == [create |-> FALSE, modify |-> FALSE, remove |-> FALSE]

\* Mutant of NoLocals: the prefixes start as -1.
NoLocals_sentinel == [if_name |-> NoItf, new_addr |-> NoAddr, new_prefix |-> -1,
             old_addr |-> NoAddr, old_prefix |-> -1,
             create |-> FALSE, del |-> FALSE, op_rc |-> TRUE]

NoLocals == [if_name |-> NoItf, new_addr |-> NoAddr, new_prefix |-> 0,
             old_addr |-> NoAddr, old_prefix |-> 0,
             create |-> FALSE, del |-> FALSE, op_rc |-> TRUE]

DatastoreTypeOK ==
    /\ runItf \in [Ifs -> ItfConfig \cup {NoItf}]
    /\ candItf \in [Ifs -> ItfConfig \cup {NoItf}]
    /\ runAddr \in [Ifs \X Addr -> Subnet \cup {NoLeaf}]
    /\ candAddr \in [Ifs \X Addr -> Subnet \cup {NoLeaf}]

CommitTypeOK ==
    /\ phase \in {"idle", "itf", "ipv4", "ipv6", "decide", "crashed"}
    /\ refused \in BOOLEAN
    /\ leftItf \in SUBSET Ifs
    /\ leftAddr \in SUBSET (Ifs \X Addr)
    /\ restarts \in 0 .. MaxRestarts

CreateTypeOK ==
    /\ builder \in [name : Ifs \cup {NoItf}, type : BOOLEAN, state : BOOLEAN \cup {NoLeaf}]
    /\ flags \in [create : BOOLEAN, modify : BOOLEAN, remove : BOOLEAN]
    /\ intf \in Ifs \cup {NoItf}

AddrTypeOK ==
    /\ todo \in Seq(Change)
    /\ loc \in [if_name : Ifs \cup {NoItf},
                new_addr : Addr \cup {NoAddr}, new_prefix : 0 .. 255,
                old_addr : Addr \cup {NoAddr}, old_prefix : 0 .. 255,
                create : BOOLEAN, del : BOOLEAN, op_rc : BOOLEAN]
    /\ pc \in {"next", "del", "add"}

TypeOK == VomTypeOK /\ DatastoreTypeOK /\ CommitTypeOK /\ CreateTypeOK /\ AddrTypeOK

-----------------------------------------------------------------------------
(* sysrepo: the start of a commit.                                         *)

\* What a commit does to an address entry.
OpOn(old, new) == IF old = NoLeaf THEN "created"
                  ELSE IF new = NoLeaf THEN "deleted" ELSE "modified"

\* The subnets the YANG model allows for an address.
Legal(a, s) == IF a \in V4 THEN s.len <= 32 ELSE s.leaf = "prefix-length"

\* A client commits a new datastore content.  Addresses are children of an
\* interface; at least one list instance changes.
CommitStart ==
    /\ phase = "idle"
    /\ candItf' \in [Ifs -> ItfConfig \cup {NoItf}]
    /\ candAddr' \in [Ifs \X Addr -> Subnet \cup {NoLeaf}]
    /\ \A x \in Ifs \X Addr : candAddr'[x] # NoLeaf =>
          candItf'[x[1]] # NoItf /\ Legal(x[2], candAddr'[x])
    /\ leftItf' = {n \in Ifs : runItf[n] # candItf'[n]}
    /\ leftAddr' = {x \in Ifs \X Addr : runAddr[x] # candAddr'[x]}
    /\ \A x \in leftAddr' : OpOn(runAddr[x], candAddr'[x]) \in AddrOps
    /\ leftItf' # {} \/ leftAddr' # {}
    /\ Cardinality(leftItf') <= MaxItfChanges
    /\ Cardinality(leftAddr') <= MaxAddrChanges
    /\ phase' = "itf"
    /\ UNCHANGED <<runItf, runAddr, refused, builder, flags, intf, todo, loc, pc,
                   restarts, hwVars>>

-----------------------------------------------------------------------------
(* ietf_interface_create_cb                                                *)

\* The next callback of the commit starts; rc is what the previous one returned.
Return(next, rc) ==
    /\ phase' = next
    /\ refused' = (refused \/ ~rc)

\* The locals of ietf_interface_create_cb, on entry and once it has returned.
LocalsGone ==
    /\ builder' = NoBuilder
    /\ flags' = NoFlags
    /\ intf' = NoItf

\* The loop body over the changes of an interface that is new in the commit:
\* nodes name, type, enabled and ipv4/enabled are created, in this order.  The
\* node name "enabled" is compared without its parent.
CreatedItf(n) ==
    LET c == candItf[n] IN
    /\ runItf[n] = NoItf
    /\ builder' = [name |-> n,
                   type |-> builder.type \/ c.type = "ethernetCsmacd",
                   state |-> IF c.ip # NoLeaf THEN c.ip
                             ELSE IF c.enabled # NoLeaf THEN c.enabled
                             ELSE builder.state]
    /\ flags' = [flags EXCEPT !.create = TRUE]
    /\ UNCHANGED <<phase, refused, intf, hwVars>>

\* The loop body over the changes of an interface that the commit deletes.
DeletedItf(n) ==
    /\ candItf[n] = NoItf
    /\ builder' = [builder EXCEPT !.name = n]
    /\ flags' = [flags EXCEPT !.remove = TRUE]
    /\ UNCHANGED <<phase, refused, intf, hwVars>>

\* A leaf called "enabled" goes from old to new: created, modified or other.
LeafCreated(old, new) == old = NoLeaf /\ new # NoLeaf

\* Mutant of LeafModified: a changed value is not noticed.
LeafModified_unnoticed(old, new) == FALSE

LeafModified(old, new) == old # NoLeaf /\ new # NoLeaf /\ old # new

\* The loop body over the changes of an interface that stays: a modified
\* "enabled" sets the state of the instance VOM finds (no instance is an
\* error), a created one goes to the builder, all other changes are ignored.
ModifiedItf(n) ==
    LET r == runItf[n]
        c == candItf[n]
        setByIf == LeafModified(r.enabled, c.enabled)
        setByIp == LeafModified(r.ip, c.ip)
    IN
    /\ r # NoItf /\ c # NoItf
    /\ builder' = [builder EXCEPT !.state =
                     IF LeafCreated(r.ip, c.ip) THEN c.ip
                     ELSE IF LeafCreated(r.enabled, c.enabled) THEN c.enabled
                     ELSE @]
    /\ \/ /\ ~setByIf /\ ~setByIp
          /\ UNCHANGED <<phase, refused, flags, intf, hwVars>>
       \/ /\ setByIf \/ setByIp
          /\ n \in Found
          /\ Itf_set(n, IF setByIp THEN c.ip ELSE c.enabled)
          /\ intf' = n
          /\ flags' = [flags EXCEPT !.modify = TRUE]
          /\ UNCHANGED <<phase, refused>>
       \/ /\ setByIf \/ setByIp
          /\ n \notin Found
          /\ Return("ipv4", FALSE)
          /\ UNCHANGED <<flags, intf, hwVars>>

CreateCbChange ==
    /\ phase = "itf"
    /\ \E n \in leftItf :
          /\ leftItf' = leftItf \ {n}
          /\ CreatedItf(n) \/ DeletedItf(n) \/ ModifiedItf(n)
    /\ UNCHANGED <<dsVars, addrVars, restarts>>

\* Mutant of ItfWriteRc: the result of OM::write is dropped.
ItfWriteRc_ignored(n, up, ok) == TRUE

\* Is the result of OM::write(intf->key(), *intf) rc_t::OK?
ItfWriteRc(n, up, ok) == ok \/ ~SendsItf(n, up)

\* The interface that is written, and its state.  The builder's m_state is not
\* initialised: it reads as us unless a leaf set it.
Target(create) == IF create THEN builder.name ELSE intf
TargetState(create, us) ==
    IF ~create THEN admin[intf]
    ELSE IF builder.state = NoLeaf THEN us ELSE builder.state

\* goto nothing_todo after the loop: old_val and new_val, which the loop freed,
\* are freed again.  The process may or may not survive that.
FailAfterLoop == \E next \in {"ipv4", "crashed"} : Return(next, FALSE)

\* After the loop: build, write or remove, and return.
WriteOrRemove(create, modify, remove, us, ok) ==
    LET built == builder.name # NoItf /\ builder.type
        target == Target(create)
        state == TargetState(create, us)
    IN
    \/ /\ create /\ ~built
       /\ FailAfterLoop
       /\ UNCHANGED hwVars
    \/ /\ create \/ modify
       /\ create => built
       /\ target # NoItf
       /\ OM_write_itf(target, state, ok)
       /\ IF ItfWriteRc(target, state, ok) THEN Return("ipv4", TRUE) ELSE FailAfterLoop
    \/ /\ ~create /\ modify
       /\ target = NoItf                 \* intf->key() on a null pointer
       /\ Return("crashed", FALSE)
       /\ UNCHANGED hwVars
    \/ /\ ~create /\ ~modify /\ remove
       /\ OM_remove_itf(builder.name, ok)
       /\ Return("ipv4", TRUE)
    \/ /\ ~create /\ ~modify /\ ~remove
       /\ Return("ipv4", TRUE)
       /\ UNCHANGED hwVars

\* The flags create, modify and remove are not initialised: unless the loop
\* assigned one, it reads as any value in UninitBool.
CreateCbFinish ==
    /\ phase = "itf"
    /\ leftItf = {}
    /\ \E uc, um, ur, us \in UninitBool, ok \in Outcome :
          WriteOrRemove(flags.create \/ uc, flags.modify \/ um, flags.remove \/ ur, us, ok)
    /\ LocalsGone
    /\ UNCHANGED <<dsVars, leftItf, addrVars, restarts>>

-----------------------------------------------------------------------------
(* ietf_interface_ipv46_address_change_cb, subscribed for ipv4 and ipv6    *)

AddrPhase == {"ipv4", "ipv6"}

Family == IF phase = "ipv4" THEN V4 ELSE V6

\* The changes of one address entry, in the order they are delivered.
ChangesOf(x) ==
    LET r == runAddr[x]
        c == candAddr[x]
        old == IF r = NoLeaf THEN 0 ELSE PlenOf(r)
        new == IF c = NoLeaf THEN 0 ELSE PlenOf(c)
        chg(op, node) == [op |-> op, node |-> node, itf |-> x[1], addr |-> x[2],
                          old |-> old, new |-> new]
    IN CASE r = NoLeaf -> <<chg("CREATED", "address"), chg("CREATED", "ip"),
                            chg("CREATED", c.leaf)>>
         [] c = NoLeaf -> <<chg("DELETED", "address"), chg("DELETED", "ip"),
                            chg("DELETED", r.leaf)>>
         [] r # NoLeaf /\ c # NoLeaf /\ r.leaf = c.leaf ->
                          <<chg("MODIFIED", c.leaf)>>
         [] OTHER -> <<chg("DELETED", r.leaf), chg("CREATED", c.leaf)>>

\* parse_interface_ipv46_address: what becomes of addr and prefix.
ParsedAddr(c, addr) == IF c.node = "address" THEN NoAddr
                       ELSE IF c.node = "ip" THEN c.addr ELSE addr

\* Mutant of ParsedPrefix: leaf netmask is not understood.
ParsedPrefix_noNetmask(c, plen, prefix) ==
    IF c.node = "prefix-length" THEN plen ELSE prefix

ParsedPrefix(c, plen, prefix) ==
    IF c.node \in {"prefix-length", "netmask"} THEN plen ELSE prefix

\* What change c makes of the locals l.
Parsed(l, c) ==
    LET isNew == c.op \in {"CREATED", "MODIFIED"}
        isOld == c.op \in {"DELETED", "MODIFIED"}
    IN [if_name |-> c.itf,
        new_addr |-> IF isNew THEN ParsedAddr(c, l.new_addr) ELSE l.new_addr,
        new_prefix |-> IF isNew THEN ParsedPrefix(c, c.new, l.new_prefix) ELSE l.new_prefix,
        old_addr |-> IF isOld THEN ParsedAddr(c, l.old_addr) ELSE l.old_addr,
        old_prefix |-> IF isOld THEN ParsedPrefix(c, c.old, l.old_prefix) ELSE l.old_prefix,
        create |-> l.create \/ isNew,
        del |-> l.del \/ isOld,
        op_rc |-> l.op_rc]

\* The callback is entered, with fresh locals, or not called at all.
AddrCbNext ==
    /\ phase \in AddrPhase
    /\ pc = "next"
    /\ todo = <<>>
    /\ \E x \in leftAddr :
          /\ x[2] \in Family
          /\ leftAddr' = leftAddr \ {x}
          /\ todo' = ChangesOf(x)
    /\ UNCHANGED <<dsVars, phase, refused, createVars, loc, pc, restarts, hwVars>>

\* The top of the loop body: take a change, note what it says.
AddrCbParse ==
    /\ phase \in AddrPhase
    /\ pc = "next"
    /\ todo # <<>>
    /\ loc' = Parsed(loc, Head(todo))
    /\ todo' = Tail(todo)
    /\ pc' = "del"
    /\ UNCHANGED <<dsVars, phase, refused, createVars, leftAddr, restarts, hwVars>>

\* Mutant of OldBinding: the prefix of the new value is taken.
OldBinding_newPrefix == [itf |-> loc.if_name, addr |-> loc.old_addr, plen |-> loc.new_prefix]

\* Mutant of NewBinding: the prefix of the old value is taken.
NewBinding_oldPrefix == [itf |-> loc.if_name, addr |-> loc.new_addr, plen |-> loc.old_prefix]

\* The bindings ipv46_config_add_remove is asked to remove and to add.
OldBinding == [itf |-> loc.if_name, addr |-> loc.old_addr, plen |-> loc.old_prefix]
NewBinding == [itf |-> loc.if_name, addr |-> loc.new_addr, plen |-> loc.new_prefix]

\* Mutant of L3WriteRc: the result of OM::write is dropped.
L3WriteRc_ignored(b, ok) == TRUE

\* Is the result of OM::write(KEY(l3), *l3) rc_t::OK?
L3WriteRc(b, ok) == ok \/ b \in l3Ok

\* ipv46_config_add_remove for binding b; its result goes to op_rc.
ConfigAdd(b, ok) ==
    /\ OM_write_l3(b, ok)
    /\ loc' = [loc EXCEPT !.op_rc = L3WriteRc(b, ok)]

ConfigRemove(b, ok) ==
    /\ OM_remove_l3(b, ok)
    /\ loc' = [loc EXCEPT !.op_rc = TRUE]

ipv46_config_add_remove(b, add) ==
    \/ /\ b.itf \notin Found
       /\ loc' = [loc EXCEPT !.op_rc = FALSE]
       /\ UNCHANGED hwVars
    \/ /\ b.itf \in Found
       /\ \E ok \in Outcome : IF add THEN ConfigAdd(b, ok) ELSE ConfigRemove(b, ok)

\* if (del && !old_addr.empty()) ...
AddrCbDel ==
    /\ phase \in AddrPhase
    /\ pc = "del"
    /\ pc' = "add"
    /\ \/ /\ ~loc.del \/ loc.old_addr = NoAddr
          /\ UNCHANGED <<loc, hwVars>>
       \/ /\ loc.del /\ loc.old_addr # NoAddr
          /\ ipv46_config_add_remove(OldBinding, FALSE)
    /\ UNCHANGED <<dsVars, phase, refused, createVars, leftAddr, todo, restarts>>

\* if (create && !new_addr.empty()) ...
AddrCbAdd ==
    /\ phase \in AddrPhase
    /\ pc = "add"
    /\ pc' = "next"
    /\ \/ /\ ~loc.create \/ loc.new_addr = NoAddr
          /\ UNCHANGED <<loc, hwVars>>
       \/ /\ loc.create /\ loc.new_addr # NoAddr
          /\ ipv46_config_add_remove(NewBinding, TRUE)
    /\ UNCHANGED <<dsVars, phase, refused, createVars, leftAddr, todo, restarts>>

\* The loop is done: return op_rc, the result of the last operation only.
AddrCbReturn ==
    /\ phase \in AddrPhase
    /\ pc = "next"
    /\ todo = <<>>
    /\ \A x \in leftAddr : x[2] \notin Family
    /\ Return(IF phase = "ipv4" THEN "ipv6" ELSE "decide", loc.op_rc)
    /\ loc' = NoLocals
    /\ UNCHANGED <<dsVars, createVars, leftAddr, todo, pc, restarts, hwVars>>

-----------------------------------------------------------------------------
(* sysrepo: the end of a commit, and the plugin process.                   *)

\* All callbacks agreed.  SR_EV_APPLY is a no-op for both of them.
CommitApply ==
    /\ phase = "decide"
    /\ ~refused
    /\ runItf' = candItf
    /\ runAddr' = candAddr
    /\ phase' = "idle"
    /\ UNCHANGED <<candItf, candAddr, refused, createVars, addrVars, restarts, hwVars>>

\* The failed commit is over: running is kept, the candidate discarded.
Discard ==
    /\ phase' = "idle"
    /\ refused' = FALSE
    /\ candItf' = runItf
    /\ candAddr' = runAddr
    /\ UNCHANGED <<runItf, runAddr>>

\* A callback refused.  sysrepo may give up at once or collect the other votes
\* first.  SR_EV_ABORT reaches both callbacks and neither changes anything.
CommitAbort ==
    /\ refused
    /\ \/ phase = "decide"
       \/ phase \in {"ipv4", "ipv6"} /\ pc = "next" /\ loc = NoLocals /\ todo = <<>>
    /\ leftItf' = {}
    /\ leftAddr' = {}
    /\ Discard
    /\ LocalsGone
    /\ UNCHANGED <<todo, loc, pc, restarts, hwVars>>

\* The process dies, and with it the callback it was running.
ProcessGone ==
    /\ phase # "crashed"
    /\ phase' = "crashed"
    /\ leftItf' = {}
    /\ leftAddr' = {}
    /\ todo' = <<>>
    /\ loc' = NoLocals
    /\ pc' = "next"
    /\ LocalsGone
    /\ UNCHANGED <<dsVars, refused, restarts>>

\* Another callback, or another plugin of sysrepo-plugind, brings it down.
Crash == MayCrash /\ ProcessGone /\ UNCHANGED hwVars

\* The plugin process starts again, after it crashed or was stopped between
\* commits: VOM is empty and is filled from VPP.  A commit in progress failed.
PluginRestart ==
    /\ phase \in {"idle", "crashed"}
    /\ restarts < MaxRestarts
    /\ restarts' = restarts + 1
    /\ leftItf' = {}
    /\ leftAddr' = {}
    /\ Discard
    /\ LocalsGone
    /\ OM_populate
    /\ UNCHANGED <<todo, loc, pc>>

Init ==
    /\ VomInit
    /\ runItf = [n \in Ifs |-> NoItf]
    /\ candItf = runItf
    /\ runAddr = [x \in Ifs \X Addr |-> NoLeaf]
    /\ candAddr = runAddr
    /\ phase = "idle"
    /\ refused = FALSE
    /\ leftItf = {}
    /\ leftAddr = {}
    /\ builder = NoBuilder
    /\ flags = NoFlags
    /\ intf = NoItf
    /\ todo = <<>>
    /\ loc = NoLocals
    /\ pc = "next"
    /\ restarts = 0

Next ==
    \/ CommitStart
    \/ CreateCbChange
    \/ CreateCbFinish
    \/ AddrCbNext
    \/ AddrCbParse
    \/ AddrCbDel
    \/ AddrCbAdd
    \/ AddrCbReturn
    \/ CommitApply
    \/ CommitAbort
    \/ Crash
    \/ PluginRestart

Spec == Init /\ [][Next]_vars

-----------------------------------------------------------------------------
(* Properties.                                                             *)

Configured == {x \in Ifs \X Addr : runAddr[x] # NoLeaf}

\* The prefix a datastore with subnet s below address a of interface n asks for,
\* and all prefixes that running asks for.  The length is that of the subnet,
\* whatever the plugin takes it for.
PrefixOf(n, a, s) == [itf |-> n, addr |-> a, plen |-> s.len]
ConfiguredL3 == {PrefixOf(x[1], x[2], runAddr[x]) : x \in Configured}

\* "adding, modifying, removing a prefix from an interface" (header of
\* ietf_interface.cpp): between commits every configured prefix is bound in VPP,
\* whatever sequence of commits, each over several addresses in any order, led
\* there (ietf_interface.cpp:311-359, with locals kept across iterations).
ConfiguredAreBound == phase = "idle" => ConfiguredL3 \subseteq vppL3

\* Between commits that change one address each VPP has every configured prefix,
\* and no binding of an address that is not configured: an address that was
\* deleted takes away whatever its creation left in VPP.  (Besides its prefix an
\* address may have other bindings; ietf_interface.cpp:354 writes one of length 0
\* when leaf ip is seen before the prefix length.)  (ietf_interface.cpp:311-359)
AddressesMirrorRunning ==
    phase = "idle" => /\ ConfiguredL3 \subseteq vppL3
                      /\ \A b \in vppL3 : <<b.itf, b.addr>> \in Configured

\* The commit was accepted: this step makes the candidate running.
Accepted == phase = "decide" /\ ~refused /\ phase' = "idle"

\* An accepted commit that deletes an address leaves its prefix unbound in VPP,
\* even if the same callback adds other addresses before or after it
\* (ietf_interface.cpp:336-352).
DeletedIsUnbound ==
    [][Accepted => \A x \in Configured :
          candAddr[x] = NoLeaf =>
              PrefixOf(x[1], x[2], runAddr[x]) \notin vppL3']_vars

\* Between commits an interface is admin up in VPP if and only if the running
\* datastore enables it, as test_interface checks after a creation and after a
\* modification of leaf enabled (ietf_interface.cpp:132-190).
AdminFollowsRunning ==
    phase = "idle" => \A n \in Ifs :
        runItf[n] # NoItf => (n \in vppUp <=> Enabled(runItf[n]))

\* The commit gives leaf enabled of interface n a value: with a new interface, or
\* in place of another value.
SetsEnabled(n) ==
    /\ candItf[n] # NoItf
    /\ candItf[n].enabled # NoLeaf /\ candItf[n].ip = NoLeaf
    /\ runItf[n] # NoItf => /\ runItf[n].enabled # NoLeaf
                            /\ runItf[n].enabled # candItf[n].enabled

\* A commit that changes one interface, creating it with leaf enabled or changing
\* the value of that leaf, and is accepted, has brought the interface to that
\* state in VPP, whatever the uninitialised flags of the callback read as and
\* whatever failed before, also a write that had already changed the state VOM
\* holds: OM::write is skipped only if VPP is in the state asked for
\* (ietf_interface.cpp:132-190).
AcceptedItfReachesVpp ==
    [][Accepted => \A n \in Ifs :
          ChangedItf = {n} /\ SetsEnabled(n) =>
              (n \in vppUp' <=> candItf[n].enabled)]_vars

\* A commit that changes one address, creating it, and is accepted, has bound it
\* in VPP, whatever failed before: the prefix is written by the last operation of
\* the callback, the one whose result is returned (ietf_interface.cpp:354-362).
AcceptedAddressReachesVpp ==
    [][Accepted => \A x \in Ifs \X Addr :
          runAddr[x] = NoLeaf /\ ChangedAddr = {x} =>
              PrefixOf(x[1], x[2], candAddr[x]) \in vppL3']_vars
=============================================================================
