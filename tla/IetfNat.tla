------------------------------ MODULE IetfNat ------------------------------
(***************************************************************************)
(* The NAT mapping callback of src/plugins/ietf/ietf_nat.cpp, with the     *)
(* prefixes of sys_util.cpp, inside the sysrepo commit that calls it.      *)
(*                                                                         *)
(* A mapping entry of the datastore is named by its NAT instance and its   *)
(* index, and has leaves type, internal-src-address, external-src-address, *)
(* internal-dst-address and external-dst-address.  The plugin keys its     *)
(* objects in VOM, and static_mapping_table, by the index alone.           *)
(*                                                                         *)
(* VOM (external) is modelled as in module Vom: a mapping is one shared    *)
(* instance, identified here by its pair of addresses, owned by keys and   *)
(* swept with its last owner.  A key owns everything written under it      *)
(* until it is removed.                                                    *)
(***************************************************************************)
EXTENDS Integers, FiniteSets

CONSTANTS
    Inst,           \* NAT instances
    Index,          \* indexes of mapping entries, uint32
    Addr,           \* addresses that are configured
    Config,         \* contents an entry of the datastore can have
    Unspecified,    \* the address of a default-constructed prefix, 0.0.0.0
    NoLeaf,         \* a leaf that is not in the configuration
    NoEntry,        \* an entry that is not in the configuration
    NoPair,         \* an index that is not in static_mapping_table
    NoIndex,        \* xindex before a change assigned it
    UninitBool,     \* what an uninitialised bool may read as
    UninitIndex,    \* what the uninitialised xindex may read as
    Outcome,        \* the outcomes of commands sent to VPP
    OtherVote,      \* do the other subscribers of a commit agree?
    MaxChanges,     \* bound: entries changed by one commit
    MaxRestarts     \* bound: restarts of the plugin process

AddrLeaf == {"isrc", "esrc", "idst", "edst"}
Leaf == AddrLeaf \cup {"type"}

Entry == Inst \X Index

\* The arguments of a nat_static: inside and outside address.
Pair == (Addr \cup {Unspecified}) \X (Addr \cup {Unspecified})

ASSUME NatAssumption ==
    /\ Config \subseteq [Leaf -> Addr \cup {"static", "dynamic", NoLeaf}]
    /\ \A c \in Config : /\ c["type"] \in {"static", "dynamic", NoLeaf}
                         /\ \A f \in AddrLeaf : c[f] \in Addr \cup {NoLeaf}
    /\ Unspecified \notin Addr
    /\ NoLeaf \notin Addr \cup {"static", "dynamic"}
    /\ NoEntry \notin Config
    /\ NoPair \notin Pair
    /\ NoIndex \notin Index
    /\ UninitBool \subseteq BOOLEAN
    /\ UninitIndex \subseteq Index
    /\ Outcome \subseteq BOOLEAN
    /\ OtherVote \subseteq BOOLEAN
    /\ MaxChanges \in Nat
    /\ MaxRestarts \in Nat

VARIABLES
    run, cand,      \* the running datastore, and the one being committed
    phase,          \* "idle", "mapping" (the callback runs), "decide", "crashed"
    refused,        \* did the callback of this commit return an error?
    left,           \* changed entries the callback has yet to visit
    builder,        \* nat_static_builder: the leaves that were set
    flags,          \* create, remove: the ones that were assigned TRUE
    xindex,         \* the local of that name
    table,          \* static_mapping_table
    restarts,       \* how often the plugin process was restarted
    bootNat,        \* VOM: mappings owned by key "boot"
    usrNat,         \* VOM: <<index, mapping>>, owned by the key of the index
    natOk,          \* VOM: mappings pushed with outcome OK
    vppNat          \* VPP: its static mappings

dsVars == <<run, cand>>
cbVars == <<builder, flags, xindex>>
hwVars == <<bootNat, usrNat, natOk, vppNat>>
vars == <<dsVars, phase, refused, left, cbVars, table, restarts, hwVars>>

TypeOK ==
    /\ run \in [Entry -> Config \cup {NoEntry}]
    /\ cand \in [Entry -> Config \cup {NoEntry}]
    /\ phase \in {"idle", "mapping", "decide", "crashed"}
    /\ refused \in BOOLEAN
    /\ left \in SUBSET Entry
    /\ builder \in [Leaf -> Addr \cup {"static", "dynamic", NoLeaf}]
    /\ \A f \in AddrLeaf : builder[f] \in Addr \cup {NoLeaf}
    /\ flags \in [create : BOOLEAN, remove : BOOLEAN]
    /\ xindex \in Index \cup {NoIndex}
    /\ table \in [Index -> Pair \cup {NoPair}]
    /\ restarts \in 0 .. MaxRestarts
    /\ bootNat \in SUBSET Pair
    /\ usrNat \in SUBSET (Index \X Pair)
    /\ natOk \in SUBSET Pair
    /\ vppNat \in SUBSET Pair

-----------------------------------------------------------------------------
(* VOM and VPP, external.  ok is the outcome of the command, if one is sent. *)

\* OM::write(KEY(i), nat_static(p)); it returns OK iff p \in natOk \/ ok.
OM_write(i, p, ok) ==
    /\ usrNat' = usrNat \cup {<<i, p>>}
    /\ natOk' = IF ok THEN natOk \cup {p} ELSE natOk
    /\ vppNat' = IF ok /\ p \notin natOk THEN vppNat \cup {p} ELSE vppNat
    /\ UNCHANGED bootNat

Owned(u) == bootNat \cup {o[2] : o \in u}

\* OM::remove(KEY(i)): the mappings without another owner are swept.
OM_remove(i, ok) ==
    LET gone == Owned(usrNat) \ Owned(usrNat') IN
    /\ usrNat' = {o \in usrNat : o[1] # i}
    /\ natOk' = natOk \ gone
    /\ vppNat' = IF ok THEN vppNat \ (gone \cap natOk) ELSE vppNat
    /\ UNCHANGED bootNat

\* OM::populate("boot") in a fresh process.
OM_populate ==
    /\ bootNat' = vppNat
    /\ usrNat' = {}
    /\ natOk' = vppNat
    /\ UNCHANGED vppNat

-----------------------------------------------------------------------------
(* utils::prefix and nat_static_builder                                    *)

\* prefix::empty tests whether the formatted prefix is empty; the format always
\* has an address and a '/', a default-constructed prefix included.
prefix_empty(p) == FALSE

\* Mutant of prefix_address: a default-constructed prefix has no address.
prefix_address_none(p) == p

\* prefix::address: what precedes the '/', 0.0.0.0 if the prefix was never set.
prefix_address(p) == IF p = NoLeaf THEN Unspecified ELSE p

\* Does b have the prefixes f and g?
HasPair(b, f, g) == ~prefix_empty(b[f]) /\ ~prefix_empty(b[g])

PairOf(b, f, g) == <<prefix_address(b[f]), prefix_address(b[g])>>

\* nat_static_builder::build: the mapping, or nullptr.
build(b) ==
    IF b["type"] # "static" THEN NoPair
    ELSE IF HasPair(b, "isrc", "esrc") THEN PairOf(b, "isrc", "esrc")
    ELSE IF HasPair(b, "idst", "edst") THEN PairOf(b, "idst", "edst")
    ELSE NoPair

NoBuilder == [f \in Leaf |-> NoLeaf]
NoFlags == [create |-> FALSE, remove |-> FALSE]

-----------------------------------------------------------------------------
(* The commit.                                                             *)

\* A client commits a datastore in which at least one mapping entry differs.
CommitStart ==
    /\ phase = "idle"
    /\ cand' \in [Entry -> Config \cup {NoEntry}]
    /\ left' = {e \in Entry : run[e] # cand'[e]}
    /\ left' # {}
    /\ Cardinality(left') <= MaxChanges
    /\ phase' = "mapping"
    /\ UNCHANGED <<run, refused, cbVars, table, restarts, hwVars>>

\* nat_mapping_table_config_cb returns; rc is TRUE for SR_ERR_OK.
Return(next, rc) ==
    /\ phase' = next
    /\ refused' = ~rc
    /\ builder' = NoBuilder
    /\ flags' = NoFlags
    /\ xindex' = NoIndex

\* goto error after the loop: the iterator and the last values, which were freed
\* already, are freed again.  The process may or may not survive that.
FailAfterLoop == \E next \in {"decide", "crashed"} : Return(next, FALSE)

\* SR_OP_CREATED for the leaves in fs of an entry with content c.
SetLeaves(c, fs) == builder' = [f \in Leaf |-> IF f \in fs THEN c[f] ELSE builder[f]]

\* The loop over the changes of an entry that is new: its key leaf index and
\* all leaves it has are created.
CreatedEntry(e) ==
    /\ run[e] = NoEntry /\ cand[e] # NoEntry
    /\ SetLeaves(cand[e], {f \in Leaf : cand[e][f] # NoLeaf})
    /\ xindex' = e[2]
    /\ flags' = [flags EXCEPT !.create = TRUE]
    /\ UNCHANGED <<phase, refused>>

\* The loop over the changes of an entry that is deleted.
DeletedEntry(e) ==
    /\ run[e] # NoEntry /\ cand[e] = NoEntry
    /\ xindex' = e[2]
    /\ flags' = [flags EXCEPT !.remove = TRUE]
    /\ UNCHANGED <<phase, refused, builder>>

\* The loop over the changes of an entry that stays: a modified leaf ends the
\* callback with SR_ERR_UNSUPPORTED, created leaves go to the builder, deleted
\* ones are ignored.
ModifiedEntry(e) ==
    LET r == run[e]
        c == cand[e]
        modified == {f \in Leaf : r[f] # NoLeaf /\ c[f] # NoLeaf /\ r[f] # c[f]}
    IN
    /\ r # NoEntry /\ c # NoEntry
    /\ \/ /\ modified # {}
          /\ Return("decide", FALSE)
       \/ /\ modified = {}
          /\ SetLeaves(c, {f \in Leaf : r[f] = NoLeaf /\ c[f] # NoLeaf})
          /\ UNCHANGED <<phase, refused, flags, xindex>>

NatCbChange ==
    /\ phase = "mapping"
    /\ \E e \in left :
          /\ left' = left \ {e}
          /\ CreatedEntry(e) \/ DeletedEntry(e) \/ ModifiedEntry(e)
    /\ UNCHANGED <<dsVars, table, restarts, hwVars>>

\* Mutant of WriteRc: the result of OM::write is dropped.
WriteRc_ignored(p, ok) == TRUE

\* Is the result of OM::write rc_t::OK?
WriteRc(p, ok) == ok \/ p \in natOk

\* if (create): build, write, enter into the table.
Create(i, ok) ==
    LET ns == build(builder) IN
    \/ /\ ns = NoPair
       /\ FailAfterLoop
       /\ UNCHANGED <<table, hwVars>>
    \/ /\ ns # NoPair
       /\ OM_write(i, ns, ok)
       /\ table' = IF WriteRc(ns, ok) THEN [table EXCEPT ![i] = ns] ELSE table
       /\ IF WriteRc(ns, ok) THEN Return("decide", TRUE) ELSE FailAfterLoop

\* Mutant of Remove: the table keeps the entry.
Remove_keepsTable(i, ok) ==
    /\ OM_remove(i, ok)
    /\ Return("decide", TRUE)
    /\ UNCHANGED table

\* else if (remove).
Remove(i, ok) ==
    /\ OM_remove(i, ok)
    /\ table' = [table EXCEPT ![i] = NoPair]
    /\ Return("decide", TRUE)

\* After the loop.  create, remove and xindex are not initialised: unless the
\* loop assigned them they read as any value in UninitBool and UninitIndex.
NatCbFinish ==
    /\ phase = "mapping"
    /\ left = {}
    /\ \E uc, ur \in UninitBool, ux \in UninitIndex, ok \in Outcome :
          LET create == flags.create \/ uc
              remove == flags.remove \/ ur
              i == IF xindex = NoIndex THEN ux ELSE xindex
          IN \/ create /\ Create(i, ok)
             \/ ~create /\ remove /\ Remove(i, ok)
             \/ /\ ~create /\ ~remove
                /\ Return("decide", TRUE)
                /\ UNCHANGED <<table, hwVars>>
    /\ UNCHANGED <<dsVars, left, restarts>>

\* All agreed.  The callback returns at once on SR_EV_APPLY.
CommitApply ==
    /\ phase = "decide"
    /\ ~refused
    /\ TRUE \in OtherVote
    /\ run' = cand
    /\ phase' = "idle"
    /\ UNCHANGED <<cand, refused, left, cbVars, table, restarts, hwVars>>

\* The callback refused, or another subscriber did after it (not
\* nat_instance_config_cb, which always agrees, but those of other modules).
\* On SR_EV_ABORT the callback returns at once, too.
CommitAbort ==
    /\ phase = "decide"
    /\ refused \/ FALSE \in OtherVote
    /\ phase' = "idle"
    /\ refused' = FALSE
    /\ cand' = run
    /\ left' = {}
    /\ UNCHANGED <<run, cbVars, table, restarts, hwVars>>

\* The plugin process starts again, after it crashed or was stopped between
\* commits: static_mapping_table is empty and VOM is filled from VPP.  A commit
\* in progress failed.
PluginRestart ==
    /\ phase \in {"idle", "crashed"}
    /\ restarts < MaxRestarts
    /\ restarts' = restarts + 1
    /\ phase' = "idle"
    /\ refused' = FALSE
    /\ cand' = run
    /\ left' = {}
    /\ table' = [i \in Index |-> NoPair]
    /\ OM_populate
    /\ UNCHANGED <<run, cbVars>>

Init ==
    /\ run = [e \in Entry |-> NoEntry]
    /\ cand = run
    /\ phase = "idle"
    /\ refused = FALSE
    /\ left = {}
    /\ builder = NoBuilder
    /\ flags = NoFlags
    /\ xindex = NoIndex
    /\ table = [i \in Index |-> NoPair]
    /\ restarts = 0
    /\ bootNat = {}
    /\ usrNat = {}
    /\ natOk = {}
    /\ vppNat = {}

Next ==
    \/ CommitStart
    \/ NatCbChange
    \/ NatCbFinish
    \/ CommitApply
    \/ CommitAbort
    \/ PluginRestart

Spec == Init /\ [][Next]_vars

-----------------------------------------------------------------------------
(* Properties.                                                             *)

\* The mapping an entry asks for, according to the comment above
\* nat_static_builder: the pair of source addresses or else that of destination
\* addresses; every other combination is invalid.
Wanted(c) ==
    IF c["isrc"] # NoLeaf /\ c["esrc"] # NoLeaf THEN <<c["isrc"], c["esrc"]>>
    ELSE IF c["idst"] # NoLeaf /\ c["edst"] # NoLeaf THEN <<c["idst"], c["edst"]>>
    ELSE NoPair

WantedMappings == {Wanted(run[e]) : e \in {x \in Entry : run[x] # NoEntry}}

\* "Valid pairs for static NAT are (internal_src address, external_src address),
\* (inernal_dest address, external_dest address)" (ietf_nat.cpp:74-77): between
\* commits that change one entry each, VPP has exactly the mappings the running
\* datastore asks for.  It is false of entries with a destination pair alone:
\* prefix::empty never holds, so the source pair is taken, which is 0.0.0.0 twice
\* (ietf_nat.cpp:94-100, sys_util.cpp:56-59).
MappingsMirrorRunning == phase = "idle" => vppNat = WantedMappings

\* What static_mapping_table records is a mapping VPP has, and that removing the
\* index takes away again, whatever failed, was refused by others or read
\* uninitialised, and however many entries a commit changes: the table is
\* written only after OM::write succeeded (ietf_nat.cpp:235-246).
TableIsMapped ==
    \A i \in Index : table[i] # NoPair => /\ table[i] \in vppNat
                                          /\ <<i, table[i]>> \in usrNat

\* An accepted commit whose one change is a new entry has put the pair of the
\* entry's source addresses into VPP, whatever the uninitialised locals read as
\* and whatever failed before: create is tested before remove, xindex was
\* assigned, and OM::write is skipped only if VPP has the mapping
\* (ietf_nat.cpp:222-243).
AcceptedEntryIsMapped ==
    [][CommitApply =>
          \A e \in Entry :
              /\ run[e] = NoEntry /\ {x \in Entry : run[x] # cand[x]} = {e}
              /\ cand[e]["isrc"] # NoLeaf /\ cand[e]["esrc"] # NoLeaf
              => /\ Wanted(cand[e]) \in vppNat'
                 /\ table'[e[2]] = Wanted(cand[e])]_vars
=============================================================================
