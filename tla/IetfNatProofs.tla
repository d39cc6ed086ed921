--------------------------- MODULE IetfNatProofs ---------------------------
(***************************************************************************)
(* The NAT mapping callback, for any instances, indexes, addresses and     *)
(* entries.  For commits of any size, failing commands, refusals by        *)
(* others, uninitialised locals and restarts: type correctness, the        *)
(* agreement of static_mapping_table with VPP, and what an accepted new    *)
(* entry has done.  For commits of one entry each that nothing disturbs,   *)
(* to entries with a pair of source addresses: VPP has the mappings that   *)
(* running asks for.                                                       *)
(***************************************************************************)
EXTENDS IetfNat, FiniteSetTheorems, TLAPS

\* What VOM takes for pushed is in VPP; what an index is recorded with is
\* owned by its key and was pushed.
Recorded ==
    /\ natOk \subseteq vppNat
    /\ \A i \in Index : table[i] # NoPair => /\ <<i, table[i]>> \in usrNat
                                             /\ table[i] \in natOk

Inv == TypeOK /\ Recorded

\* What the builder makes of leaves that are typed (ietf_nat.cpp:89-104).
LEMMA BuildType ==
    ASSUME NEW b, \A f \in AddrLeaf : b[f] \in Addr \cup {NoLeaf}
    PROVE  build(b) \in Pair \cup {NoPair}
  BY NatAssumption
  DEF build, HasPair, prefix_empty, PairOf, prefix_address, Pair, AddrLeaf

\* A return of the callback leaves its locals typed (ietf_nat.cpp:250-257).
LEMMA ReturnType ==
    ASSUME NEW next, NEW rc \in BOOLEAN, Return(next, rc)
    PROVE  /\ phase' = next
           /\ refused' \in BOOLEAN
           /\ builder' \in [Leaf -> Addr \cup {"static", "dynamic", NoLeaf}]
           /\ \A f \in AddrLeaf : builder'[f] \in Addr \cup {NoLeaf}
           /\ flags' \in [create : BOOLEAN, remove : BOOLEAN]
           /\ xindex' \in Index \cup {NoIndex}
  BY DEF Return, NoBuilder, NoFlags, Leaf, AddrLeaf

\* Leaves of the datastore put into the builder keep it typed
\* (ietf_nat.cpp:181-200).
LEMMA SetLeavesType ==
    ASSUME TypeOK, NEW c \in Config, NEW fs, SetLeaves(c, fs)
    PROVE  /\ builder' \in [Leaf -> Addr \cup {"static", "dynamic", NoLeaf}]
           /\ \A f \in AddrLeaf : builder'[f] \in Addr \cup {NoLeaf}
  <1>1. builder' \in [Leaf -> Addr \cup {"static", "dynamic", NoLeaf}]
    BY NatAssumption DEF TypeOK, SetLeaves
  <1>2. \A f \in AddrLeaf : builder'[f] \in Addr \cup {NoLeaf}
    BY NatAssumption DEF TypeOK, SetLeaves, Leaf
  <1>3. QED BY <1>1, <1>2

\* The loop over the changes touches locals only (ietf_nat.cpp:178-218).
LEMMA ChangeOK == Inv /\ NatCbChange => Inv'
  <1>1. SUFFICES ASSUME Inv, NatCbChange PROVE Inv'
    OBVIOUS
  <1>2. PICK e \in left : /\ left' = left \ {e}
                          /\ CreatedEntry(e) \/ DeletedEntry(e) \/ ModifiedEntry(e)
    BY <1>1 DEF NatCbChange
  <1>3. e \in Entry /\ e[2] \in Index
    BY <1>1 DEF Inv, TypeOK, Entry
  <1>4. Recorded'
    BY <1>1 DEF Inv, Recorded, NatCbChange, hwVars
  <1>5. /\ phase' \in {"idle", "mapping", "decide", "crashed"}
        /\ refused' \in BOOLEAN
        /\ builder' \in [Leaf -> Addr \cup {"static", "dynamic", NoLeaf}]
        /\ \A f \in AddrLeaf : builder'[f] \in Addr \cup {NoLeaf}
        /\ flags' \in [create : BOOLEAN, remove : BOOLEAN]
        /\ xindex' \in Index \cup {NoIndex}
    <2>1. CASE CreatedEntry(e)
      <3>1. cand[e] \in Config
        BY <1>1, <1>3, <2>1 DEF Inv, TypeOK, CreatedEntry
      <3>2. QED BY <1>1, <1>3, <2>1, <3>1, SetLeavesType DEF Inv, TypeOK, CreatedEntry
    <2>2. CASE DeletedEntry(e)
      BY <1>1, <1>3, <2>2 DEF Inv, TypeOK, DeletedEntry
    <2>3. CASE ModifiedEntry(e)
      <3>1. cand[e] \in Config
        BY <1>1, <1>3, <2>3 DEF Inv, TypeOK, ModifiedEntry
      <3>2. CASE Return("decide", FALSE)
        BY <3>2, ReturnType
      <3>3. CASE ~Return("decide", FALSE)
        BY <1>1, <2>3, <3>1, <3>3, SetLeavesType DEF Inv, TypeOK, ModifiedEntry
      <3>4. QED BY <3>2, <3>3
    <2>4. QED BY <1>2, <2>1, <2>2, <2>3
  <1>6. QED BY <1>1, <1>2, <1>4, <1>5 DEF Inv, TypeOK, NatCbChange, dsVars, hwVars

\* create: an index is entered with a mapping that was pushed
\* (ietf_nat.cpp:222-243).
LEMMA CreateOK ==
    ASSUME Inv, NEW i \in Index, NEW ok \in BOOLEAN, Create(i, ok)
    PROVE  /\ Recorded'
           /\ \E next \in {"decide", "crashed"}, rc \in BOOLEAN : Return(next, rc)
           /\ table' \in [Index -> Pair \cup {NoPair}]
           /\ bootNat' \in SUBSET Pair
           /\ usrNat' \in SUBSET (Index \X Pair)
           /\ natOk' \in SUBSET Pair
           /\ vppNat' \in SUBSET Pair
  <1>1. CASE build(builder) = NoPair /\ FailAfterLoop /\ UNCHANGED <<table, hwVars>>
    BY <1>1 DEF FailAfterLoop, Inv, TypeOK, Recorded, hwVars
  <1>2. CASE ~(build(builder) = NoPair /\ FailAfterLoop /\ UNCHANGED <<table, hwVars>>)
    <2> DEFINE ns == build(builder)
    <2>1. /\ ns # NoPair
          /\ OM_write(i, ns, ok)
          /\ table' = IF WriteRc(ns, ok) THEN [table EXCEPT ![i] = ns] ELSE table
          /\ IF WriteRc(ns, ok) THEN Return("decide", TRUE) ELSE FailAfterLoop
      BY <1>2 DEF Create
    <2>2. ns \in Pair
      BY <2>1, BuildType DEF Inv, TypeOK
    <2> HIDE DEF ns
    <2>3. WriteRc(ns, ok) \in BOOLEAN
      BY DEF WriteRc
    <2>4. /\ table' \in [Index -> Pair \cup {NoPair}]
          /\ bootNat' \in SUBSET Pair
          /\ usrNat' \in SUBSET (Index \X Pair)
          /\ natOk' \in SUBSET Pair
          /\ vppNat' \in SUBSET Pair
      BY <2>1, <2>2 DEF Inv, TypeOK, OM_write
    <2>5. natOk' \subseteq vppNat'
      BY <2>1 DEF Inv, Recorded, OM_write
    <2>6. ASSUME NEW j \in Index, table'[j] # NoPair
          PROVE  <<j, table'[j]>> \in usrNat' /\ table'[j] \in natOk'
      BY <2>1, <2>6 DEF Inv, TypeOK, Recorded, OM_write, WriteRc
    <2>7. QED BY <2>1, <2>3, <2>4, <2>5, <2>6 DEF Recorded, FailAfterLoop
  <1>3. QED BY <1>1, <1>2

\* remove: what other indexes are recorded with keeps an owner and is not swept
\* (ietf_nat.cpp:244-248).
LEMMA RemoveOK ==
    ASSUME Inv, NEW i \in Index, NEW ok \in BOOLEAN, Remove(i, ok)
    PROVE  /\ Recorded'
           /\ Return("decide", TRUE)
           /\ table' \in [Index -> Pair \cup {NoPair}]
           /\ bootNat' \in SUBSET Pair
           /\ usrNat' \in SUBSET (Index \X Pair)
           /\ natOk' \in SUBSET Pair
           /\ vppNat' \in SUBSET Pair
  <1> DEFINE gone == Owned(usrNat) \ Owned(usrNat')
  <1>1. /\ usrNat' = {o \in usrNat : o[1] # i}
        /\ natOk' = natOk \ gone
        /\ vppNat' = IF ok THEN vppNat \ (gone \cap natOk) ELSE vppNat
        /\ bootNat' = bootNat
        /\ table' = [table EXCEPT ![i] = NoPair]
        /\ Return("decide", TRUE)
    BY DEF Remove, OM_remove
  <1>2. \A o \in usrNat' : o[2] \notin gone
    BY DEF Owned
  <1> HIDE DEF gone
  <1>3. /\ table' \in [Index -> Pair \cup {NoPair}]
        /\ bootNat' \in SUBSET Pair
        /\ usrNat' \in SUBSET (Index \X Pair)
        /\ natOk' \in SUBSET Pair
        /\ vppNat' \in SUBSET Pair
    BY <1>1 DEF Inv, TypeOK
  <1>4. natOk' \subseteq vppNat'
    BY <1>1 DEF Inv, Recorded
  <1>5. ASSUME NEW j \in Index, table'[j] # NoPair
        PROVE  <<j, table'[j]>> \in usrNat' /\ table'[j] \in natOk'
    <2>1. j # i /\ table'[j] = table[j]
      BY <1>1, <1>5 DEF Inv, TypeOK
    <2>2. <<j, table[j]>> \in usrNat /\ table[j] \in natOk
      BY <1>5, <2>1 DEF Inv, Recorded
    <2>3. <<j, table[j]>> \in usrNat'
      BY <1>1, <2>1, <2>2
    <2>4. table[j] \notin gone
      BY <1>2, <2>3
    <2>5. QED BY <1>1, <2>1, <2>2, <2>3, <2>4
  <1>6. QED BY <1>1, <1>3, <1>4, <1>5 DEF Recorded

\* The callback's end (ietf_nat.cpp:222-257).
LEMMA FinishOK == Inv /\ NatCbFinish => Inv'
  <1>1. SUFFICES ASSUME Inv, NatCbFinish PROVE Inv'
    OBVIOUS
  <1>2. PICK ux \in UninitIndex, ok \in Outcome :
          LET i == IF xindex = NoIndex THEN ux ELSE xindex
          IN \/ Create(i, ok)
             \/ Remove(i, ok)
             \/ Return("decide", TRUE) /\ UNCHANGED <<table, hwVars>>
    BY <1>1 DEF NatCbFinish
  <1> DEFINE i == IF xindex = NoIndex THEN ux ELSE xindex
  <1>3. i \in Index /\ ok \in BOOLEAN
    BY <1>1, NatAssumption DEF Inv, TypeOK
  <1>4. \/ Create(i, ok)
        \/ Remove(i, ok)
        \/ Return("decide", TRUE) /\ UNCHANGED <<table, hwVars>>
    BY <1>2
  <1> HIDE DEF i
  <1>5. /\ Recorded'
        /\ \E next \in {"decide", "crashed"}, rc \in BOOLEAN : Return(next, rc)
        /\ table' \in [Index -> Pair \cup {NoPair}]
        /\ bootNat' \in SUBSET Pair
        /\ usrNat' \in SUBSET (Index \X Pair)
        /\ natOk' \in SUBSET Pair
        /\ vppNat' \in SUBSET Pair
    <2>1. CASE Create(i, ok)
      BY <1>1, <1>3, <2>1, CreateOK
    <2>2. CASE Remove(i, ok)
      BY <1>1, <1>3, <2>2, RemoveOK
    <2>3. CASE Return("decide", TRUE) /\ UNCHANGED <<table, hwVars>>
      BY <1>1, <2>3 DEF Inv, TypeOK, Recorded, hwVars
    <2>4. QED BY <1>4, <2>1, <2>2, <2>3
  <1>6. PICK next \in {"decide", "crashed"}, rc \in BOOLEAN : Return(next, rc)
    BY <1>5
  <1>7. TypeOK'
    BY <1>1, <1>5, <1>6, ReturnType DEF Inv, TypeOK, NatCbFinish, dsVars
  <1>8. QED BY <1>5, <1>7 DEF Inv

\* A restart empties the table (sc_plugins.c:116-133).
LEMMA RestartOK == Inv /\ PluginRestart => Inv'
  <1>1. SUFFICES ASSUME Inv, PluginRestart PROVE Inv'
    OBVIOUS
  <1>2. Recorded'
    BY <1>1 DEF Inv, Recorded, PluginRestart, OM_populate
  <1>3. restarts' \in 0 .. MaxRestarts
    BY <1>1, NatAssumption DEF Inv, TypeOK, PluginRestart
  <1>4. TypeOK'
    BY <1>1, <1>3 DEF Inv, TypeOK, PluginRestart, OM_populate, cbVars
  <1>5. QED BY <1>2, <1>4 DEF Inv

\* Inv holds at the start and every step of the commit keeps it.
LEMMA InvHolds == Spec => []Inv
  <1>1. Init => Inv
    <2>1. SUFFICES ASSUME Init PROVE Inv
      OBVIOUS
    <2>2. run \in [Entry -> Config \cup {NoEntry}] /\ cand \in [Entry -> Config \cup {NoEntry}]
      BY <2>1 DEF Init
    <2>3. /\ builder \in [Leaf -> Addr \cup {"static", "dynamic", NoLeaf}]
          /\ \A f \in AddrLeaf : builder[f] \in Addr \cup {NoLeaf}
      BY <2>1 DEF Init, NoBuilder, Leaf
    <2>4. flags \in [create : BOOLEAN, remove : BOOLEAN] /\ table \in [Index -> Pair \cup {NoPair}]
      BY <2>1 DEF Init, NoFlags
    <2>5. restarts \in 0 .. MaxRestarts
      BY <2>1, NatAssumption DEF Init
    <2>6. TypeOK
      BY <2>1, <2>2, <2>3, <2>4, <2>5 DEF Init, TypeOK
    <2>7. Recorded
      BY <2>1 DEF Init, Recorded
    <2>8. QED BY <2>6, <2>7 DEF Inv
  <1>2. Inv /\ [Next]_vars => Inv'
    <2>1. SUFFICES ASSUME Inv, [Next]_vars PROVE Inv'
      OBVIOUS
    <2>2. CASE CommitStart
      BY <2>1, <2>2 DEF Inv, TypeOK, Recorded, CommitStart, cbVars, hwVars
    <2>3. CASE NatCbChange
      BY <2>1, <2>3, ChangeOK
    <2>4. CASE NatCbFinish
      BY <2>1, <2>4, FinishOK
    <2>5. CASE CommitApply
      BY <2>1, <2>5 DEF Inv, TypeOK, Recorded, CommitApply, cbVars, hwVars
    <2>6. CASE CommitAbort
      BY <2>1, <2>6 DEF Inv, TypeOK, Recorded, CommitAbort, cbVars, hwVars
    <2>7. CASE PluginRestart
      BY <2>1, <2>7, RestartOK
    <2>8. CASE UNCHANGED vars
      BY <2>1, <2>8 DEF Inv, TypeOK, Recorded, vars, dsVars, cbVars, hwVars
    <2>9. QED BY <2>1, <2>2, <2>3, <2>4, <2>5, <2>6, <2>7, <2>8 DEF Next
  <1>3. QED BY <1>1, <1>2, PTL DEF Spec

\* The NAT callback keeps every variable in its type, in particular the mappings
\* it hands to VOM, whatever it reads uninitialised (ietf_nat.cpp:152-257).
THEOREM NatTypeCorrect == Spec => []TypeOK
  BY InvHolds, PTL DEF Inv

\* static_mapping_table records only mappings that VPP has and that the index
\* owns (ietf_nat.cpp:235-246): failed writes leave it alone, and removing an
\* index spares mappings that other indexes share.
THEOREM TableStaysMapped == Spec => []TableIsMapped
  <1>1. Inv => TableIsMapped
    BY DEF Inv, Recorded, TableIsMapped
  <1>2. QED BY <1>1, InvHolds, PTL

-----------------------------------------------------------------------------
(* The commit whose one change is a new entry with a source pair.          *)

Changed == {x \in Entry : run[x] # cand[x]}

\* Entry e is what AcceptedEntryIsMapped is about.
OneNew(e) ==
    /\ run[e] = NoEntry /\ Changed = {e}
    /\ cand[e]["isrc"] # NoLeaf /\ cand[e]["esrc"] # NoLeaf

Fresh == builder = NoBuilder /\ flags = NoFlags /\ xindex = NoIndex

\* The loop has seen entry e, and nothing else.
Seen(e) ==
    /\ \A f \in {"isrc", "esrc"} : builder[f] = cand[e][f]
    /\ flags.create
    /\ xindex = e[2]

Mapped(e) == Wanted(cand[e]) \in vppNat /\ table[e[2]] = Wanted(cand[e])

\* The locals belong to one call of the callback, and the callback visits what
\* the commit changes and nothing else: if that is one new entry then its leaves
\* are in the builder once it was visited, and it is mapped if the callback
\* agreed.
History ==
    /\ phase # "mapping" => Fresh
    /\ phase = "mapping" =>
          \A e \in Entry :
              OneNew(e) => (left = {e} /\ Fresh) \/ (left = {} /\ Seen(e))
    /\ phase = "decide" /\ ~refused => \A e \in Entry : OneNew(e) => Mapped(e)

\* A builder with the source addresses of a new entry makes nothing else of them
\* than the pair the entry asks for (ietf_nat.cpp:89-104).
LEMMA BuildWanted ==
    ASSUME TypeOK, NEW e \in Entry, OneNew(e), Seen(e)
    PROVE  build(builder) \in {Wanted(cand[e]), NoPair}
  BY DEF build, HasPair, prefix_empty, PairOf, prefix_address, Wanted, Seen, OneNew

\* A return of the callback, with what it promises about a new entry.
LEMMA ReturnHistory ==
    ASSUME NEW next \in {"decide", "crashed"}, NEW rc \in BOOLEAN, Return(next, rc),
           rc /\ next = "decide" => (\A e \in Entry : OneNew(e) => Mapped(e))'
    PROVE  History'
  <1>1. Fresh' /\ phase' = next /\ refused' = ~rc
    BY DEF Return, Fresh, NoBuilder, NoFlags
  <1>2. QED BY <1>1 DEF History

\* The loop over the changes (ietf_nat.cpp:178-218).
LEMMA ChangeHistory == Inv /\ History /\ NatCbChange => History'
  <1>1. SUFFICES ASSUME Inv, History, NatCbChange PROVE History'
    OBVIOUS
  <1>2. PICK x \in left : /\ left' = left \ {x}
                          /\ CreatedEntry(x) \/ DeletedEntry(x) \/ ModifiedEntry(x)
    BY <1>1 DEF NatCbChange
  <1>3. /\ phase = "mapping" /\ UNCHANGED <<run, cand>>
    BY <1>1 DEF NatCbChange, dsVars
  <1>4. CASE Return("decide", FALSE)
    BY <1>4, ReturnHistory
  <1>5. CASE ~Return("decide", FALSE)
    <2>1. phase' = "mapping"
      BY <1>2, <1>3, <1>5 DEF CreatedEntry, DeletedEntry, ModifiedEntry
    <2>2. ASSUME NEW e \in Entry, OneNew(e)'
          PROVE  left' = {} /\ Seen(e)'
      <3>1. OneNew(e)
        BY <1>3, <2>2 DEF OneNew, Changed
      <3>2. x = e /\ left = {e} /\ Fresh
        BY <1>1, <1>2, <1>3, <3>1 DEF History
      <3>3. CreatedEntry(e)
        BY <1>2, <3>1, <3>2 DEF OneNew, DeletedEntry, ModifiedEntry
      <3>4. /\ builder' = [f \in Leaf |-> IF f \in {g \in Leaf : cand[e][g] # NoLeaf}
                                          THEN cand[e][f] ELSE builder[f]]
            /\ xindex' = e[2]
            /\ flags' = [flags EXCEPT !.create = TRUE]
        BY <3>3 DEF CreatedEntry, SetLeaves
      <3>5. \A f \in {"isrc", "esrc"} : builder'[f] = cand'[e][f]
        BY <1>3, <3>1, <3>4 DEF OneNew, Leaf, AddrLeaf
      <3>6. flags'.create
        BY <1>1, <3>4 DEF Inv, TypeOK
      <3>7. QED BY <1>2, <3>2, <3>4, <3>5, <3>6 DEF Seen
    <2>3. QED BY <2>1, <2>2 DEF History
  <1>6. QED BY <1>4, <1>5

\* After the loop: a new entry is created under its own index, and agreed to
\* only if its mapping is in VPP (ietf_nat.cpp:222-257).
LEMMA FinishHistory == Inv /\ History /\ NatCbFinish => History'
  <1>1. SUFFICES ASSUME Inv, History, NatCbFinish PROVE History'
    OBVIOUS
  <1>2. PICK uc \in UninitBool, ur \in UninitBool, ux \in UninitIndex, ok \in Outcome :
          LET create == flags.create \/ uc
              remove == flags.remove \/ ur
              i == IF xindex = NoIndex THEN ux ELSE xindex
          IN \/ create /\ Create(i, ok)
             \/ ~create /\ remove /\ Remove(i, ok)
             \/ /\ ~create /\ ~remove
                /\ Return("decide", TRUE)
                /\ UNCHANGED <<table, hwVars>>
    BY <1>1 DEF NatCbFinish
  <1> DEFINE i == IF xindex = NoIndex THEN ux ELSE xindex
  <1>3. /\ i \in Index /\ ok \in BOOLEAN
        /\ phase = "mapping" /\ left = {} /\ UNCHANGED <<run, cand>>
    BY <1>1, NatAssumption DEF Inv, TypeOK, NatCbFinish, dsVars
  <1>4. ASSUME NEW e \in Entry, OneNew(e)' \/ OneNew(e)
        PROVE  OneNew(e) /\ Seen(e) /\ i = e[2] /\ Create(i, ok)
    <2>1. OneNew(e)
      BY <1>3, <1>4 DEF OneNew, Changed
    <2>2. Seen(e)
      BY <1>1, <1>3, <2>1 DEF History
    <2>3. e[2] \in Index
      BY DEF Entry
    <2>4. i = e[2]
      BY <2>2, <2>3, NatAssumption DEF Seen
    <2>5. QED BY <1>2, <2>1, <2>2, <2>4 DEF Seen
  <1>5. CASE Create(i, ok)
    <2>1. CASE FailAfterLoop
      BY <2>1, ReturnHistory DEF FailAfterLoop
    <2>2. CASE ~FailAfterLoop
      <3> DEFINE ns == build(builder)
      <3>1. /\ ns # NoPair
            /\ OM_write(i, ns, ok)
            /\ WriteRc(ns, ok)
            /\ table' = [table EXCEPT ![i] = ns]
            /\ Return("decide", TRUE)
        BY <1>5, <2>2 DEF Create
      <3>2. ASSUME NEW e \in Entry, OneNew(e)' PROVE Mapped(e)'
        <4>1. OneNew(e) /\ Seen(e) /\ i = e[2]
          BY <1>4, <3>2
        <4>2. ns = Wanted(cand[e])
          BY <1>1, <3>1, <4>1, BuildWanted DEF Inv
        <4>3. Wanted(cand[e])' = Wanted(cand[e])
          BY <1>3 DEF Wanted
        <4>4. ns \in vppNat'
          BY <1>1, <3>1 DEF Inv, Recorded, OM_write, WriteRc
        <4>5. table'[e[2]] = ns
          BY <1>1, <1>3, <3>1, <4>1 DEF Inv, TypeOK
        <4>6. QED BY <4>2, <4>3, <4>4, <4>5 DEF Mapped
      <3>3. QED BY <3>1, <3>2, ReturnHistory
    <2>3. QED BY <2>1, <2>2
  <1>6. CASE ~Create(i, ok)
    <2>1. Return("decide", TRUE)
      BY <1>2, <1>6 DEF Remove
    <2>2. \A e \in Entry : ~OneNew(e)'
      BY <1>4, <1>6
    <2>3. QED BY <2>1, <2>2, ReturnHistory
  <1>7. QED BY <1>5, <1>6

\* History holds at the start and every step of the commit keeps it.
LEMMA HistoryHolds == Spec => []History
  <1>1. Init => History
    BY DEF Init, History, Fresh
  <1>2. Inv /\ History /\ [Next]_vars => History'
    <2>1. SUFFICES ASSUME Inv, History, [Next]_vars PROVE History'
      OBVIOUS
    <2>2. CASE CommitStart
      <3>1. /\ phase' = "mapping" /\ left' = Changed'
            /\ phase = "idle" /\ UNCHANGED <<builder, flags, xindex>>
        BY <2>2 DEF CommitStart, Changed, cbVars
      <3>2. Fresh'
        BY <2>1, <3>1 DEF History, Fresh, NoBuilder, NoFlags
      <3>3. QED BY <3>1, <3>2 DEF History, OneNew
    <2>3. CASE NatCbChange
      BY <2>1, <2>3, ChangeHistory
    <2>4. CASE NatCbFinish
      BY <2>1, <2>4, FinishHistory
    <2>5. CASE CommitApply \/ CommitAbort \/ PluginRestart
      <3>1. phase' = "idle" /\ phase # "mapping" /\ UNCHANGED <<builder, flags, xindex>>
        BY <2>5 DEF CommitApply, CommitAbort, PluginRestart, cbVars
      <3>2. QED BY <2>1, <3>1 DEF History, Fresh, NoBuilder, NoFlags
    <2>6. CASE UNCHANGED vars
      BY <2>1, <2>6
      DEF History, Fresh, NoBuilder, NoFlags, OneNew, Changed, Seen, Mapped, Wanted,
          vars, dsVars, cbVars, hwVars
    <2>7. QED BY <2>1, <2>2, <2>3, <2>4, <2>5, <2>6 DEF Next
  <1>3. QED BY <1>1, <1>2, InvHolds, PTL DEF Spec

\* An accepted commit whose one change is a new entry with a source pair has put
\* that pair into VPP and into static_mapping_table (ietf_nat.cpp:222-243),
\* whatever the uninitialised locals read as, and whatever failed, was refused or
\* restarted before.
THEOREM NewEntryIsMapped == Spec => AcceptedEntryIsMapped
  <1> DEFINE Accepted(e) ==
          /\ run[e] = NoEntry /\ {x \in Entry : run[x] # cand[x]} = {e}
          /\ cand[e]["isrc"] # NoLeaf /\ cand[e]["esrc"] # NoLeaf
          => /\ Wanted(cand[e]) \in vppNat'
             /\ table'[e[2]] = Wanted(cand[e])
  <1>1. History /\ CommitApply => \A e \in Entry : Accepted(e)
    BY DEF History, OneNew, Changed, Mapped, CommitApply, hwVars
  <1>2. History /\ [Next]_vars => [CommitApply => \A e \in Entry : Accepted(e)]_vars
    BY <1>1
  <1>3. QED BY <1>2, HistoryHolds, PTL DEF Spec, AcceptedEntryIsMapped

-----------------------------------------------------------------------------
(* Commits of one entry each, with nothing failing.                        *)

\* Every entry has a pair of source addresses.  For one with a pair of destination
\* addresses alone, also valid, nat_static_builder makes another mapping than the
\* entry asks for (ietf_nat.cpp:94-100, sys_util.cpp:56-59).
SourcePairs == \A c \in Config : c["isrc"] # NoLeaf /\ c["esrc"] # NoLeaf

\* What MappingsMirrorRunning is proved under: source pairs, indexes that differ,
\* one change per commit, uninitialised bools that read as FALSE, commands that
\* succeed, no refusal by others and no restart.
Undisturbed ==
    /\ SourcePairs
    /\ IsFiniteSet(Entry)
    /\ \A d, e \in Entry : d[2] = e[2] => d = e
    /\ UninitBool = {FALSE}
    /\ Outcome = {TRUE}
    /\ OtherVote = {TRUE}
    /\ MaxChanges = 1
    /\ MaxRestarts = 0

\* VOM and VPP have the mappings datastore d asks for, each owned by the index
\* of its entry.
Mirrors(d) ==
    /\ bootNat = {}
    /\ usrNat = {<<e[2], Wanted(d[e])>> : e \in {x \in Entry : d[x] # NoEntry}}
    /\ natOk = {o[2] : o \in usrNat}
    /\ vppNat = natOk

\* What the callback knows of entry e, the only one that differs, once it has
\* visited it.
Visited(e) ==
    \/ run[e] = NoEntry /\ Seen(e) /\ ~flags.remove
    \/ /\ cand[e] = NoEntry /\ xindex = e[2]
       /\ flags = [create |-> FALSE, remove |-> TRUE]
    \/ /\ run[e] # NoEntry /\ cand[e] # NoEntry /\ flags = NoFlags
       /\ Wanted(run[e]) = Wanted(cand[e])

\* VOM and VPP follow the running datastore, or the candidate from the moment the
\* callback agreed to it.
Follows ==
    /\ phase # "mapping" => Fresh
    /\ phase = "mapping" =>
          \E e \in Entry : /\ Changed = {e}
                           /\ (left = {e} /\ Fresh) \/ (left = {} /\ Visited(e))
    /\ IF phase = "decide" /\ ~refused THEN Mirrors(cand) ELSE Mirrors(run)

\* Every entry asks for a pair of addresses.
LEMMA WantedType ==
    ASSUME Undisturbed, NEW c \in Config
    PROVE  Wanted(c) = <<c["isrc"], c["esrc"]>> /\ Wanted(c) \in Pair
  BY NatAssumption DEF Undisturbed, SourcePairs, Wanted, Pair, AddrLeaf

\* A set that is not empty and has at most one element is a singleton.
LEMMA AtMostOne ==
    ASSUME NEW S, IsFiniteSet(S), S # {}, Cardinality(S) <= 1
    PROVE  \E x \in S : S = {x}
  <1>1. PICK x : x \in S
    OBVIOUS
  <1>2. /\ IsFiniteSet(S \ {x})
        /\ Cardinality(S \ {x}) = Cardinality(S) - 1
        /\ Cardinality(S) \in Nat /\ Cardinality(S \ {x}) \in Nat
    BY <1>1, FS_RemoveElement, FS_CardinalityType
  <1>3. Cardinality(S \ {x}) = 0
    BY <1>2
  <1>4. S \ {x} = {}
    BY <1>2, <1>3, FS_EmptySet
  <1>5. QED BY <1>1, <1>4

\* A commit starts with one entry that differs.
LEMMA StartFollows == Undisturbed /\ Inv /\ Follows /\ CommitStart => Follows'
  <1>1. SUFFICES ASSUME Undisturbed, Inv, Follows, CommitStart PROVE Follows'
    OBVIOUS
  <1>2. /\ left' = Changed' /\ left' # {} /\ Cardinality(left') <= 1
        /\ phase = "idle" /\ phase' = "mapping"
        /\ UNCHANGED <<run, builder, flags, xindex, bootNat, usrNat, natOk, vppNat>>
    BY <1>1 DEF CommitStart, Changed, cbVars, hwVars, Undisturbed
  <1>3. IsFiniteSet(left') /\ left' \subseteq Entry
    <2>1. left' \subseteq Entry
      BY <1>1 DEF CommitStart
    <2>2. QED BY <1>1, <2>1, FS_Subset DEF Undisturbed
  <1>4. PICK e \in Entry : left' = {e}
    BY <1>2, <1>3, AtMostOne
  <1>5. Fresh'
    BY <1>1, <1>2 DEF Follows, Fresh, NoBuilder, NoFlags
  <1>6. Mirrors(run)'
    BY <1>1, <1>2 DEF Follows, Mirrors, Wanted
  <1>7. QED BY <1>2, <1>4, <1>5, <1>6 DEF Follows

\* The loop: the one entry is visited, or its modification refused
\* (ietf_nat.cpp:178-218).
LEMMA ChangeFollows == Undisturbed /\ Inv /\ Follows /\ NatCbChange => Follows'
  <1>1. SUFFICES ASSUME Undisturbed, Inv, Follows, NatCbChange PROVE Follows'
    OBVIOUS
  <1>2. PICK x \in left : /\ left' = left \ {x}
                          /\ CreatedEntry(x) \/ DeletedEntry(x) \/ ModifiedEntry(x)
    BY <1>1 DEF NatCbChange
  <1>3. /\ phase = "mapping"
        /\ UNCHANGED <<run, cand, bootNat, usrNat, natOk, vppNat>>
    BY <1>1 DEF NatCbChange, dsVars, hwVars
  <1>4. Mirrors(run)'
    BY <1>1, <1>3 DEF Follows, Mirrors, Wanted
  <1>5. PICK e \in Entry : Changed = {e} /\ left = {e} /\ Fresh
    BY <1>1, <1>2, <1>3 DEF Follows
  <1>6. x = e /\ left' = {} /\ Changed' = {e}
    BY <1>2, <1>3, <1>5 DEF Changed
  <1>7. CASE Return("decide", FALSE)
    BY <1>4, <1>7 DEF Follows, Return, Fresh, NoBuilder, NoFlags
  <1>8. CASE ~Return("decide", FALSE)
    <2>1. phase' = "mapping"
      BY <1>2, <1>3, <1>8 DEF CreatedEntry, DeletedEntry, ModifiedEntry
    <2>2. Visited(e)'
      <3>1. CASE CreatedEntry(e)
        <4>1. cand[e] \in Config /\ run[e] = NoEntry
          BY <1>1, <3>1 DEF Inv, TypeOK, CreatedEntry
        <4>2. /\ builder' = [f \in Leaf |-> IF f \in {g \in Leaf : cand[e][g] # NoLeaf}
                                            THEN cand[e][f] ELSE builder[f]]
              /\ xindex' = e[2]
              /\ flags' = [flags EXCEPT !.create = TRUE]
          BY <3>1 DEF CreatedEntry, SetLeaves
        <4>3. \A f \in {"isrc", "esrc"} : builder'[f] = cand'[e][f]
          BY <1>1, <1>3, <4>1, <4>2 DEF Undisturbed, SourcePairs, Leaf, AddrLeaf
        <4>4. flags'.create /\ ~flags'.remove
          BY <1>5, <4>2 DEF Fresh, NoFlags
        <4>5. QED BY <1>3, <4>1, <4>2, <4>3, <4>4 DEF Visited, Seen
      <3>2. CASE DeletedEntry(e)
        <4>1. flags' = [create |-> FALSE, remove |-> TRUE]
          BY <1>5, <3>2 DEF DeletedEntry, Fresh, NoFlags
        <4>2. QED BY <1>3, <3>2, <4>1 DEF DeletedEntry, Visited
      <3>3. CASE ModifiedEntry(e)
        <4>1. /\ run[e] \in Config /\ cand[e] \in Config
              /\ run[e] # NoEntry /\ cand[e] # NoEntry
          BY <1>1, <3>3 DEF Inv, TypeOK, ModifiedEntry
        <4>2. /\ {f \in Leaf : /\ run[e][f] # NoLeaf /\ cand[e][f] # NoLeaf
                               /\ run[e][f] # cand[e][f]} = {}
              /\ flags' = flags
          BY <1>8, <3>3 DEF ModifiedEntry
        <4>3. run[e]["isrc"] = cand[e]["isrc"] /\ run[e]["esrc"] = cand[e]["esrc"]
          BY <1>1, <4>1, <4>2 DEF Undisturbed, SourcePairs, Leaf, AddrLeaf
        <4>4. Wanted(run[e]) = Wanted(cand[e])
          BY <1>1, <4>1, <4>3, WantedType
        <4>5. Wanted(run[e])' = Wanted(cand[e])'
          BY <1>3, <4>4 DEF Wanted
        <4>6. flags' = NoFlags /\ NoFlags' = NoFlags
          BY <1>5, <4>2 DEF Fresh, NoFlags
        <4>7. QED BY <1>3, <4>1, <4>5, <4>6 DEF Visited
      <3>4. QED BY <1>2, <1>6, <3>1, <3>2, <3>3
    <2>3. QED BY <1>4, <1>6, <2>1, <2>2 DEF Follows
  <1>9. QED BY <1>7, <1>8

\* Writing the mapping of a new entry (ietf_nat.cpp:222-243).
LEMMA CreateMirrors ==
    ASSUME Undisturbed, Inv, NEW e \in Entry, Changed = {e}, run[e] = NoEntry,
           Mirrors(run), OM_write(e[2], Wanted(cand[e]), TRUE), UNCHANGED cand
    PROVE  Mirrors(cand)'
  <1> DEFINE p == Wanted(cand[e])
  <1>1. /\ bootNat' = {}
        /\ usrNat' = usrNat \cup {<<e[2], p>>}
        /\ natOk' = natOk \cup {p}
        /\ vppNat' = natOk'
    BY DEF OM_write, Mirrors
  <1>2. \A d \in Entry : d # e => run[d] = cand[d]
    BY DEF Changed
  <1>3. cand[e] # NoEntry
    BY DEF Changed
  <1> HIDE DEF p
  <1>4. usrNat' = {<<d[2], Wanted(cand[d])>> : d \in {x \in Entry : cand[x] # NoEntry}}
    BY <1>1, <1>2, <1>3 DEF Mirrors, p
  <1>5. natOk' = {o[2] : o \in usrNat'}
    <2>1. natOk = {o[2] : o \in usrNat} /\ <<e[2], p>>[2] = p
      BY DEF Mirrors
    <2>2. QED BY <1>1, <2>1
  <1>6. \A d \in Entry : Wanted(cand[d])' = Wanted(cand[d])
    BY DEF Wanted
  <1>7. QED BY <1>1, <1>4, <1>5, <1>6 DEF Mirrors

\* Removing the index of a deleted entry (ietf_nat.cpp:244-248).
LEMMA RemoveMirrors ==
    ASSUME Undisturbed, Inv, NEW e \in Entry, Changed = {e}, cand[e] = NoEntry,
           Mirrors(run), OM_remove(e[2], TRUE), UNCHANGED cand
    PROVE  Mirrors(cand)'
  <1> DEFINE gone == Owned(usrNat) \ Owned(usrNat')
  <1>1. /\ bootNat' = {}
        /\ usrNat' = {o \in usrNat : o[1] # e[2]}
        /\ natOk' = natOk \ gone
        /\ vppNat' = natOk'
    BY DEF OM_remove, Mirrors
  <1>2. natOk' = {o[2] : o \in usrNat'}
    <2>1. Owned(usrNat) = natOk /\ Owned(usrNat') = {o[2] : o \in usrNat'}
      BY DEF Owned, Mirrors
    <2>2. {o[2] : o \in usrNat'} \subseteq natOk
      BY <1>1 DEF Mirrors
    <2>3. QED BY <1>1, <2>1, <2>2
  <1> HIDE DEF gone
  <1>3. \A d \in Entry : d # e => run[d] = cand[d]
    BY DEF Changed
  <1>4. \A d \in Entry : d # e => d[2] # e[2]
    BY DEF Undisturbed
  <1>5. usrNat' = {<<d[2], Wanted(cand[d])>> : d \in {x \in Entry : cand[x] # NoEntry}}
    BY <1>1, <1>3, <1>4 DEF Mirrors
  <1>6. \A d \in Entry : Wanted(cand[d])' = Wanted(cand[d])
    BY DEF Wanted
  <1>7. QED BY <1>1, <1>2, <1>5, <1>6 DEF Mirrors

\* After the loop, the candidate is mirrored, or the callback refused it before
\* VOM saw any of it (ietf_nat.cpp:222-257).
LEMMA FinishFollows == Undisturbed /\ Inv /\ Follows /\ NatCbFinish => Follows'
  <1>1. SUFFICES ASSUME Undisturbed, Inv, Follows, NatCbFinish PROVE Follows'
    OBVIOUS
  <1>2. PICK ux \in UninitIndex :
          LET i == IF xindex = NoIndex THEN ux ELSE xindex
          IN \/ flags.create /\ Create(i, TRUE)
             \/ ~flags.create /\ flags.remove /\ Remove(i, TRUE)
             \/ /\ ~flags.create /\ ~flags.remove
                /\ Return("decide", TRUE)
                /\ UNCHANGED <<table, hwVars>>
    BY <1>1 DEF NatCbFinish, Undisturbed
  <1> DEFINE i == IF xindex = NoIndex THEN ux ELSE xindex
  <1>3. phase = "mapping" /\ left = {} /\ UNCHANGED <<run, cand>>
    BY <1>1 DEF NatCbFinish, dsVars
  <1>4. PICK e \in Entry : Changed = {e} /\ Visited(e)
    BY <1>1, <1>3 DEF Follows
  <1>5. Mirrors(run)
    BY <1>1, <1>3 DEF Follows
  <1>6. e[2] \in Index /\ (xindex = e[2] => i = e[2])
    BY NatAssumption DEF Entry
  <1>7. \A d \in Entry : d # e => run[d] = cand[d]
    BY <1>4 DEF Changed
  <1>8. ASSUME NEW next \in {"decide", "crashed"}, Return(next, FALSE),
               UNCHANGED <<bootNat, usrNat, natOk, vppNat>>
        PROVE  Follows'
    <2>1. Mirrors(run)'
      BY <1>3, <1>5, <1>8 DEF Mirrors, Wanted
    <2>2. QED BY <1>8, <2>1 DEF Follows, Return, Fresh, NoBuilder, NoFlags
  <1>9. ASSUME Return("decide", TRUE), Mirrors(cand)' PROVE Follows'
    BY <1>9 DEF Follows, Return, Fresh, NoBuilder, NoFlags
  <1>10. CASE run[e] = NoEntry /\ Seen(e) /\ ~flags.remove
    <2>1. Create(e[2], TRUE)
      BY <1>2, <1>6, <1>10 DEF Seen
    <2>2. cand[e] \in Config
      BY <1>1, <1>4, <1>10 DEF Inv, TypeOK, Changed
    <2>3. OneNew(e)
      BY <1>1, <1>4, <1>10, <2>2 DEF OneNew, Undisturbed, SourcePairs
    <2>4. CASE build(builder) = NoPair
      BY <1>8, <2>1, <2>4 DEF Create, FailAfterLoop, hwVars
    <2>5. CASE build(builder) # NoPair
      <3>1. build(builder) = Wanted(cand[e])
        BY <1>1, <1>10, <2>3, <2>5, BuildWanted DEF Inv
      <3>2. OM_write(e[2], Wanted(cand[e]), TRUE) /\ Return("decide", TRUE)
        BY <2>1, <2>5, <3>1 DEF Create, WriteRc
      <3>3. Mirrors(cand)'
        BY <1>1, <1>3, <1>4, <1>5, <1>10, <3>2, CreateMirrors
      <3>4. QED BY <1>9, <3>2, <3>3
    <2>6. QED BY <2>4, <2>5
  <1>11. CASE /\ cand[e] = NoEntry /\ xindex = e[2]
              /\ flags = [create |-> FALSE, remove |-> TRUE]
    <2>1. ~flags.create /\ flags.remove
      BY <1>11
    <2>2. Remove(e[2], TRUE)
      BY <1>2, <1>6, <1>11, <2>1
    <2>3. Mirrors(cand)'
      BY <1>1, <1>3, <1>4, <1>5, <1>11, <2>2, RemoveMirrors DEF Remove
    <2>4. QED BY <1>9, <2>2, <2>3 DEF Remove
  <1>12. CASE /\ run[e] # NoEntry /\ cand[e] # NoEntry /\ flags = NoFlags
              /\ Wanted(run[e]) = Wanted(cand[e])
    <2>1. ~flags.create /\ ~flags.remove
      BY <1>12 DEF NoFlags
    <2>2. Return("decide", TRUE) /\ UNCHANGED <<bootNat, usrNat, natOk, vppNat>>
      BY <1>2, <2>1 DEF hwVars
    <2>3. \A d \in Entry : /\ run[d] # NoEntry <=> cand[d] # NoEntry
                           /\ Wanted(run[d]) = Wanted(cand[d])
      BY <1>7, <1>12
    <2>4. usrNat = {<<d[2], Wanted(cand[d])>> : d \in {x \in Entry : cand[x] # NoEntry}}
      BY <1>5, <2>3 DEF Mirrors
    <2>5. \A d \in Entry : Wanted(cand[d])' = Wanted(cand[d])
      BY <1>3 DEF Wanted
    <2>6. Mirrors(cand)'
      BY <1>3, <1>5, <2>2, <2>4, <2>5 DEF Mirrors
    <2>7. QED BY <1>9, <2>2, <2>6
  <1>13. QED BY <1>4, <1>10, <1>11, <1>12 DEF Visited

\* Follows holds at the start, and every step keeps it if nothing disturbs.
LEMMA FollowsHolds == Undisturbed => (Spec => []Follows)
  <1>1. SUFFICES ASSUME Undisturbed PROVE Spec => []Follows
    OBVIOUS
  <1>2. Init => Follows
    BY DEF Init, Follows, Fresh, Mirrors, Wanted
  <1>3. Inv /\ Follows /\ [Next]_vars => Follows'
    <2>1. SUFFICES ASSUME Inv, Follows, [Next]_vars PROVE Follows'
      OBVIOUS
    <2>2. CASE CommitStart
      BY <1>1, <2>1, <2>2, StartFollows
    <2>3. CASE NatCbChange
      BY <1>1, <2>1, <2>3, ChangeFollows
    <2>4. CASE NatCbFinish
      BY <1>1, <2>1, <2>4, FinishFollows
    <2>5. CASE CommitApply
      <3>1. /\ phase = "decide" /\ ~refused /\ phase' = "idle" /\ run' = cand
            /\ UNCHANGED <<builder, flags, xindex, bootNat, usrNat, natOk, vppNat>>
        BY <2>5 DEF CommitApply, cbVars, hwVars
      <3>2. Fresh' /\ Mirrors(run)'
        BY <2>1, <3>1 DEF Follows, Mirrors, Wanted, Fresh, NoBuilder, NoFlags
      <3>3. QED BY <3>1, <3>2 DEF Follows
    <2>6. CASE CommitAbort
      <3>1. /\ phase = "decide" /\ refused /\ phase' = "idle" /\ run' = run
            /\ UNCHANGED <<builder, flags, xindex, bootNat, usrNat, natOk, vppNat>>
        BY <1>1, <2>6 DEF CommitAbort, cbVars, hwVars, Undisturbed
      <3>2. Fresh' /\ Mirrors(run)'
        BY <2>1, <3>1 DEF Follows, Mirrors, Wanted, Fresh, NoBuilder, NoFlags
      <3>3. QED BY <3>1, <3>2 DEF Follows
    <2>7. CASE PluginRestart
      BY <1>1, <2>1, <2>7 DEF PluginRestart, Undisturbed, Inv, TypeOK
    <2>8. CASE UNCHANGED vars
      <3>1. UNCHANGED <<run, cand, phase, refused, left, builder, flags, xindex,
                        bootNat, usrNat, natOk, vppNat>>
        BY <2>8 DEF vars, dsVars, cbVars, hwVars
      <3>2. (Fresh' <=> Fresh) /\ Changed' = Changed
        BY <3>1 DEF Fresh, NoBuilder, NoFlags, Changed
      <3>3. \A e \in Entry : Visited(e) => Visited(e)'
        BY <3>1 DEF Visited, Seen, NoFlags, Wanted
      <3>4. Mirrors(run)' = Mirrors(run) /\ Mirrors(cand)' = Mirrors(cand)
        BY <3>1 DEF Mirrors, Wanted
      <3>5. QED BY <2>1, <3>1, <3>2, <3>3, <3>4 DEF Follows
    <2>9. QED BY <2>1, <2>2, <2>3, <2>4, <2>5, <2>6, <2>7, <2>8 DEF Next
  <1>4. QED BY <1>2, <1>3, InvHolds, PTL DEF Spec

\* If every entry has a pair of source addresses, VPP has between commits of one
\* entry each exactly the mappings the running datastore asks for
\* (ietf_nat.cpp:178-250), if nothing fails or reads uninitialised as TRUE.
THEOREM MappingsStayMirrored == Undisturbed => (Spec => []MappingsMirrorRunning)
  <1>1. Follows => MappingsMirrorRunning
    <2>1. SUFFICES ASSUME Follows, phase = "idle" PROVE vppNat = WantedMappings
      BY DEF MappingsMirrorRunning
    <2> DEFINE present == {x \in Entry : run[x] # NoEntry}
    <2>2. /\ vppNat = {o[2] : o \in usrNat}
          /\ usrNat = {<<e[2], Wanted(run[e])>> : e \in present}
      BY <2>1 DEF Follows, Mirrors
    <2> HIDE DEF present
    <2>3. vppNat = {Wanted(run[e]) : e \in present}
      <3> DEFINE w(e) == Wanted(run[e])
      <3>1. usrNat = {<<e[2], w(e)>> : e \in present}
        BY <2>2
      <3> HIDE DEF w
      <3>2. ASSUME NEW q \in vppNat PROVE q \in {w(e) : e \in present}
        <4>1. PICK o \in usrNat : q = o[2]
          BY <2>2
        <4>2. PICK e \in present : o = <<e[2], w(e)>>
          BY <3>1
        <4>3. QED BY <4>1, <4>2
      <3>3. ASSUME NEW e \in present PROVE w(e) \in vppNat
        <4>1. <<e[2], w(e)>> \in usrNat
          BY <3>1
        <4>2. <<e[2], w(e)>>[2] = w(e)
          OBVIOUS
        <4>3. QED BY <2>2, <4>1, <4>2
      <3>4. vppNat = {w(e) : e \in present}
        BY <3>2, <3>3
      <3>5. QED BY <3>4 DEF w
    <2>4. QED BY <2>3 DEF WantedMappings, present
  <1>2. QED BY <1>1, FollowsHolds, PTL
=============================================================================
