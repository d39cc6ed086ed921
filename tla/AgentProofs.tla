---------------------------- MODULE AgentProofs ----------------------------
(***************************************************************************)
(* The plugin process, for any two sets of interfaces, commits of any size *)
(* and crashes in each other's commits.  Also when both models configure   *)
(* the same interfaces: type correctness, and the size of the answers to   *)
(* requests for operational data.                                          *)
(* When they configure different ones: what an accepted commit to          *)
(* openconfig-interfaces has done, and that the process implements         *)
(* ietf-interfaces as it is alone.                                         *)
(***************************************************************************)
EXTENDS Agent, IetfInterfacesProofs, FiniteSetTheorems

\* What is left to be visited was changed by the commit, as in LeftOK.
OcLeftOK == ocPhase = "cb" => ocLeft \subseteq OcChanged

OcInv == OcTypeOK /\ OcLeftOK

AgentInv == IInv /\ OcInv

-----------------------------------------------------------------------------
(* The parts that a step leaves alone.                                     *)

\* The state of ietf-interfaces, while only VOM and VPP change.
LEMMA IetfAlone == Plugin /\ UNCHANGED ietfVars => Plugin'
  BY DEF ietfVars, dsVars, createVars, addrVars, Plugin, DatastoreTypeOK,
         CommitTypeOK, CreateTypeOK, AddrTypeOK, LeftOK, ChangedItf, ChangedAddr

\* The state of openconfig-interfaces.
LEMMA OcAlone == OcInv /\ UNCHANGED ocVars => OcInv'
  BY DEF ocVars, ocLocals, OcInv, OcTypeOK, OcLeftOK, OcChanged

\* The locals of oc_interfaces_config_cb start with values of their types
\* (openconfig_interfaces.cpp:87-95).
LEMMA OcFreshLocals ==
    /\ NoBuilder \in [name : OcIfs \cup {NoItf}, type : BOOLEAN, state : BOOLEAN \cup {NoLeaf}]
    /\ NoFlags \in [create : BOOLEAN, modify : BOOLEAN, remove : BOOLEAN]
  BY DEF NoBuilder, NoFlags

\* The end of a commit, in whatever way.
LEMMA OcOverOK ==
    ASSUME OcInv, NEW run \in {ocRun, ocCand}, OcOver(run)
    PROVE  OcInv'
  BY OcFreshLocals DEF OcOver, OcLocalsGone, OcInv, OcTypeOK, OcLeftOK

\* The callback returns.
LEMMA OcReturnOK ==
    ASSUME IInv, OcInv, NEW rc \in BOOLEAN, OcReturn(rc), ocLeft' \in SUBSET OcIfs, VomInv'
    PROVE  AgentInv'
  <1>1. OcInv'
    BY OcFreshLocals DEF OcReturn, OcLocalsGone, OcInv, OcTypeOK, OcLeftOK
  <1>2. Plugin'
    BY IetfAlone DEF OcReturn, IInv
  <1>3. QED BY <1>1, <1>2 DEF AgentInv, IInv

\* The process dies under the callback.
LEMMA OcDiesOK == ASSUME IInv, OcInv, OcDies, VomInv' PROVE AgentInv'
  <1>1. OcInv'
    BY OcOverOK DEF OcDies
  <1>2. Plugin'
    BY ProcessGoneStep DEF OcDies, IInv
  <1>3. QED BY <1>1, <1>2 DEF AgentInv, IInv

-----------------------------------------------------------------------------
(* openconfig-interfaces.                                                  *)

\* sysrepo's steps of a commit to openconfig-interfaces.
LEMMA OcCommitStep ==
    ASSUME AgentInv, OcCommitStart \/ OcCommitApply \/ OcCommitAbort
    PROVE  AgentInv'
  <1>1. IInv /\ OcInv /\ VomInv /\ Plugin
    BY DEF AgentInv, IInv
  <1>2. UNCHANGED <<ietfVars, hwVars>>
    BY DEF OcCommitStart, OcCommitApply, OcCommitAbort
  <1>3. IInv'
    BY <1>1, <1>2, IetfAlone, UnchangedOK DEF IInv
  <1>4. OcInv'
    <2>1. CASE OcCommitStart
      BY <1>1, <2>1 DEF OcCommitStart, ocLocals, OcInv, OcTypeOK, OcLeftOK, OcChanged
    <2>2. CASE OcCommitApply \/ OcCommitAbort
      BY <1>1, <2>2, OcOverOK DEF OcCommitApply, OcCommitAbort
    <2>3. QED BY <2>1, <2>2
  <1>5. QED BY <1>3, <1>4 DEF AgentInv

\* oc_interfaces_config_cb visits a changed interface
\* (openconfig_interfaces.cpp:110-161).
LEMMA OcCbChangeStep == ASSUME AgentInv, OcCbChange PROVE AgentInv'
  <1>1. IInv /\ OcInv /\ VomInv /\ Plugin
    BY DEF AgentInv, IInv
  <1>2. PICK n \in ocLeft : OcCreated(n) \/ OcDeleted(n) \/ OcModified(n)
    BY DEF OcCbChange
  <1>3. ocPhase = "cb" /\ n \in OcIfs /\ ocRun[n] # ocCand[n]
    BY <1>1, <1>2 DEF OcCbChange, OcInv, OcLeftOK, OcChanged
  <1>4. n \in Ifs
    BY <1>3, OcAssumption
  <1>5. ocRun[n] \in OcConfig \cup {NoItf} /\ ocCand[n] \in OcConfig \cup {NoItf}
    BY <1>1, <1>3 DEF OcInv, OcTypeOK
  <1>6. \A c \in OcConfig : c.enabled \in BOOLEAN \cup {NoLeaf}
    BY OcAssumption DEF OcConfig
  <1>7. ASSUME UNCHANGED <<ietfVars, ocRun, ocCand, ocPhase, ocRefused>>,
               ocLeft' = ocLeft \ {n}, VomInv',
               ocBuilder' \in [name : OcIfs \cup {NoItf}, type : BOOLEAN, state : BOOLEAN \cup {NoLeaf}],
               ocFlags' \in [create : BOOLEAN, modify : BOOLEAN, remove : BOOLEAN],
               ocIntf' \in Ifs \cup {NoItf}
        PROVE  AgentInv'
    <2>1. Plugin'
      BY <1>1, <1>7, IetfAlone
    <2>2. OcTypeOK'
      BY <1>1, <1>7 DEF OcInv, OcTypeOK
    <2>3. OcLeftOK'
      BY <1>1, <1>7 DEF OcInv, OcLeftOK, OcChanged
    <2>4. QED BY <1>7, <2>1, <2>2, <2>3 DEF AgentInv, IInv, OcInv
  <1>8. CASE OcCreated(n)
    <2>1. ocCand[n] \in OcConfig
      BY <1>3, <1>5, <1>8 DEF OcCreated
    <2>2. ocBuilder' \in [name : OcIfs \cup {NoItf}, type : BOOLEAN, state : BOOLEAN \cup {NoLeaf}]
      BY <1>1, <1>3, <1>6, <1>8, <2>1 DEF OcCreated, OcInv, OcTypeOK
    <2>3. ocFlags' \in [create : BOOLEAN, modify : BOOLEAN, remove : BOOLEAN]
      BY <1>1, <1>8 DEF OcCreated, OcInv, OcTypeOK
    <2>4. VomInv'
      BY <1>1, <1>8, UnchangedOK DEF OcCreated
    <2>5. QED BY <1>1, <1>7, <1>8, <2>2, <2>3, <2>4 DEF OcCreated, OcInv, OcTypeOK
  <1>9. CASE OcDeleted(n)
    BY <1>1, <1>9, UnchangedOK, OcDiesOK DEF OcDeleted
  <1>10. CASE OcModified(n)
    <2>1. ocRun[n] \in OcConfig /\ ocCand[n] \in OcConfig
      BY <1>5, <1>10 DEF OcModified, OcDeletes
    <2>2. LeafCreated(ocRun[n].enabled, ocCand[n].enabled) => ocCand[n].enabled \in BOOLEAN
      BY <1>6, <2>1 DEF LeafCreated
    <2>3. LeafModified(ocRun[n].enabled, ocCand[n].enabled) => ocCand[n].enabled \in BOOLEAN
      BY <1>6, <2>1 DEF LeafModified
    <2>4. OcFound(n) \in Ifs \cup {NoItf}
      BY <1>4 DEF OcFound
    <2>5. CASE ~LeafModified(ocRun[n].enabled, ocCand[n].enabled)
      <3>1. ocBuilder' \in [name : OcIfs \cup {NoItf}, type : BOOLEAN, state : BOOLEAN \cup {NoLeaf}]
        BY <1>1, <1>10, <2>2, <2>5 DEF OcModified, OcInv, OcTypeOK
      <3>2. VomInv'
        BY <1>1, <1>10, <2>5, UnchangedOK DEF OcModified
      <3>3. QED BY <1>1, <1>7, <1>10, <2>5, <3>1, <3>2 DEF OcModified, OcInv, OcTypeOK
    <2>6. CASE LeafModified(ocRun[n].enabled, ocCand[n].enabled) /\ OcFound(n) # NoItf
      <3>1. VomInv'
        BY <1>1, <1>10, <2>3, <2>4, <2>6, SetOK DEF OcModified
      <3>2. ocFlags' \in [create : BOOLEAN, modify : BOOLEAN, remove : BOOLEAN]
        BY <1>1, <1>10, <2>6 DEF OcModified, OcInv, OcTypeOK
      <3>3. QED BY <1>1, <1>7, <1>10, <2>4, <2>6, <3>1, <3>2 DEF OcModified, OcInv, OcTypeOK
    <2>7. CASE LeafModified(ocRun[n].enabled, ocCand[n].enabled) /\ OcFound(n) = NoItf
      <3>1. VomInv'
        BY <1>1, <1>10, <2>7, UnchangedOK DEF OcModified
      <3>2. QED BY <1>1, <1>10, <2>7, <3>1, OcReturnOK DEF OcModified
    <2>8. QED BY <2>5, <2>6, <2>7
  <1>11. QED BY <1>2, <1>8, <1>9, <1>10

\* oc_interfaces_config_cb builds, writes and returns
\* (openconfig_interfaces.cpp:163-192).
LEMMA OcCbFinishStep == ASSUME AgentInv, OcCbFinish PROVE AgentInv'
  <1>1. IInv /\ OcInv /\ VomInv /\ Plugin
    BY DEF AgentInv, IInv
  <1>2. ASSUME NEW create \in BOOLEAN, NEW modify \in BOOLEAN,
               NEW us \in OcUninitBool, NEW ok \in Outcome, OcWrite(create, modify, us, ok)
        PROVE  VomInv' /\ (OcDies \/ \E rc \in BOOLEAN : OcReturn(rc) /\ UNCHANGED ocLeft)
    <2> DEFINE target == IF create THEN ocBuilder.name ELSE ocIntf
               state == IF ~create THEN admin[ocIntf]
                        ELSE IF ocBuilder.state = NoLeaf THEN us ELSE ocBuilder.state
    <2>1. CASE UNCHANGED hwVars
      BY <1>1, <1>2, <2>1, UnchangedOK DEF OcWrite, OcFailAfterLoop
    <2>2. CASE target # NoItf /\ OM_write_itf(target, state, ok)
      <3>1. target \in Ifs
        BY <1>1, <2>2, OcAssumption DEF OcInv, OcTypeOK
      <3>2. state \in BOOLEAN
        BY <1>1, <3>1, OcAssumption DEF OcInv, OcTypeOK, VomInv, VomTypeOK
      <3>3. ok \in BOOLEAN
        BY ConfigAssumption
      <3> HIDE DEF target, state
      <3>4. VomInv'
        BY <1>1, <2>2, <3>1, <3>2, <3>3, WriteItfOK
      <3>5. OcDies \/ \E rc \in BOOLEAN : OcReturn(rc) /\ UNCHANGED ocLeft
        BY <1>2 DEF OcWrite, OcFailAfterLoop
      <3>6. QED BY <3>4, <3>5
    <2>3. QED BY <1>2, <2>1, <2>2 DEF OcWrite
  <1>3. PICK uc \in OcUninitBool, um \in OcUninitBool, us \in OcUninitBool, ok \in Outcome :
           OcWrite(ocFlags.create \/ uc, ocFlags.modify \/ um, us, ok)
    BY Zenon DEF OcCbFinish
  <1>4. (ocFlags.create \/ uc) \in BOOLEAN /\ (ocFlags.modify \/ um) \in BOOLEAN
    OBVIOUS
  <1>5. VomInv' /\ (OcDies \/ \E rc \in BOOLEAN : OcReturn(rc) /\ UNCHANGED ocLeft)
    BY <1>2, <1>3, <1>4, Zenon
  <1>6. ocLeft \in SUBSET OcIfs
    BY <1>1 DEF OcInv, OcTypeOK
  <1>7. QED BY <1>1, <1>5, <1>6, OcDiesOK, OcReturnOK

-----------------------------------------------------------------------------
(* The process.                                                            *)

\* The steps of ietf-interfaces, and a crash in its callbacks, which ends the
\* other commit.
LEMMA IetfStepStep == ASSUME AgentInv, IetfStep PROVE AgentInv'
  <1>1. IInv /\ OcInv
    BY DEF AgentInv
  <1>2. IInv'
    BY <1>1, CommitStartStep, CommitApplyStep, CommitAbortStep, CreateCbChangeStep,
       CreateCbFinishStep, AddrCbNextStep, AddrCbParseStep, AddrCbDelAddStep, AddrCbReturnStep
    DEF IetfStep, IetfCallback
  <1>3. OcInv'
    BY <1>1, OcOverOK, OcAlone DEF IetfStep
  <1>4. QED BY <1>2, <1>3 DEF AgentInv

\* A request for operational data brings the process down
\* (openconfig_interfaces.cpp:235).
LEMMA StateRequestDiesStep == ASSUME AgentInv, StateRequestDies PROVE AgentInv'
  BY UnchangedOK, OcDiesOK DEF AgentInv, IInv, StateRequestDies

\* The process starts again.
LEMMA RestartStep == ASSUME AgentInv, Restart PROVE AgentInv'
  BY PluginRestartStep, OcAlone DEF AgentInv, Restart

\* The invariant holds in every reachable state.
LEMMA AgentInductive == AgentSpec => []AgentInv
  <1>1. AgentInit => AgentInv
    <2>1. SUFFICES ASSUME AgentInit PROVE OcInv
      BY IInvInit DEF AgentInit, AgentInv
    <2>2. QED BY <2>1, OcFreshLocals DEF AgentInit, OcInit, OcInv, OcTypeOK, OcLeftOK
  <1>2. AgentInv /\ UNCHANGED agentVars => AgentInv'
    <2>1. SUFFICES ASSUME AgentInv, UNCHANGED agentVars PROVE AgentInv'
      OBVIOUS
    <2>2. UNCHANGED ietfVars /\ UNCHANGED hwVars /\ UNCHANGED ocVars
      BY <2>1 DEF agentVars, vars, ietfVars
    <2>3. QED BY <2>1, <2>2, IetfAlone, UnchangedOK, OcAlone DEF AgentInv, IInv
  <1>3. AgentInv /\ [AgentNext]_agentVars => AgentInv'
    BY <1>2, IetfStepStep, OcCommitStep, OcCbChangeStep, OcCbFinishStep,
       StateRequestDiesStep, RestartStep
    DEF AgentNext, OcStep
  <1>4. QED BY <1>1, <1>3, PTL DEF AgentSpec

-----------------------------------------------------------------------------
(* The theorems.                                                           *)

\* Type correctness of the process, whatever interfaces the two models configure
\* and whatever their uninitialised flags read as (ietf_interface.cpp:96-369,
\* openconfig_interfaces.cpp:82-193).
THEOREM AgentTypeCorrect == AgentSpec => []AgentTypeOK
  <1>1. AgentInv => AgentTypeOK
    BY DEF AgentInv, IInv, VomInv, Plugin, OcInv, AgentTypeOK, TypeOK
  <1>2. QED BY AgentInductive, <1>1, PTL

-----------------------------------------------------------------------------
(* The size of answers.                                                    *)

\* Values for different leaves, or of different interfaces, are at most as many
\* as there are pairs of both.
LEMMA CountVals ==
    ASSUME NEW vals, NEW itfs, NEW leaves, IsFiniteSet(itfs), IsFiniteSet(leaves),
           \A v \in vals : v.itf \in itfs /\ v.leaf \in leaves,
           \A v, w \in vals : v.itf = w.itf /\ v.leaf = w.leaf => v = w
    PROVE  /\ Cardinality(vals) \in Nat
           /\ Cardinality(vals) <= Cardinality(itfs) * Cardinality(leaves)
  <1> DEFINE place == [v \in vals |-> <<v.itf, v.leaf>>]
  <1>1. place \in Injection(vals, itfs \X leaves)
    <2>1. place \in [vals -> itfs \X leaves]
      OBVIOUS
    <2>2. \A v, w \in vals : place[v] = place[w] => v = w
      OBVIOUS
    <2>3. QED BY <2>1, <2>2 DEF Injection, IsInjective
  <1> HIDE DEF place
  <1>2. IsFiniteSet(itfs \X leaves)
        /\ Cardinality(itfs \X leaves) = Cardinality(itfs) * Cardinality(leaves)
    BY FS_Product
  <1>3. IsFiniteSet(vals) /\ Cardinality(vals) <= Cardinality(itfs \X leaves)
    BY <1>1, <1>2, FS_Injection
  <1>4. QED BY <1>2, <1>3, FS_CardinalityType

\* The leaves an answer has values for (ietf_interface.cpp:411-442, :506-548,
\* openconfig_interfaces.cpp:240-268).
IetfLeaves == {"admin-status", "oper-status", "phys-address", "if-index", "speed"}
OcLeaves == {"admin-status", "oper-status", "enabled", "name", "type", "mtu", "ifindex"}
StatsLeaves == {"in-octets", "in-unicast-pkts", "in-broadcast-pkts", "in-multicast-pkts",
                "out-octets", "out-unicast-pkts", "out-broadcast-pkts", "out-multicast-pkts"}

\* What a sequence lists is no more than the sequence is long.
LEMMA Listed ==
    ASSUME NEW n \in Nat, NEW s
    PROVE  /\ IsFiniteSet({s[i] : i \in 1 .. n})
           /\ Cardinality({s[i] : i \in 1 .. n}) <= n
  <1> DEFINE all == {s[i] : i \in 1 .. n}
             f == [i \in 1 .. n |-> s[i]]
  <1>1. f \in Surjection(1 .. n, all)
    BY DEF Surjection
  <1>2. IsFiniteSet(1 .. n) /\ Cardinality(1 .. n) = n
    <2>1. Cardinality(1 .. n) = IF 1 > n THEN 0 ELSE n - 1 + 1
      BY FS_Interval
    <2>2. QED BY <2>1, FS_Interval
  <1> HIDE DEF f, all
  <1>3. IsFiniteSet(all) /\ Cardinality(all) <= n
    BY <1>1, <1>2, FS_Surjection
  <1>4. QED BY <1>3 DEF all

LEMMA Leaves ==
    /\ IsFiniteSet(IetfLeaves) /\ Cardinality(IetfLeaves) <= 5
    /\ IsFiniteSet(OcLeaves) /\ Cardinality(OcLeaves) <= 7
    /\ IsFiniteSet(StatsLeaves) /\ Cardinality(StatsLeaves) <= 8
  <1>1. IsFiniteSet(IetfLeaves) /\ Cardinality(IetfLeaves) <= 5
    <2> DEFINE s == <<"admin-status", "oper-status", "phys-address", "if-index", "speed">>
    <2>1. IetfLeaves = {s[i] : i \in 1 .. 5}
      BY DEF IetfLeaves
    <2> HIDE DEF s
    <2>2. QED BY <2>1, Listed
  <1>2. IsFiniteSet(OcLeaves) /\ Cardinality(OcLeaves) <= 7
    <2> DEFINE s == <<"admin-status", "oper-status", "enabled", "name", "type", "mtu", "ifindex">>
    <2>1. OcLeaves = {s[i] : i \in 1 .. 7}
      BY DEF OcLeaves
    <2> HIDE DEF s
    <2>2. QED BY <2>1, Listed
  <1>3. IsFiniteSet(StatsLeaves) /\ Cardinality(StatsLeaves) <= 8
    <2> DEFINE s == <<"in-octets", "in-unicast-pkts", "in-broadcast-pkts", "in-multicast-pkts",
                      "out-octets", "out-unicast-pkts", "out-broadcast-pkts", "out-multicast-pkts">>
    <2>1. StatsLeaves = {s[i] : i \in 1 .. 8}
      BY DEF StatsLeaves
    <2> HIDE DEF s
    <2>2. QED BY <2>1, Listed
  <1>4. QED BY <1>1, <1>2, <1>3

\* No answer holds more values than it has room for, however many interfaces VPP
\* has: ietf_interface_state_cb fills in five for each and allocates six
\* (ietf_interface.cpp:403-448, :499-551, openconfig_interfaces.cpp:227-271).
THEOREM AnswersFit == IsFiniteSet(Ifs) => (AgentSpec => []AnswerFits)
  <1> SUFFICES ASSUME IsFiniteSet(Ifs) PROVE AgentSpec => []AnswerFits
    OBVIOUS
  <1>1. ASSUME VomTypeOK, NEW link, NEW a \in Answers(Ifs, link)
        PROVE  Cardinality(a.vals) <= a.size
    <2>1. ASSUME NEW ok \in BOOLEAN, a = ietf_interface_state_cb(ok, TRUE, link)
          PROVE  Cardinality(a.vals) <= a.size
      <3> DEFINE dump == Dump(ok)
                 vals == UNION {IetfVals(n, Flags(n, link)) : n \in dump}
      <3>1. IsFiniteSet(dump) /\ Cardinality(dump) \in Nat
        <4>1. dump \subseteq Ifs
          BY <1>1, AtBootAssumption DEF Dump, VppItfs, LiveItf, VomTypeOK, Binding
        <4>2. QED BY <4>1, FS_Subset, FS_CardinalityType
      <3>2. a.vals = vals /\ a.size = (Cardinality(dump) + 1) * 6
        BY <2>1 DEF ietf_interface_state_cb, Answer, IetfSize
      <3>3. \A v \in vals : v.itf \in dump /\ v.leaf \in IetfLeaves
        BY DEF IetfVals, Val, Copied, IetfLeaves
      <3>4. ASSUME NEW v \in vals
            PROVE  v = Val(v.itf, v.leaf,
                           IF v.leaf = "admin-status" THEN AdminStatus(Flags(v.itf, link))
                           ELSE IF v.leaf = "oper-status" THEN OperStatus(Flags(v.itf, link))
                           ELSE "any")
        <4>1. PICK n \in dump : v \in IetfVals(n, Flags(n, link))
          OBVIOUS
        <4>2. v.itf = n
          BY <4>1 DEF IetfVals, Val, Copied
        <4>3. QED BY <4>1, <4>2 DEF IetfVals, Val, Copied
      <3>5. \A v, w \in vals : v.itf = w.itf /\ v.leaf = w.leaf => v = w
        <4>1. SUFFICES ASSUME NEW v \in vals, NEW w \in vals, v.itf = w.itf, v.leaf = w.leaf
                       PROVE  v = w
          OBVIOUS
        <4> HIDE DEF vals
        <4>2. QED BY <3>4, <4>1
      <3> HIDE DEF dump, vals
      <3>6. Cardinality(vals) \in Nat
            /\ Cardinality(vals) <= Cardinality(dump) * Cardinality(IetfLeaves)
        BY <3>1, <3>3, <3>5, Leaves, CountVals
      <3>7. Cardinality(IetfLeaves) \in 0 .. 5
        BY Leaves, FS_CardinalityType
      <3>8. Cardinality(dump) * Cardinality(IetfLeaves) <= Cardinality(dump) * 6
        BY <3>1, <3>7
      <3>9. QED BY <3>1, <3>2, <3>6, <3>7, <3>8
    <2>2. ASSUME NEW n \in Ifs, NEW m \in VppItfs, a = oc_interfaces_state_cb(n, m, link, TRUE)
          PROVE  Cardinality(a.vals) <= a.size
      <3> DEFINE vals == OcVals(n, Flags(m, link))
      <3>1. a.vals = vals /\ a.size = 7
        BY <2>2 DEF oc_interfaces_state_cb, Answer
      <3>2. \A v \in vals : v.itf \in {n} /\ v.leaf \in OcLeaves
        BY DEF OcVals, Val, Copied, OcLeaves
      <3>3. \A v, w \in vals : v.itf = w.itf /\ v.leaf = w.leaf => v = w
        BY DEF OcVals, Val, Copied
      <3> HIDE DEF vals
      <3>4. Cardinality(vals) \in Nat
            /\ Cardinality(vals) <= Cardinality({n}) * Cardinality(OcLeaves)
        BY <3>2, <3>3, Leaves, FS_Singleton, CountVals
      <3>5. Cardinality({n}) = 1 /\ Cardinality(OcLeaves) \in 0 .. 7
        <4>1. Cardinality({n}) = 1
          BY FS_Singleton, Zenon
        <4>2. Cardinality(OcLeaves) \in 0 .. 7
          BY Leaves, FS_CardinalityType
        <4>3. QED BY <4>1, <4>2
      <3>6. QED BY <3>1, <3>4, <3>5
    <2>3. ASSUME NEW n \in Ifs, a = interface_statistics_cb(n, TRUE)
          PROVE  Cardinality(a.vals) <= a.size
      <3>1. CASE n \notin Found
        BY <2>3, <3>1, FS_EmptySet DEF interface_statistics_cb, Answer
      <3>2. CASE n \in Found
        <4> DEFINE vals == StatsVals(n)
        <4>1. a.vals = vals /\ a.size = 8
          BY <2>3, <3>2 DEF interface_statistics_cb, Answer
        <4>2. \A v \in vals : v.itf \in {n} /\ v.leaf \in StatsLeaves
          BY DEF StatsVals, Val, Copied, StatsLeaves
        <4>3. \A v, w \in vals : v.itf = w.itf /\ v.leaf = w.leaf => v = w
          BY DEF StatsVals, Val, Copied
        <4> HIDE DEF vals
        <4>4. Cardinality(vals) \in Nat
              /\ Cardinality(vals) <= Cardinality({n}) * Cardinality(StatsLeaves)
          BY <4>2, <4>3, Leaves, FS_Singleton, CountVals
        <4>5. Cardinality({n}) = 1 /\ Cardinality(StatsLeaves) \in 0 .. 8
          <5>1. Cardinality({n}) = 1
            BY FS_Singleton, Zenon
          <5>2. Cardinality(StatsLeaves) \in 0 .. 8
            BY Leaves, FS_CardinalityType
          <5>3. QED BY <5>1, <5>2
        <4>6. QED BY <4>1, <4>4, <4>5
      <3>3. QED BY <3>1, <3>2
    <2>4. ASSUME a = nat_cap_state_cb(TRUE)
          PROVE  Cardinality(a.vals) <= a.size
      <3>1. a.vals = {Val("nat", "static-mapping", "any")} /\ a.size = 1
        BY <2>4 DEF nat_cap_state_cb, Answer
      <3>2. Cardinality({Val("nat", "static-mapping", "any")}) = 1
        BY FS_Singleton, Zenon
      <3>3. QED BY <3>1, <3>2
    <2>5. \/ \E ok \in BOOLEAN : a = ietf_interface_state_cb(ok, TRUE, link)
          \/ \E n \in Ifs, m \in VppItfs : a = oc_interfaces_state_cb(n, m, link, TRUE)
          \/ \E n \in Ifs : a = interface_statistics_cb(n, TRUE)
          \/ a = nat_cap_state_cb(TRUE)
      <3>1. ASSUME NEW x \in Ifs \X VppItfs, a = oc_interfaces_state_cb(x[1], x[2], link, TRUE)
            PROVE  \E n \in Ifs, m \in VppItfs : a = oc_interfaces_state_cb(n, m, link, TRUE)
        <4>1. x[1] \in Ifs /\ x[2] \in VppItfs
          OBVIOUS
        <4>2. QED BY <3>1, <4>1
      <3>2. \/ \E ok \in BOOLEAN : a = ietf_interface_state_cb(ok, TRUE, link)
            \/ \E x \in Ifs \X VppItfs : a = oc_interfaces_state_cb(x[1], x[2], link, TRUE)
            \/ \E n \in Ifs : a = interface_statistics_cb(n, TRUE)
            \/ a = nat_cap_state_cb(TRUE)
        BY <1>1 DEF Answers
      <3>3. QED BY <3>1, <3>2
    <2>6. QED BY <2>1, <2>2, <2>3, <2>4, <2>5, Zenon
  <1>2. AgentInv => AnswerFits
    BY <1>1 DEF AnswerFits, AgentInv, IInv, VomInv
  <1>3. QED BY <1>2, AgentInductive, PTL

-----------------------------------------------------------------------------
(* Each model keeps to its interfaces.                                     *)

IetfItf == IetfIfs \cup {NoItf}

\* Nothing of ietf-interfaces is about an interface it may not configure.
\* oc_interfaces_config_cb has in hand, when it has one, an interface it visited.
Own ==
    /\ \A n \in Ifs \ IetfIfs : runItf[n] = NoItf /\ candItf[n] = NoItf
    /\ \A x \in Ifs \X Addr :
          x[1] \notin IetfIfs => runAddr[x] = NoLeaf /\ candAddr[x] = NoLeaf
    /\ leftItf \subseteq IetfIfs /\ leftAddr \subseteq IetfIfs \X Addr
    /\ builder.name \in IetfItf /\ intf \in IetfItf /\ loc.if_name \in IetfItf
    /\ \A i \in DOMAIN todo : todo[i].itf \in IetfIfs
    /\ ocIntf \in OcIfs \cup {NoItf}

\* The changes of an address are about its interface (ietf_interface.cpp:311-345).
LEMMA ChangesAbout ==
    ASSUME NEW x, runAddr[x] # NoLeaf \/ candAddr[x] # NoLeaf
    PROVE  \A i \in DOMAIN ChangesOf(x) : ChangesOf(x)[i].itf = x[1]
  <1> DEFINE r == runAddr[x]
             c == candAddr[x]
             old == IF r = NoLeaf THEN 0 ELSE PlenOf(r)
             new == IF c = NoLeaf THEN 0 ELSE PlenOf(c)
             chg(op, node) == [op |-> op, node |-> node, itf |-> x[1], addr |-> x[2],
                               old |-> old, new |-> new]
  <1>1. \A op, node : chg(op, node).itf = x[1]
    OBVIOUS
  <1> HIDE DEF r, c, old, new
  <1>2. CASE r = NoLeaf
    <2>1. ChangesOf(x) = <<chg("CREATED", "address"), chg("CREATED", "ip"), chg("CREATED", c.leaf)>>
      BY <1>2 DEF ChangesOf, r, c, old, new
    <2>2. QED BY <2>1
  <1>3. CASE r # NoLeaf /\ c = NoLeaf
    <2>1. ChangesOf(x) = <<chg("DELETED", "address"), chg("DELETED", "ip"), chg("DELETED", r.leaf)>>
      BY <1>3 DEF ChangesOf, r, c, old, new
    <2>2. QED BY <2>1
  <1>4. CASE r # NoLeaf /\ c # NoLeaf /\ r.leaf = c.leaf
    <2>1. ChangesOf(x) = <<chg("MODIFIED", c.leaf)>>
      BY <1>4 DEF ChangesOf, r, c, old, new
    <2>2. QED BY <2>1
  <1>5. CASE r # NoLeaf /\ c # NoLeaf /\ r.leaf # c.leaf
    <2>1. ChangesOf(x) = <<chg("DELETED", r.leaf), chg("CREATED", c.leaf)>>
      BY <1>5 DEF ChangesOf, r, c, old, new
    <2>2. QED BY <2>1
  <1>6. QED BY <1>2, <1>3, <1>4, <1>5

\* sysrepo starts a commit to ietf-interfaces; addresses are children of an
\* interface.
LEMMA OwnCommitStart ==
    ASSUME AgentInv, Own, CommitStart, \A n \in Ifs \ IetfIfs : candItf'[n] = NoItf,
           ocIntf' = ocIntf
    PROVE  Own'
  <1>1. \A x \in Ifs \X Addr : x[1] \notin IetfIfs => candAddr'[x] = NoLeaf
    BY DEF CommitStart
  <1>2. leftItf' \subseteq IetfIfs
    BY DEF CommitStart, Own
  <1>3. leftAddr' \subseteq IetfIfs \X Addr
    BY <1>1 DEF CommitStart, Own
  <1>4. UNCHANGED <<runItf, runAddr, builder, intf, loc, todo>>
    BY DEF CommitStart
  <1>5. QED BY <1>1, <1>2, <1>3, <1>4 DEF Own, IetfItf

\* A commit to ietf-interfaces ends, or the process does, or starts again.
LEMMA OwnCommitEnd ==
    ASSUME Own, CommitApply \/ CommitAbort \/ ProcessGone \/ PluginRestart,
           ocIntf' \in {ocIntf, NoItf}
    PROVE  Own'
  <1>1. NoItf \in IetfItf /\ NoLocals.if_name = NoItf /\ NoBuilder.name = NoItf
    BY DEF IetfItf, NoLocals, NoBuilder
  <1>2. CASE CommitApply
    BY <1>2 DEF CommitApply, Own, IetfItf, createVars, addrVars
  <1>3. CASE CommitAbort
    BY <1>1, <1>3 DEF CommitAbort, Discard, LocalsGone, Own, IetfItf
  <1>4. CASE ProcessGone
    BY <1>1, <1>4 DEF ProcessGone, LocalsGone, dsVars, Own, IetfItf
  <1>5. CASE PluginRestart
    BY <1>1, <1>5 DEF PluginRestart, Discard, LocalsGone, Own, IetfItf
  <1>6. QED BY <1>2, <1>3, <1>4, <1>5

\* The callbacks of ietf-interfaces (ietf_interface.cpp:96-206, :276-369).
LEMMA OwnCallback ==
    ASSUME AgentInv, Own, IetfCallback, ocIntf' \in {ocIntf, NoItf}
    PROVE  Own'
  <1>1. NoItf \in IetfItf /\ NoLocals.if_name = NoItf /\ NoBuilder.name = NoItf
    BY DEF IetfItf, NoLocals, NoBuilder
  <1>2. CASE CreateCbChange
    <2>1. PICK n \in leftItf : leftItf' = leftItf \ {n}
                               /\ (CreatedItf(n) \/ DeletedItf(n) \/ ModifiedItf(n))
      BY <1>2 DEF CreateCbChange
    <2>2. n \in IetfItf
      BY <2>1 DEF Own, IetfItf
    <2>3. builder'.name \in IetfItf /\ intf' \in IetfItf
      <3>1. builder \in [name : Ifs \cup {NoItf}, type : BOOLEAN, state : BOOLEAN \cup {NoLeaf}]
        BY DEF AgentInv, IInv, Plugin, CreateTypeOK
      <3>2. CASE CreatedItf(n)
        BY <2>2, <3>2 DEF CreatedItf, Own
      <3>3. CASE DeletedItf(n)
        BY <2>2, <3>1, <3>3 DEF DeletedItf, Own
      <3>4. CASE ModifiedItf(n)
        <4>1. builder'.name = builder.name
          BY <3>1, <3>4 DEF ModifiedItf
        <4>2. intf' \in {intf, n}
          BY <3>4 DEF ModifiedItf
        <4>3. QED BY <2>2, <4>1, <4>2 DEF Own
      <3>5. QED BY <2>1, <3>2, <3>3, <3>4
    <2>4. UNCHANGED <<runItf, candItf, runAddr, candAddr, leftAddr, loc, todo>>
      BY <1>2 DEF CreateCbChange, dsVars, addrVars
    <2>5. QED BY <2>1, <2>3, <2>4 DEF Own
  <1>3. CASE CreateCbFinish
    BY <1>1, <1>3 DEF CreateCbFinish, LocalsGone, dsVars, addrVars, Own
  <1>4. CASE AddrCbNext
    <2>1. PICK x \in leftAddr : leftAddr' = leftAddr \ {x} /\ todo' = ChangesOf(x)
      BY <1>4 DEF AddrCbNext
    <2>2. x \in Ifs \X Addr /\ runAddr[x] # candAddr[x] /\ x[1] \in IetfIfs
      BY <1>4, <2>1 DEF AddrCbNext, AgentInv, IInv, Plugin, LeftOK, ChangedAddr, Own
    <2>3. \A i \in DOMAIN todo' : todo'[i].itf \in IetfIfs
      BY <2>1, <2>2, ChangesAbout
    <2>4. UNCHANGED <<runItf, candItf, runAddr, candAddr, leftItf, builder, intf, loc>>
      BY <1>4 DEF AddrCbNext, dsVars, createVars
    <2>5. QED BY <2>1, <2>3, <2>4 DEF Own
  <1>5. CASE AddrCbParse
    <2>1. todo \in Seq(Change) /\ todo # <<>>
      BY <1>5 DEF AddrCbParse, AgentInv, IInv, Plugin, AddrTypeOK
    <2>2. loc'.if_name = Head(todo).itf /\ todo' = Tail(todo)
      BY <1>5 DEF AddrCbParse, Parsed
    <2>3. Head(todo).itf \in IetfItf
      BY <2>1 DEF Own, IetfItf
    <2>4. \A i \in DOMAIN Tail(todo) : Tail(todo)[i].itf \in IetfIfs
      BY <2>1 DEF Own
    <2>5. UNCHANGED <<runItf, candItf, runAddr, candAddr, leftItf, leftAddr, builder, intf>>
      BY <1>5 DEF AddrCbParse, dsVars, createVars
    <2>6. QED BY <2>2, <2>3, <2>4, <2>5 DEF Own
  <1>6. CASE AddrCbDel \/ AddrCbAdd
    <2>1. loc'.if_name = loc.if_name
      BY <1>6 DEF AddrCbDel, AddrCbAdd, ipv46_config_add_remove, ConfigAdd, ConfigRemove,
             AgentInv, IInv, Plugin, AddrTypeOK
    <2>2. UNCHANGED <<runItf, candItf, runAddr, candAddr, leftItf, leftAddr, builder, intf, todo>>
      BY <1>6 DEF AddrCbDel, AddrCbAdd, dsVars, createVars
    <2>3. QED BY <2>1, <2>2 DEF Own
  <1>7. CASE AddrCbReturn
    BY <1>1, <1>7 DEF AddrCbReturn, dsVars, createVars, Own
  <1>8. QED BY <1>2, <1>3, <1>4, <1>5, <1>6, <1>7 DEF IetfCallback

\* The steps of openconfig-interfaces, or a crash in one of its callbacks
\* (openconfig_interfaces.cpp:82-193).
LEMMA OwnOc ==
    ASSUME AgentInv, Own, OcStep \/ StateRequestDies PROVE Own'
  <1>1. ASSUME OcDies PROVE Own'
    BY <1>1, OwnCommitEnd DEF OcDies, OcOver, OcLocalsGone
  <1>2. ASSUME UNCHANGED ietfVars, ocIntf' \in OcIfs \cup {NoItf} PROVE Own'
    BY <1>2 DEF ietfVars, dsVars, createVars, addrVars, Own, IetfItf
  <1>3. ocIntf \in OcIfs \cup {NoItf}
    BY DEF Own
  <1>4. CASE OcCommitStart \/ OcCommitApply \/ OcCommitAbort
    BY <1>2, <1>3, <1>4
    DEF OcCommitStart, OcCommitApply, OcCommitAbort, OcOver, OcLocalsGone, ocLocals
  <1>5. CASE OcCbChange
    <2>1. PICK n \in ocLeft : OcCreated(n) \/ OcDeleted(n) \/ OcModified(n)
      BY <1>5 DEF OcCbChange
    <2>2. n \in OcIfs
      BY <2>1 DEF AgentInv, OcInv, OcTypeOK
    <2>3. CASE OcCreated(n)
      BY <1>2, <1>3, <2>3 DEF OcCreated
    <2>4. CASE OcDeleted(n)
      BY <1>1, <2>4 DEF OcDeleted
    <2>5. CASE OcModified(n)
      BY <1>2, <1>3, <2>2, <2>5 DEF OcModified, OcFound, OcReturn, OcLocalsGone
    <2>6. QED BY <2>1, <2>3, <2>4, <2>5
  <1>6. CASE OcCbFinish
    <2>1. PICK uc \in OcUninitBool, um \in OcUninitBool, us \in OcUninitBool, ok \in Outcome :
             OcWrite(ocFlags.create \/ uc, ocFlags.modify \/ um, us, ok)
      BY <1>6, Zenon DEF OcCbFinish
    <2>2. OcDies \/ \E rc \in BOOLEAN : OcReturn(rc)
      BY <2>1 DEF OcWrite, OcFailAfterLoop
    <2>3. QED BY <1>1, <1>2, <2>2 DEF OcReturn, OcLocalsGone
  <1>7. CASE StateRequestDies
    BY <1>1, <1>7 DEF StateRequestDies
  <1>8. QED BY <1>4, <1>5, <1>6, <1>7 DEF OcStep

\* The invariant holds in every reachable state.
LEMMA OwnHolds == AgentSpec => []Own
  <1>1. AgentInit => Own
    BY DEF AgentInit, Init, OcInit, Own, IetfItf, NoBuilder, NoLocals
  <1>2. ASSUME AgentInv, Own, [AgentNext]_agentVars PROVE Own'
    <2>1. CASE IetfStep
      <3>1. ocIntf' \in {ocIntf, NoItf}
        BY <2>1 DEF IetfStep, OcOver, OcLocalsGone, ocVars, ocLocals
      <3>2. CASE CommitStart /\ \A n \in Ifs \ IetfIfs : candItf'[n] = NoItf
        <4>1. phase' # "crashed"
          BY <3>2 DEF CommitStart
        <4>2. QED BY <1>2, <2>1, <3>2, <4>1, OwnCommitStart DEF IetfStep, ocVars, ocLocals
      <3>3. QED BY <1>2, <2>1, <3>1, <3>2, OwnCommitEnd, OwnCallback DEF IetfStep
    <2>2. CASE Restart
      BY <1>2, <2>2, OwnCommitEnd DEF Restart, ocVars, ocLocals
    <2>3. CASE UNCHANGED agentVars
      BY <1>2, <2>3 DEF agentVars, vars, ocVars, ocLocals, dsVars, createVars, addrVars, Own, IetfItf
    <2>4. QED BY <1>2, <2>1, <2>2, <2>3, OwnOc DEF AgentNext
  <1>3. QED BY AgentInductive, <1>1, <1>2, PTL DEF AgentSpec

-----------------------------------------------------------------------------
(* What an accepted commit to openconfig-interfaces has done.              *)

\* The models configure different interfaces.
Separate == IetfIfs \cap OcIfs = {}

OcFresh == ocBuilder = NoBuilder /\ ocFlags = NoFlags /\ ocIntf = NoItf

\* After the loop over the changes of interface n, the flags and objects say what
\* the commit does to it.
OcSeen(n) ==
    /\ ocCand[n] # NoItf
    /\ \/ /\ ocRun[n] = NoItf
          /\ ocFlags.create /\ ocBuilder.name = n /\ ocBuilder.state = ocCand[n].enabled
       \/ ocRun[n] # NoItf /\ ~LeafModified(ocRun[n].enabled, ocCand[n].enabled)
       \/ /\ ocRun[n] # NoItf /\ LeafModified(ocRun[n].enabled, ocCand[n].enabled)
          /\ ocBuilder.name = NoItf
          /\ ocFlags.modify /\ ocIntf = n /\ admin[n] = ocCand[n].enabled

\* VPP has what the commit says of interface n.
OcReached(n) ==
    /\ ocCand[n] # NoItf
    /\ \/ ocCand[n].enabled = NoLeaf
       \/ ocRun[n] # NoItf /\ ~LeafModified(ocRun[n].enabled, ocCand[n].enabled)
       \/ n \in vppUp <=> ocCand[n].enabled

\* The course of a commit over one interface.
OcCourse(n) ==
    /\ ocPhase = "cb" /\ ocLeft # {} => OcFresh
    /\ ocPhase = "cb" /\ ocLeft = {} => OcSeen(n)
    /\ ocPhase = "decide" /\ ~ocRefused => OcReached(n)

OcHistory ==
    /\ ocPhase # "cb" => OcFresh
    /\ \A n \in OcIfs : OcChanged = {n} => OcCourse(n)

\* The end of a commit leaves nothing to tell.
LEMMA OcOverHistory == ASSUME NEW run, OcOver(run) PROVE OcHistory'
  BY DEF OcOver, OcLocalsGone, OcHistory, OcFresh, OcCourse

\* A written interface is in the state that was written, if the result is OK
\* (openconfig_interfaces.cpp:174-178).
LEMMA WriteReaches ==
    ASSUME VomInv, NEW n \in Ifs, NEW up \in BOOLEAN, NEW ok \in BOOLEAN,
           OM_write_itf(n, up, ok), ItfWriteRc(n, up, ok)
    PROVE  n \in vppUp' <=> up
  BY DEF VomInv, BeliefIsSound, OM_write_itf, ItfWriteRc, SendsItf

\* ietf-interfaces changes the state of no other model's interface: what an object
\* loses its last owner to is an operation on that object or on one of its addresses.
LEMMA OthersUntouched ==
    ASSUME AgentInv, Own, IetfStep, NEW n \in Ifs \ IetfIfs
    PROVE  n \in vppUp' <=> n \in vppUp
  <1>1. n # NoItf /\ n \notin IetfItf
    BY ConfigAssumption DEF IetfItf
  <1>2. CASE vppUp' = vppUp
    BY <1>2
  <1>3. ASSUME NEW m, m # n, NEW up, NEW ok, OM_write_itf(m, up, ok)
        PROVE  n \in vppUp' <=> n \in vppUp
    BY <1>3 DEF OM_write_itf
  <1>4. ASSUME NEW m, m # n, NEW ok, OM_remove_itf(m, ok)
        PROVE  n \in vppUp' <=> n \in vppUp
    BY <1>4 DEF OM_remove_itf, SweepItf, Found, LiveItf
  <1>5. ASSUME NEW b, b.itf # n, NEW ok, OM_remove_l3(b, ok)
        PROVE  n \in vppUp' <=> n \in vppUp
    BY <1>5 DEF OM_remove_l3, SweepItf, Found, LiveItf
  <1>6. CASE CommitStart \/ CommitApply \/ CommitAbort
    BY <1>2, <1>6 DEF CommitStart, CommitApply, CommitAbort, hwVars
  <1>7. CASE CreateCbChange
    <2>1. vppUp' = vppUp
      BY <1>7 DEF CreateCbChange, CreatedItf, DeletedItf, ModifiedItf, Itf_set, hwVars
    <2>2. QED BY <1>2, <2>1
  <1>8. CASE CreateCbFinish
    <2>1. builder.name # n /\ intf # n
      BY <1>1 DEF Own
    <2>2. PICK uc \in UninitBool, um \in UninitBool, ur \in UninitBool,
               us \in UninitBool, ok \in Outcome :
             WriteOrRemove(flags.create \/ uc, flags.modify \/ um, flags.remove \/ ur, us, ok)
      BY <1>8, Zenon DEF CreateCbFinish
    <2>3. ASSUME NEW create, NEW modify, NEW remove, WriteOrRemove(create, modify, remove, us, ok)
          PROVE  n \in vppUp' <=> n \in vppUp
      <3>1. Target(create) # n
        BY <2>1 DEF Target
      <3>2. \/ vppUp' = vppUp
            \/ OM_write_itf(Target(create), TargetState(create, us), ok)
            \/ OM_remove_itf(builder.name, ok)
        BY <2>3 DEF WriteOrRemove, hwVars
      <3>3. QED BY <1>3, <1>4, <2>1, <3>1, <3>2
    <2>4. QED BY <2>2, <2>3
  <1>9. CASE AddrCbNext \/ AddrCbParse \/ AddrCbReturn
    BY <1>2, <1>9 DEF AddrCbNext, AddrCbParse, AddrCbReturn, hwVars
  <1>10. CASE AddrCbDel \/ AddrCbAdd
    <2>1. loc.if_name # n
      BY <1>1 DEF Own
    <2>2. OldBinding.itf # n
      BY <2>1 DEF OldBinding
    <2>3. \/ vppUp' = vppUp
          \/ \E ok \in Outcome : OM_remove_l3(OldBinding, ok)
          \/ \E ok \in Outcome : OM_write_l3(NewBinding, ok)
      BY <1>10 DEF AddrCbDel, AddrCbAdd, ipv46_config_add_remove, ConfigAdd, ConfigRemove, hwVars
    <2>4. QED BY <1>2, <1>5, <2>2, <2>3 DEF OM_write_l3
  <1>11. QED BY <1>6, <1>7, <1>8, <1>9, <1>10 DEF IetfStep, IetfCallback

\* Steps of ietf-interfaces wait for a callback that has begun, and do not touch
\* the interface once it has returned.
LEMMA IetfStepHistory ==
    ASSUME Separate, AgentInv, Own, OcHistory, IetfStep PROVE OcHistory'
  <1>1. CASE phase' = "crashed"
    BY <1>1, OcOverHistory DEF IetfStep
  <1>2. CASE phase' # "crashed"
    <2>1. UNCHANGED ocVars
      BY <1>2 DEF IetfStep
    <2>2. OcChanged' = OcChanged
      BY <2>1 DEF ocVars, OcChanged
    <2>3. ASSUME NEW n \in OcIfs, OcChanged = {n} PROVE OcCourse(n)'
      <3>1. OcCourse(n)
        BY <2>3 DEF OcHistory
      <3>2. n \in Ifs \ IetfIfs
        BY OcAssumption DEF Separate
      <3>3. CASE ocPhase = "cb" /\ ocLeft = {}
        <4>1. OcBusy
          BY <2>3, <3>3 DEF OcBusy
        <4>2. admin' = admin
          BY <4>1 DEF IetfStep, CommitStart, CommitApply, CommitAbort, hwVars
        <4>3. QED BY <2>1, <3>1, <3>3, <4>2 DEF ocVars, ocLocals, OcCourse, OcSeen
      <3>4. CASE ocPhase = "decide"
        <4>1. n \in vppUp' <=> n \in vppUp
          BY <3>2, OthersUntouched
        <4>2. QED BY <2>1, <3>1, <3>4, <4>1 DEF ocVars, ocLocals, OcCourse, OcReached
      <3>5. CASE ocPhase # "decide" /\ ~(ocPhase = "cb" /\ ocLeft = {})
        BY <2>1, <3>1, <3>5 DEF ocVars, ocLocals, OcCourse, OcFresh
      <3>6. QED BY <3>3, <3>4, <3>5
    <2>4. QED BY <2>1, <2>2, <2>3 DEF OcHistory, OcFresh, ocVars, ocLocals
  <1>3. QED BY <1>1, <1>2

\* The callback visits the interface the commit is about
\* (openconfig_interfaces.cpp:110-161).
LEMMA OcCbChangeHistory ==
    ASSUME AgentInv, OcHistory, OcCbChange PROVE OcHistory'
  <1>1. PICK m \in ocLeft : OcCreated(m) \/ OcDeleted(m) \/ OcModified(m)
    BY DEF OcCbChange
  <1>2. ocPhase = "cb" /\ m \in OcIfs /\ m \in OcChanged
    BY <1>1 DEF OcCbChange, AgentInv, OcInv, OcTypeOK, OcLeftOK
  <1>3. CASE OcDies
    BY <1>3, OcOverHistory DEF OcDies
  <1>4. ASSUME OcReturn(FALSE) PROVE OcHistory'
    BY <1>4 DEF OcReturn, OcLocalsGone, OcHistory, OcFresh, OcCourse
  <1>5. ASSUME UNCHANGED <<ocRun, ocCand, ocPhase>>, ocLeft' = ocLeft \ {m},
               ASSUME OcFresh, ocCand[m] \in OcConfig \/ ocRun[m] # NoItf PROVE OcSeen(m)'
        PROVE  OcHistory'
    <2>1. OcChanged' = OcChanged
      BY <1>5 DEF OcChanged
    <2>2. ASSUME NEW n \in OcIfs, OcChanged = {n} PROVE OcCourse(n)'
      <3>1. m = n /\ ocLeft = {n} /\ ocLeft' = {}
        BY <1>1, <1>2, <1>5, <2>2 DEF AgentInv, OcInv, OcLeftOK
      <3>2. OcFresh
        BY <1>2, <2>2, <3>1 DEF OcHistory, OcCourse
      <3>3. ocCand[m] \in OcConfig \/ ocRun[m] # NoItf
        BY <1>2 DEF AgentInv, OcInv, OcTypeOK, OcChanged
      <3>4. QED BY <1>2, <1>5, <3>1, <3>2, <3>3 DEF OcCourse
    <2>3. QED BY <1>2, <1>5, <2>1, <2>2 DEF OcHistory
  <1>6. ocRun[m] \in OcConfig \cup {NoItf} /\ ocCand[m] \in OcConfig \cup {NoItf}
        /\ ocRun[m] # ocCand[m]
    BY <1>2 DEF AgentInv, OcInv, OcTypeOK, OcChanged
  <1>7. CASE OcCreated(m)
    <2>1. ASSUME OcFresh PROVE OcSeen(m)'
      BY <1>6, <1>7, <2>1 DEF OcCreated, OcSeen, OcFresh, NoBuilder, NoFlags
    <2>2. QED BY <1>5, <1>7, <2>1 DEF OcCreated
  <1>8. CASE OcDeleted(m)
    BY <1>3, <1>8 DEF OcDeleted
  <1>9. CASE OcModified(m)
    <2>1. ocCand[m] # NoItf /\ ocRun[m] # NoItf
      BY <1>6, <1>9 DEF OcModified, OcDeletes
    <2>2. CASE ~LeafModified(ocRun[m].enabled, ocCand[m].enabled)
      <3>1. OcSeen(m)'
        BY <1>9, <2>1, <2>2 DEF OcModified, OcSeen
      <3>2. QED BY <1>5, <1>9, <2>2, <3>1 DEF OcModified
    <2>3. CASE LeafModified(ocRun[m].enabled, ocCand[m].enabled) /\ OcFound(m) # NoItf
      <3>1. OcFound(m) = m /\ m \in Ifs
        BY <1>2, <2>3, OcAssumption DEF OcFound
      <3>2. ASSUME OcFresh PROVE OcSeen(m)'
        <4>1. admin'[m] = ocCand[m].enabled
          <5>1. Itf_set(OcFound(m), ocCand[m].enabled)
            BY <1>9, <2>3 DEF OcModified
          <5>2. QED BY <3>1, <5>1 DEF Itf_set, AgentInv, IInv, VomInv, VomTypeOK
        <4>2. ocFlags'.modify /\ ocIntf' = m /\ ocBuilder'.name = NoItf
          <5>1. /\ ocFlags' = [ocFlags EXCEPT !.modify = TRUE]
                /\ ocIntf' = OcFound(m) /\ ocBuilder' = ocBuilder
            BY <1>9, <2>3 DEF OcModified
          <5>2. QED BY <3>1, <3>2, <5>1 DEF OcFresh, NoBuilder, NoFlags
        <4>3. UNCHANGED <<ocRun, ocCand>>
          BY <1>9, <2>3 DEF OcModified
        <4> DEFINE r == ocRun[m]
                   c == ocCand[m]
        <4>4. ocRun'[m] = r /\ ocCand'[m] = c
          BY <4>3
        <4>5. r # NoItf /\ c # NoItf /\ LeafModified(r.enabled, c.enabled) /\ admin'[m] = c.enabled
          BY <2>1, <2>3, <4>1
        <4> HIDE DEF r, c
        <4>6. QED BY <4>2, <4>4, <4>5, Zenon DEF OcSeen, r, c
      <3>3. QED BY <1>5, <1>9, <2>3, <3>2 DEF OcModified
    <2>4. CASE LeafModified(ocRun[m].enabled, ocCand[m].enabled) /\ OcFound(m) = NoItf
      BY <1>4, <1>9, <2>4 DEF OcModified
    <2>5. QED BY <2>2, <2>3, <2>4
  <1>10. QED BY <1>1, <1>7, <1>8, <1>9

\* The callback writes what the loop has seen, and refuses the commit or dies if
\* that fails (openconfig_interfaces.cpp:163-192).
LEMMA OcCbFinishHistory ==
    ASSUME AgentInv, OcHistory, OcCbFinish PROVE OcHistory'
  <1>1. PICK uc \in OcUninitBool, um \in OcUninitBool, us \in OcUninitBool, ok \in Outcome :
           OcWrite(ocFlags.create \/ uc, ocFlags.modify \/ um, us, ok)
    BY Zenon DEF OcCbFinish
  <1>2. ocPhase = "cb" /\ ocLeft = {}
    BY DEF OcCbFinish
  <1>3. CASE OcDies
    BY <1>3, OcOverHistory DEF OcDies
  <1>4. CASE OcReturn(FALSE)
    BY <1>4 DEF OcReturn, OcLocalsGone, OcHistory, OcFresh, OcCourse
  <1>5. CASE OcReturn(TRUE) /\ ~OcDies /\ ~OcReturn(FALSE)
    <2>1. UNCHANGED <<ocRun, ocCand>> /\ ocPhase' = "decide" /\ OcFresh'
      BY <1>5 DEF OcReturn, OcLocalsGone, OcFresh
    <2>2. ASSUME NEW n \in OcIfs, OcChanged = {n} PROVE OcReached(n)'
      <3>1. OcSeen(n)
        BY <1>2, <2>2 DEF OcHistory, OcCourse
      <3>2. ok \in BOOLEAN /\ us \in BOOLEAN /\ n \in Ifs /\ VomInv
        BY ConfigAssumption, OcAssumption DEF AgentInv, IInv
      <3>3. ocRun[n] \in OcConfig \cup {NoItf} /\ ocCand[n] \in OcConfig
        BY <3>1 DEF OcSeen, AgentInv, OcInv, OcTypeOK
      <3>4. ocCand[n].enabled \in BOOLEAN \cup {NoLeaf}
        BY <3>3, OcAssumption DEF OcConfig
      <3>5. SUFFICES ASSUME ocCand[n].enabled # NoLeaf,
                            ocRun[n] = NoItf \/ LeafModified(ocRun[n].enabled, ocCand[n].enabled)
                     PROVE  n \in vppUp' <=> ocCand[n].enabled
        BY <2>1, <3>1 DEF OcSeen, OcReached
      <3>6. ocCand[n].enabled \in BOOLEAN
        BY <3>4, <3>5
      <3>7. ASSUME OM_write_itf(n, ocCand[n].enabled, ok), ItfWriteRc(n, ocCand[n].enabled, ok)
            PROVE  n \in vppUp' <=> ocCand[n].enabled
        BY <3>2, <3>6, <3>7, WriteReaches
      <3>8. CASE ocRun[n] = NoItf
        <4>1. ocFlags.create /\ ocBuilder.name = n /\ ocBuilder.state = ocCand[n].enabled
          BY <3>1, <3>8 DEF OcSeen
        <4>2. /\ OM_write_itf(n, ocCand[n].enabled, ok)
              /\ ItfWriteRc(n, ocCand[n].enabled, ok)
          BY <1>1, <1>5, <3>5, <4>1 DEF OcWrite, OcFailAfterLoop
        <4>3. QED BY <3>7, <4>2
      <3>9. CASE ocRun[n] # NoItf
        <4>1. /\ ocBuilder.name = NoItf /\ ocFlags.modify
              /\ ocIntf = n /\ admin[n] = ocCand[n].enabled
          BY <3>1, <3>5, <3>9 DEF OcSeen
        <4>2. CASE ocFlags.create \/ uc
          BY <1>1, <1>5, <4>1, <4>2 DEF OcWrite, OcFailAfterLoop, OcBuilt
        <4>3. CASE ~(ocFlags.create \/ uc)
          <5>1. /\ OM_write_itf(n, ocCand[n].enabled, ok)
                /\ ItfWriteRc(n, ocCand[n].enabled, ok)
            BY <1>1, <1>5, <4>1, <4>3 DEF OcWrite, OcFailAfterLoop
          <5>2. QED BY <3>7, <5>1
        <4>4. QED BY <4>2, <4>3
      <3>10. QED BY <3>8, <3>9
    <2>3. QED BY <2>1, <2>2 DEF OcHistory, OcCourse, OcChanged
  <1>6. OcDies \/ \E rc \in BOOLEAN : OcReturn(rc)
    BY <1>1 DEF OcWrite, OcFailAfterLoop
  <1>7. QED BY <1>3, <1>4, <1>5, <1>6

\* The invariant holds in every reachable state.
LEMMA OcHistoryHolds == Separate => (AgentSpec => []OcHistory)
  <1> SUFFICES ASSUME Separate PROVE AgentSpec => []OcHistory
    OBVIOUS
  <1>1. AgentInit => OcHistory
    BY DEF AgentInit, OcInit, OcHistory, OcFresh, OcCourse
  <1>2. ASSUME AgentInv, Own, OcHistory, [AgentNext]_agentVars PROVE OcHistory'
    <2>1. CASE IetfStep
      BY <1>2, <2>1, IetfStepHistory
    <2>2. CASE OcCommitStart
      <3>1. ocLeft' = OcChanged' /\ ocPhase' = "cb" /\ OcFresh'
        BY <1>2, <2>2 DEF OcCommitStart, OcChanged, OcHistory, OcFresh, ocLocals
      <3>2. QED BY <3>1 DEF OcHistory, OcCourse
    <2>3. CASE OcCommitApply \/ OcCommitAbort \/ StateRequestDies
      BY <2>3, OcOverHistory DEF OcCommitApply, OcCommitAbort, StateRequestDies, OcDies
    <2>4. CASE OcCbChange
      BY <1>2, <2>4, OcCbChangeHistory
    <2>5. CASE OcCbFinish
      BY <1>2, <2>5, OcCbFinishHistory
    <2>6. CASE Restart
      BY <1>2, <2>6 DEF Restart, ocVars, ocLocals, OcHistory, OcFresh, OcCourse, OcChanged
    <2>7. CASE UNCHANGED agentVars
      BY <1>2, <2>7 DEF agentVars, vars, hwVars, ocVars, ocLocals, OcHistory, OcFresh, OcCourse,
                        OcChanged, OcSeen, OcReached
    <2>8. QED BY <1>2, <2>1, <2>2, <2>3, <2>4, <2>5, <2>6, <2>7 DEF AgentNext, OcStep
  <1>3. QED BY AgentInductive, OwnHolds, <1>1, <1>2, PTL DEF AgentSpec

\* An accepted commit to openconfig-interfaces over one interface, that creates it
\* with leaf enabled or changes the value of that leaf, has brought VPP to that
\* state, whatever fails and however the commits and callbacks of ietf-interfaces,
\* to other interfaces, are interleaved with it (openconfig_interfaces.cpp:110-186).
\* A leaf that is added to an interface that is there is not covered, and the
\* callback may indeed agree to it without a write.
THEOREM OcReachesVpp == Separate => (AgentSpec => AcceptedOcReachesVpp)
  <1> SUFFICES ASSUME Separate PROVE AgentSpec => AcceptedOcReachesVpp
    OBVIOUS
  <1> DEFINE Done(n) ==
          OcChanged = {n} /\ OcSetsEnabled(n) => (n \in vppUp' <=> ocCand[n].enabled)
  <1>1. ASSUME OcHistory, AgentNext, ocPhase = "decide", ocRun' = ocCand, ocRun' # ocRun
        PROVE  \A n \in OcIfs : Done(n)
    <2>1. CASE OcCommitApply
      <3>1. ~ocRefused /\ vppUp' = vppUp
        BY <2>1 DEF OcCommitApply, hwVars
      <3>2. QED BY <1>1, <3>1 DEF OcHistory, OcCourse, OcReached, OcSetsEnabled, LeafModified
    <2>2. CASE ~OcCommitApply
      <3>1. ocRun' = ocRun
        BY <1>1, <2>2 DEF AgentNext, IetfStep, OcStep, OcCommitStart, OcCommitAbort, OcCbChange,
               OcCbFinish, StateRequestDies, OcDies, Restart, OcOver, ocVars
      <3>2. QED BY <1>1, <3>1
    <2>3. QED BY <2>1, <2>2
  <1>2. OcHistory /\ [AgentNext]_agentVars =>
           [ocPhase = "decide" /\ ocRun' = ocCand /\ ocRun' # ocRun
              => \A n \in OcIfs : Done(n)]_agentVars
    BY <1>1
  <1>3. QED BY <1>2, OcHistoryHolds, PTL DEF AgentSpec, AcceptedOcReachesVpp

-----------------------------------------------------------------------------
(* The process as ietf-interfaces sees it.                                 *)

USE DEF Bindings, Restricted

\* The instances there are (ietf_interface.cpp:139, :217).
LEMMA FoundView == Ietf!Found = Found \cap IetfIfs
  BY DEF Ietf!Found, Ietf!LiveItf, Found, LiveItf

\* The operations of VOM, on interfaces and bindings of ietf-interfaces, are those
\* on the part it sees (ietf_interface.cpp:142, :185, :194, :230, :236).
LEMMA SetView ==
    ASSUME VomInv, NEW n \in IetfIfs, NEW up, Itf_set(n, up)
    PROVE  Ietf!Itf_set(n, up)
  <1>1. n \in Ifs /\ IetfIfs \subseteq Ifs
    BY AgentAssumption
  <1>2. Restricted(admin, IetfIfs)' = [Restricted(admin, IetfIfs) EXCEPT ![n] = up]
    BY <1>1 DEF VomInv, VomTypeOK, Itf_set
  <1>3. (adminOk \cap IetfIfs)' = (adminOk \cap IetfIfs) \ {n}
    BY DEF Itf_set
  <1>4. QED BY <1>2, <1>3 DEF Itf_set, Ietf!Itf_set

LEMMA SendsView ==
    ASSUME NEW n \in IetfIfs, NEW up
    PROVE  /\ Ietf!SendsItf(n, up) <=> SendsItf(n, up)
           /\ \A ok : Ietf!ItfWriteRc(n, up, ok) <=> ItfWriteRc(n, up, ok)
  BY FoundView DEF SendsItf, Ietf!SendsItf, ItfWriteRc, Ietf!ItfWriteRc

LEMMA WriteItfView ==
    ASSUME VomInv, NEW n \in IetfIfs, NEW up, NEW ok, OM_write_itf(n, up, ok)
    PROVE  Ietf!OM_write_itf(n, up, ok)
  <1>1. n \in Ifs /\ IetfIfs \subseteq Ifs
    BY AgentAssumption
  <1>2. Restricted(admin, IetfIfs)' = [Restricted(admin, IetfIfs) EXCEPT ![n] = up]
    BY <1>1 DEF VomInv, VomTypeOK, OM_write_itf
  <1>3. (usrItf \cap IetfIfs)' = (usrItf \cap IetfIfs) \cup {n}
    BY DEF OM_write_itf
  <1>4. (adminOk \cap IetfIfs)' = IF SendsItf(n, up) /\ ~ok
                                 THEN (adminOk \cap IetfIfs) \ {n}
                                 ELSE (adminOk \cap IetfIfs) \cup {n}
    BY DEF OM_write_itf
  <1>5. (vppUp \cap IetfIfs)' = IF SendsItf(n, up) /\ ok
                               THEN IF up THEN (vppUp \cap IetfIfs) \cup {n}
                                    ELSE (vppUp \cap IetfIfs) \ {n}
                               ELSE vppUp \cap IetfIfs
    BY DEF OM_write_itf
  <1>6. QED BY <1>2, <1>3, <1>4, <1>5, SendsView DEF OM_write_itf, Ietf!OM_write_itf

LEMMA SweepView ==
    ASSUME NEW gone, NEW ok, SweepItf(gone, ok) PROVE Ietf!SweepItf(gone \cap IetfIfs, ok)
  <1>1. (adminOk \cap IetfIfs)' = (adminOk \cap IetfIfs) \ (gone \cap IetfIfs)
    BY DEF SweepItf
  <1>2. (vppUp \cap IetfIfs)' = IF ok THEN (vppUp \cap IetfIfs)
                                         \ ((gone \cap IetfIfs) \cap (adminOk \cap IetfIfs))
                               ELSE vppUp \cap IetfIfs
    BY DEF SweepItf
  <1>3. QED BY <1>1, <1>2 DEF SweepItf, Ietf!SweepItf

LEMMA RemoveItfView ==
    ASSUME NEW n, NEW ok, OM_remove_itf(n, ok) PROVE Ietf!OM_remove_itf(n, ok)
  <1> DEFINE gone == Found \ LiveItf(bootItf \cup usrItf', bootL3 \cup usrL3)
             mine == Ietf!Found \ Ietf!LiveItf(
                        (bootItf \cap IetfIfs) \cup (usrItf \cap IetfIfs)',
                        Bindings(bootL3, IetfIfs) \cup Bindings(usrL3, IetfIfs))
  <1>1. gone \cap IetfIfs = mine
    BY DEF Ietf!Found, Ietf!LiveItf, Found, LiveItf
  <1>2. Ietf!SweepItf(gone \cap IetfIfs, ok)
    BY SweepView DEF OM_remove_itf
  <1>3. (usrItf \cap IetfIfs)' = (usrItf \cap IetfIfs) \ {n}
    BY DEF OM_remove_itf
  <1>4. QED BY <1>1, <1>2, <1>3 DEF OM_remove_itf, Ietf!OM_remove_itf

LEMMA WriteL3View ==
    ASSUME NEW b, b.itf \in IetfIfs, NEW ok, OM_write_l3(b, ok)
    PROVE  Ietf!OM_write_l3(b, ok)
  <1>1. Bindings(usrL3, IetfIfs)' = Bindings(usrL3, IetfIfs) \cup {b}
    BY DEF OM_write_l3
  <1>2. Bindings(l3Ok, IetfIfs)' = IF ok THEN Bindings(l3Ok, IetfIfs) \cup {b}
                                   ELSE Bindings(l3Ok, IetfIfs)
    BY DEF OM_write_l3
  <1>3. Bindings(vppL3, IetfIfs)' = IF ok /\ b \notin Bindings(l3Ok, IetfIfs)
                                    THEN Bindings(vppL3, IetfIfs) \cup {b}
                                    ELSE Bindings(vppL3, IetfIfs)
    BY DEF OM_write_l3
  <1>4. QED BY <1>1, <1>2, <1>3 DEF OM_write_l3, Ietf!OM_write_l3

LEMMA RemoveL3View ==
    ASSUME NEW b, b.itf \in IetfIfs, NEW ok, OM_remove_l3(b, ok)
    PROVE  Ietf!OM_remove_l3(b, ok)
  <1> DEFINE gone == Found \ LiveItf(bootItf \cup usrItf, bootL3 \cup usrL3')
             mine == Ietf!Found \ Ietf!LiveItf(
                        (bootItf \cap IetfIfs) \cup (usrItf \cap IetfIfs),
                        Bindings(bootL3, IetfIfs) \cup Bindings(usrL3, IetfIfs)')
             cut == ({b} \cap usrL3) \ bootL3
             myCut == ({b} \cap Bindings(usrL3, IetfIfs)) \ Bindings(bootL3, IetfIfs)
  <1>1. gone \cap IetfIfs = mine
    BY DEF Ietf!Found, Ietf!LiveItf, Found, LiveItf
  <1>2. Ietf!SweepItf(gone \cap IetfIfs, ok)
    BY SweepView DEF OM_remove_l3
  <1>3. cut = myCut
    OBVIOUS
  <1>4. Bindings(usrL3, IetfIfs)' = Bindings(usrL3, IetfIfs) \ {b}
    BY DEF OM_remove_l3
  <1>5. Bindings(l3Ok, IetfIfs)' = Bindings(l3Ok, IetfIfs) \ myCut
    BY <1>3 DEF OM_remove_l3
  <1>6. Bindings(vppL3, IetfIfs)' = IF ok THEN Bindings(vppL3, IetfIfs)
                                             \ (myCut \cap Bindings(l3Ok, IetfIfs))
                                    ELSE Bindings(vppL3, IetfIfs)
    BY <1>3 DEF OM_remove_l3
  <1>7. QED BY <1>1, <1>2, <1>4, <1>5, <1>6 DEF OM_remove_l3, Ietf!OM_remove_l3

LEMMA PopulateView == ASSUME OM_populate PROVE Ietf!OM_populate
  <1>1. (bootItf \cap IetfIfs)' = Ietf!LiveItf((AtBoot \cap IetfIfs) \cup (vppUp \cap IetfIfs),
                                              Bindings(vppL3, IetfIfs))
    BY DEF OM_populate, LiveItf, Ietf!LiveItf
  <1>2. (adminOk \cap IetfIfs)' = (bootItf \cap IetfIfs)'
    BY DEF OM_populate
  <1>3. Restricted(admin, IetfIfs)' = [n \in IetfIfs |-> n \in vppUp \cap IetfIfs]
    BY AgentAssumption DEF OM_populate
  <1>4. QED BY <1>1, <1>2, <1>3 DEF OM_populate, Ietf!OM_populate, vppVars, Ietf!vppVars

\* What is not about its interfaces it does not see.
LEMMA Unseen ==
    ASSUME VomInv, NEW n \in Ifs \ IetfIfs, NEW up, NEW ok,
           Itf_set(n, up) \/ OM_write_itf(n, up, ok)
    PROVE  UNCHANGED Ietf!hwVars
  <1>1. IetfIfs \subseteq Ifs
    BY AgentAssumption
  <1>2. Restricted(admin, IetfIfs)' = Restricted(admin, IetfIfs)
    BY <1>1 DEF VomInv, VomTypeOK, Itf_set, OM_write_itf
  <1>3. /\ (adminOk \cap IetfIfs)' = adminOk \cap IetfIfs
        /\ (usrItf \cap IetfIfs)' = usrItf \cap IetfIfs
        /\ (vppUp \cap IetfIfs)' = vppUp \cap IetfIfs
    BY DEF Itf_set, OM_write_itf
  <1>4. UNCHANGED <<bootItf, bootL3, usrL3, l3Ok, vppL3>>
    BY DEF Itf_set, OM_write_itf
  <1>5. QED BY <1>2, <1>3, <1>4 DEF Ietf!hwVars

LEMMA StillView == ASSUME UNCHANGED hwVars PROVE UNCHANGED Ietf!hwVars
  BY DEF hwVars, Ietf!hwVars

LEMMA DsView == ASSUME UNCHANGED dsVars PROVE UNCHANGED Ietf!dsVars
  BY DEF dsVars, Ietf!dsVars

\* Operators about values only.
LEMMA ValueView ==
    /\ Ietf!NoBuilder = NoBuilder /\ Ietf!NoFlags = NoFlags /\ Ietf!NoLocals = NoLocals
    /\ Ietf!AddrPhase = AddrPhase /\ Ietf!Family = Family
    /\ Ietf!OldBinding = OldBinding /\ Ietf!NewBinding = NewBinding
    /\ \A s : Ietf!PlenOf(s) = PlenOf(s)
    /\ \A l, c : Ietf!Parsed(l, c) = Parsed(l, c)
    /\ \A o, n : Ietf!LeafCreated(o, n) <=> LeafCreated(o, n)
    /\ \A o, n : Ietf!LeafModified(o, n) <=> LeafModified(o, n)
    /\ \A o, n : Ietf!OpOn(o, n) = OpOn(o, n)
    /\ \A a, s : Ietf!Legal(a, s) <=> Legal(a, s)
    /\ \A next, rc : Ietf!Return(next, rc) <=> Return(next, rc)
    /\ Ietf!LocalsGone <=> LocalsGone
    /\ Ietf!FailAfterLoop <=> FailAfterLoop
  <1>1. Ietf!NoBuilder = NoBuilder /\ Ietf!NoFlags = NoFlags /\ Ietf!NoLocals = NoLocals
    BY DEF Ietf!NoBuilder, NoBuilder, Ietf!NoFlags, NoFlags, Ietf!NoLocals, NoLocals
  <1>2. Ietf!AddrPhase = AddrPhase /\ Ietf!Family = Family
    BY DEF Ietf!AddrPhase, AddrPhase, Ietf!Family, Family
  <1>3. Ietf!OldBinding = OldBinding /\ Ietf!NewBinding = NewBinding
    BY DEF Ietf!OldBinding, OldBinding, Ietf!NewBinding, NewBinding
  <1>4. \A s : Ietf!PlenOf(s) = PlenOf(s)
    BY DEF Ietf!PlenOf, PlenOf, Ietf!netmask_to_plen, netmask_to_plen
  <1>5. \A l, c : Ietf!Parsed(l, c) = Parsed(l, c)
    BY Zenon DEF Ietf!Parsed, Parsed, Ietf!ParsedAddr, ParsedAddr, Ietf!ParsedPrefix, ParsedPrefix
  <1>6. /\ \A o, n : Ietf!LeafCreated(o, n) <=> LeafCreated(o, n)
        /\ \A o, n : Ietf!LeafModified(o, n) <=> LeafModified(o, n)
        /\ \A o, n : Ietf!OpOn(o, n) = OpOn(o, n)
        /\ \A a, s : Ietf!Legal(a, s) <=> Legal(a, s)
    BY Zenon DEF Ietf!LeafCreated, LeafCreated, Ietf!LeafModified, LeafModified, Ietf!OpOn, OpOn,
                 Ietf!Legal, Legal
  <1>7. \A next, rc : Ietf!Return(next, rc) <=> Return(next, rc)
    BY DEF Ietf!Return, Return
  <1>8. (Ietf!LocalsGone <=> LocalsGone) /\ (Ietf!FailAfterLoop <=> FailAfterLoop)
    BY <1>1, <1>7 DEF Ietf!LocalsGone, LocalsGone, Ietf!FailAfterLoop, FailAfterLoop
  <1>9. QED BY <1>1, <1>2, <1>3, <1>4, <1>5, <1>6, <1>7, <1>8

LEMMA SizeView == ASSUME NEW s PROVE Ietf!Cardinality(s) = Cardinality(s)
  BY DEF Ietf!Cardinality, Cardinality, Ietf!IsFiniteSet, IsFiniteSet

LEMMA ChangesView ==
    ASSUME NEW x \in IetfIfs \X Addr PROVE Ietf!ChangesOf(x) = ChangesOf(x)
  <1>1. Restricted(runAddr, IetfIfs \X Addr)[x] = runAddr[x]
        /\ Restricted(candAddr, IetfIfs \X Addr)[x] = candAddr[x]
    OBVIOUS
  <1>2. \A s : Ietf!PlenOf(s) = PlenOf(s)
    BY ValueView
  <1> HIDE DEF Restricted
  <1>3. QED BY <1>1, <1>2, Zenon DEF Ietf!ChangesOf, ChangesOf

\* sysrepo's steps.
LEMMA CommitStartView ==
    ASSUME AgentInv, Own, CommitStart, \A n \in Ifs \ IetfIfs : candItf'[n] = NoItf
    PROVE  Ietf!CommitStart
  <1> DEFINE run == Restricted(runItf, IetfIfs)
             cand == Restricted(candItf, IetfIfs)
             runA == Restricted(runAddr, IetfIfs \X Addr)
             candA == Restricted(candAddr, IetfIfs \X Addr)
  <1>1. IetfIfs \subseteq Ifs
    BY AgentAssumption
  <1>2. cand' \in [IetfIfs -> Ietf!ItfConfig \cup {NoItf}]
    BY <1>1 DEF CommitStart, Ietf!ItfConfig, ItfConfig
  <1>3. candA' \in [IetfIfs \X Addr -> Subnet \cup {NoLeaf}]
    BY <1>1 DEF CommitStart
  <1>4. \A x \in IetfIfs \X Addr : candA'[x] # NoLeaf =>
           cand'[x[1]] # NoItf /\ Legal(x[2], candA'[x])
    BY <1>1 DEF CommitStart
  <1>5. leftItf' = {n \in IetfIfs : run[n] # cand'[n]}
    BY <1>1 DEF CommitStart, Own
  <1>6. \A x \in Ifs \X Addr : x[1] \notin IetfIfs => candAddr'[x] = NoLeaf
    BY DEF CommitStart
  <1>7. leftAddr' = {x \in IetfIfs \X Addr : runA[x] # candA'[x]}
    BY <1>1, <1>6 DEF CommitStart, Own
  <1>8. \A x \in leftAddr' : OpOn(runA[x], candA'[x]) \in AddrOps
    BY <1>7 DEF CommitStart
  <1>9. run' = run /\ runA' = runA /\ UNCHANGED Ietf!hwVars
    BY StillView DEF CommitStart
  <1>10. /\ phase = "idle" /\ phase' = "itf" /\ (leftItf' # {} \/ leftAddr' # {})
         /\ Cardinality(leftItf') <= MaxItfChanges /\ Cardinality(leftAddr') <= MaxAddrChanges
         /\ UNCHANGED <<refused, builder, flags, intf, todo, loc, pc, restarts>>
    BY DEF CommitStart
  <1> HIDE DEF run, cand, runA, candA
  <1>11. /\ \A x \in IetfIfs \X Addr : candA'[x] # NoLeaf =>
                cand'[x[1]] # NoItf /\ Ietf!Legal(x[2], candA'[x])
         /\ \A x \in leftAddr' : Ietf!OpOn(runA[x], candA'[x]) \in AddrOps
    BY <1>4, <1>8, ValueView
  <1> HIDE DEF Restricted
  <1>12. QED
    BY <1>2, <1>3, <1>5, <1>7, <1>9, <1>10, <1>11, SizeView
    DEF Ietf!CommitStart, run, cand, runA, candA

LEMMA CommitApplyView == ASSUME CommitApply PROVE Ietf!CommitApply
  BY StillView DEF CommitApply, Ietf!CommitApply, createVars, addrVars,
                   Ietf!createVars, Ietf!addrVars

LEMMA DiscardView == ASSUME Discard PROVE Ietf!Discard
  BY DEF Discard, Ietf!Discard

LEMMA CommitAbortView == ASSUME CommitAbort PROVE Ietf!CommitAbort
  BY StillView, DiscardView, ValueView DEF CommitAbort, Ietf!CommitAbort

LEMMA CrashView == ASSUME ProcessGone, UNCHANGED Ietf!hwVars PROVE Ietf!Crash
  BY DsView, ValueView, AgentAssumption DEF ProcessGone, Ietf!Crash, Ietf!ProcessGone

LEMMA RestartView == ASSUME PluginRestart PROVE Ietf!PluginRestart
  BY DiscardView, PopulateView, ValueView DEF PluginRestart, Ietf!PluginRestart

\* ietf_interface_create_cb visits a changed interface
\* (ietf_interface.cpp:128-169).
LEMMA CreateCbChangeView ==
    ASSUME AgentInv, Own, CreateCbChange PROVE Ietf!CreateCbChange
  <1>1. PICK n \in leftItf : leftItf' = leftItf \ {n}
                             /\ (CreatedItf(n) \/ DeletedItf(n) \/ ModifiedItf(n))
    BY DEF CreateCbChange
  <1>2. n \in IetfIfs /\ VomInv
    BY <1>1 DEF Own, AgentInv, IInv
  <1>3. /\ Restricted(runItf, IetfIfs)[n] = runItf[n]
        /\ Restricted(candItf, IetfIfs)[n] = candItf[n]
        /\ n \in Ietf!Found <=> n \in Found
    BY <1>2, FoundView
  <1> HIDE DEF Restricted
  <1>4. ASSUME CreatedItf(n) PROVE Ietf!CreatedItf(n)
    BY <1>3, <1>4, StillView DEF CreatedItf, Ietf!CreatedItf
  <1>5. ASSUME DeletedItf(n) PROVE Ietf!DeletedItf(n)
    BY <1>3, <1>5, StillView DEF DeletedItf, Ietf!DeletedItf
  <1>6. ASSUME ModifiedItf(n) PROVE Ietf!ModifiedItf(n)
    <2>1. \A up : Itf_set(n, up) => Ietf!Itf_set(n, up)
      BY <1>2, SetView
    <2>2. QED BY <1>3, <1>6, <2>1, StillView, ValueView DEF ModifiedItf, Ietf!ModifiedItf
  <1>7. UNCHANGED Ietf!dsVars /\ UNCHANGED Ietf!addrVars /\ restarts' = restarts
    BY DsView DEF CreateCbChange, addrVars, Ietf!addrVars
  <1>8. phase = "itf"
    BY DEF CreateCbChange
  <1>9. QED BY <1>1, <1>4, <1>5, <1>6, <1>7, <1>8 DEF Ietf!CreateCbChange

\* ietf_interface_create_cb writes or removes, and returns
\* (ietf_interface.cpp:171-206).
LEMMA CreateCbFinishView ==
    ASSUME AgentInv, Own, CreateCbFinish PROVE Ietf!CreateCbFinish
  <1>1. builder.name \in IetfItf /\ intf \in IetfItf /\ VomInv
    BY DEF Own, AgentInv, IInv
  <1>2. \A create : Ietf!Target(create) = Target(create)
    BY DEF Target, Ietf!Target
  <1>3. ASSUME NEW create \in BOOLEAN, NEW us, Target(create) # NoItf
        PROVE  Ietf!TargetState(create, us) = TargetState(create, us)
    BY <1>1, <1>3 DEF Target, TargetState, Ietf!TargetState, IetfItf
  <1>4. ASSUME NEW create \in BOOLEAN, NEW modify \in BOOLEAN, NEW remove \in BOOLEAN,
               NEW us \in UninitBool, NEW ok \in Outcome,
               WriteOrRemove(create, modify, remove, us, ok)
        PROVE  Ietf!WriteOrRemove(create, modify, remove, us, ok)
    <2> DEFINE built == builder.name # NoItf /\ builder.type
               target == Target(create)
               state == TargetState(create, us)
    <2>1. CASE create /\ ~built /\ FailAfterLoop /\ UNCHANGED hwVars
      BY <2>1, StillView, ValueView DEF Ietf!WriteOrRemove
    <2>2. CASE /\ create \/ modify
               /\ create => built
               /\ target # NoItf
               /\ OM_write_itf(target, state, ok)
               /\ IF ItfWriteRc(target, state, ok) THEN Return("ipv4", TRUE) ELSE FailAfterLoop
      <3>1. target \in IetfIfs
        BY <1>1, <2>2 DEF Target, IetfItf
      <3>2. Ietf!Target(create) = target /\ Ietf!TargetState(create, us) = state
        BY <1>2, <1>3, <2>2
      <3>3. Ietf!OM_write_itf(target, state, ok)
        BY <1>1, <2>2, <3>1, WriteItfView
      <3>4. Ietf!ItfWriteRc(target, state, ok) <=> ItfWriteRc(target, state, ok)
        BY <3>1, SendsView
      <3> HIDE DEF target, state
      <3>5. QED BY <2>2, <3>2, <3>3, <3>4, ValueView DEF Ietf!WriteOrRemove
    <2>3. CASE ~create /\ modify /\ target = NoItf /\ Return("crashed", FALSE) /\ UNCHANGED hwVars
      BY <1>2, <2>3, StillView, ValueView DEF Ietf!WriteOrRemove
    <2>4. CASE /\ ~create /\ ~modify /\ remove
               /\ OM_remove_itf(builder.name, ok)
               /\ Return("ipv4", TRUE)
      BY <2>4, RemoveItfView, ValueView DEF Ietf!WriteOrRemove
    <2>5. CASE ~create /\ ~modify /\ ~remove /\ Return("ipv4", TRUE) /\ UNCHANGED hwVars
      BY <2>5, StillView, ValueView DEF Ietf!WriteOrRemove
    <2>6. QED BY <1>4, <2>1, <2>2, <2>3, <2>4, <2>5 DEF WriteOrRemove
  <1>5. PICK uc \in UninitBool, um \in UninitBool, ur \in UninitBool,
             us \in UninitBool, ok \in Outcome :
           WriteOrRemove(flags.create \/ uc, flags.modify \/ um, flags.remove \/ ur, us, ok)
    BY Zenon DEF CreateCbFinish
  <1>6. /\ (flags.create \/ uc) \in BOOLEAN
        /\ (flags.modify \/ um) \in BOOLEAN
        /\ (flags.remove \/ ur) \in BOOLEAN
    OBVIOUS
  <1>7. Ietf!WriteOrRemove(flags.create \/ uc, flags.modify \/ um, flags.remove \/ ur, us, ok)
    BY <1>4, <1>5, <1>6, Zenon
  <1>8. /\ phase = "itf" /\ leftItf = {} /\ Ietf!LocalsGone
        /\ UNCHANGED <<Ietf!dsVars, leftItf, Ietf!addrVars, restarts>>
    BY DsView, ValueView DEF CreateCbFinish, addrVars, Ietf!addrVars
  <1>9. \E uc1, um1, ur1, us1 \in UninitBool, ok1 \in Outcome :
           Ietf!WriteOrRemove(flags.create \/ uc1, flags.modify \/ um1, flags.remove \/ ur1,
                              us1, ok1)
    <2> WITNESS uc \in UninitBool, um \in UninitBool, ur \in UninitBool, us \in UninitBool,
                ok \in Outcome
    <2>1. QED BY <1>7
  <1>10. QED BY <1>8, <1>9, Zenon DEF Ietf!CreateCbFinish

\* The address callback is handed a changed address, parses what is said of it,
\* and returns (ietf_interface.cpp:311-347, :362-369).
LEMMA AddrCbNextView == ASSUME AgentInv, Own, AddrCbNext PROVE Ietf!AddrCbNext
  <1>1. PICK x \in leftAddr : x[2] \in Family /\ leftAddr' = leftAddr \ {x}
                              /\ todo' = ChangesOf(x)
    BY DEF AddrCbNext
  <1>2. todo' = Ietf!ChangesOf(x)
    BY <1>1, ChangesView DEF Own
  <1>3. /\ phase \in AddrPhase /\ pc = "next" /\ todo = <<>>
        /\ UNCHANGED <<Ietf!dsVars, phase, refused, Ietf!createVars, loc, pc, restarts, Ietf!hwVars>>
    BY DsView, StillView DEF AddrCbNext, createVars, Ietf!createVars
  <1>4. QED BY <1>1, <1>2, <1>3, ValueView DEF Ietf!AddrCbNext

LEMMA AddrCbParseView == ASSUME AddrCbParse PROVE Ietf!AddrCbParse
  <1>1. /\ phase \in AddrPhase /\ pc = "next" /\ todo # <<>>
        /\ loc' = Parsed(loc, Head(todo)) /\ todo' = Tail(todo) /\ pc' = "del"
        /\ UNCHANGED <<Ietf!dsVars, phase, refused, Ietf!createVars, leftAddr, restarts, Ietf!hwVars>>
    BY DsView, StillView DEF AddrCbParse, createVars, Ietf!createVars
  <1>2. QED BY <1>1, ValueView DEF Ietf!AddrCbParse

LEMMA AddrCbReturnView == ASSUME AddrCbReturn PROVE Ietf!AddrCbReturn
  <1>1. /\ phase \in AddrPhase /\ pc = "next" /\ todo = <<>>
        /\ \A x \in leftAddr : x[2] \notin Family
        /\ Return(IF phase = "ipv4" THEN "ipv6" ELSE "decide", loc.op_rc)
        /\ loc' = NoLocals
        /\ UNCHANGED <<Ietf!dsVars, Ietf!createVars, leftAddr, todo, pc, restarts, Ietf!hwVars>>
    BY DsView, StillView DEF AddrCbReturn, createVars, Ietf!createVars
  <1>2. QED BY <1>1, ValueView DEF Ietf!AddrCbReturn

\* ipv46_config_add_remove, for a binding that is not there unless it is of an
\* interface of ietf-interfaces (ietf_interface.cpp:208-242).
LEMMA OperateView ==
    ASSUME VomInv, NEW b, NEW add \in BOOLEAN, b.itf \in IetfItf, ipv46_config_add_remove(b, add)
    PROVE  Ietf!ipv46_config_add_remove(b, add)
  <1>1. CASE b.itf \notin Found /\ loc' = [loc EXCEPT !.op_rc = FALSE] /\ UNCHANGED hwVars
    BY <1>1, FoundView, StillView DEF Ietf!ipv46_config_add_remove
  <1>2. ASSUME b.itf \in Found,
               NEW ok \in Outcome, IF add THEN ConfigAdd(b, ok) ELSE ConfigRemove(b, ok)
        PROVE  Ietf!ipv46_config_add_remove(b, add)
    <2>1. b.itf \in IetfIfs
      <3>1. NoItf \notin Found
        BY ConfigAssumption DEF VomInv, VomTypeOK, Found, LiveItf, Binding
      <3>2. QED BY <1>2, <3>1 DEF IetfItf
    <2>2. b.itf \in Ietf!Found
      BY <1>2, <2>1, FoundView
    <2>3. ASSUME add PROVE Ietf!ConfigAdd(b, ok)
      <3>1. Ietf!OM_write_l3(b, ok)
        BY <1>2, <2>1, <2>3, WriteL3View DEF ConfigAdd
      <3>2. Ietf!L3WriteRc(b, ok) = L3WriteRc(b, ok)
        BY <2>1 DEF Ietf!L3WriteRc, L3WriteRc
      <3>3. loc' = [loc EXCEPT !.op_rc = L3WriteRc(b, ok)]
        BY <1>2, <2>3 DEF ConfigAdd
      <3>4. QED BY <3>1, <3>2, <3>3 DEF Ietf!ConfigAdd
    <2>4. ASSUME ~add PROVE Ietf!ConfigRemove(b, ok)
      BY <1>2, <2>1, <2>4, RemoveL3View DEF ConfigRemove, Ietf!ConfigRemove
    <2>5. QED BY <1>2, <2>2, <2>3, <2>4 DEF Ietf!ipv46_config_add_remove
  <1>3. QED BY <1>1, <1>2 DEF ipv46_config_add_remove

\* The address callback removes and adds bindings (ietf_interface.cpp:349-357).
LEMMA AddrCbDelView == ASSUME VomInv, Own, AddrCbDel PROVE Ietf!AddrCbDel
  <1>1. /\ phase \in AddrPhase /\ pc = "del" /\ pc' = "add"
        /\ UNCHANGED <<Ietf!dsVars, phase, refused, Ietf!createVars, leftAddr, todo, restarts>>
    BY DsView DEF AddrCbDel, createVars, Ietf!createVars
  <1>2. OldBinding.itf \in IetfItf
    BY DEF Own, OldBinding
  <1>3. \/ (~loc.del \/ loc.old_addr = NoAddr) /\ loc' = loc /\ UNCHANGED Ietf!hwVars
        \/ loc.del /\ loc.old_addr # NoAddr /\ Ietf!ipv46_config_add_remove(OldBinding, FALSE)
    BY <1>2, OperateView, StillView DEF AddrCbDel
  <1>4. QED BY <1>1, <1>3, ValueView DEF Ietf!AddrCbDel

LEMMA AddrCbAddView == ASSUME VomInv, Own, AddrCbAdd PROVE Ietf!AddrCbAdd
  <1>1. /\ phase \in AddrPhase /\ pc = "add" /\ pc' = "next"
        /\ UNCHANGED <<Ietf!dsVars, phase, refused, Ietf!createVars, leftAddr, todo, restarts>>
    BY DsView DEF AddrCbAdd, createVars, Ietf!createVars
  <1>2. NewBinding.itf \in IetfItf
    BY DEF Own, NewBinding
  <1>3. \/ (~loc.create \/ loc.new_addr = NoAddr) /\ loc' = loc /\ UNCHANGED Ietf!hwVars
        \/ loc.create /\ loc.new_addr # NoAddr /\ Ietf!ipv46_config_add_remove(NewBinding, TRUE)
    BY <1>2, OperateView, StillView DEF AddrCbAdd
  <1>4. QED BY <1>1, <1>3, ValueView DEF Ietf!AddrCbAdd

\* The steps of ietf-interfaces are its own, with or without the others.
LEMMA IetfStepView == ASSUME AgentInv, Own, IetfStep PROVE Ietf!Next
  <1>1. VomInv
    BY DEF AgentInv, IInv
  <1>2. CASE CommitStart /\ \A n \in Ifs \ IetfIfs : candItf'[n] = NoItf
    BY <1>2, CommitStartView DEF Ietf!Next
  <1>3. CASE CommitApply \/ CommitAbort
    BY <1>3, CommitApplyView, CommitAbortView DEF Ietf!Next
  <1>4. CASE CreateCbChange \/ CreateCbFinish
    BY <1>4, CreateCbChangeView, CreateCbFinishView DEF Ietf!Next
  <1>5. CASE AddrCbNext \/ AddrCbParse \/ AddrCbDel \/ AddrCbAdd \/ AddrCbReturn
    BY <1>1, <1>5, AddrCbNextView, AddrCbParseView, AddrCbDelView, AddrCbAddView, AddrCbReturnView
    DEF Ietf!Next
  <1>6. QED BY <1>2, <1>3, <1>4, <1>5 DEF IetfStep, IetfCallback

\* A step of openconfig-interfaces, or a request for operational data, is not seen,
\* or seen as a crash.
LEMMA OcStepView ==
    ASSUME Separate, AgentInv, Own, OcStep \/ StateRequestDies
    PROVE  UNCHANGED Ietf!vars \/ Ietf!Crash
  <1>1. VomInv /\ ocIntf \in OcIfs \cup {NoItf} /\ ocBuilder.name \in OcIfs \cup {NoItf}
    BY DEF Own, AgentInv, IInv, OcInv, OcTypeOK
  <1>2. \A n \in OcIfs : n \in Ifs \ IetfIfs
    BY OcAssumption DEF Separate
  <1>3. ASSUME UNCHANGED ietfVars, UNCHANGED Ietf!hwVars PROVE UNCHANGED Ietf!vars
    BY <1>3, DsView DEF ietfVars, createVars, addrVars, Ietf!createVars, Ietf!addrVars, Ietf!vars
  <1>4. ASSUME OcDies, UNCHANGED Ietf!hwVars PROVE Ietf!Crash
    BY <1>4, CrashView DEF OcDies
  <1>5. CASE OcCommitStart \/ OcCommitApply \/ OcCommitAbort
    BY <1>3, <1>5, StillView DEF OcCommitStart, OcCommitApply, OcCommitAbort
  <1>6. CASE OcCbChange
    <2>1. PICK n \in ocLeft : OcCreated(n) \/ OcDeleted(n) \/ OcModified(n)
      BY <1>6 DEF OcCbChange
    <2>2. n \in Ifs \ IetfIfs
      BY <1>2, <2>1 DEF AgentInv, OcInv, OcTypeOK
    <2>3. CASE OcCreated(n)
      BY <1>3, <2>3, StillView DEF OcCreated
    <2>4. CASE OcDeleted(n)
      BY <1>4, <2>4, StillView DEF OcDeleted
    <2>5. CASE OcModified(n)
      <3>1. UNCHANGED ietfVars
        BY <2>5 DEF OcModified, OcReturn
      <3>2. UNCHANGED hwVars \/ \E up : Itf_set(n, up)
        BY <2>5 DEF OcModified, OcFound
      <3>3. UNCHANGED Ietf!hwVars
        BY <1>1, <2>2, <3>2, StillView, Unseen
      <3>4. QED BY <1>3, <3>1, <3>3
    <2>6. QED BY <2>1, <2>3, <2>4, <2>5
  <1>7. CASE OcCbFinish
    <2>1. PICK uc \in OcUninitBool, um \in OcUninitBool, us \in OcUninitBool, ok \in Outcome :
             OcWrite(ocFlags.create \/ uc, ocFlags.modify \/ um, us, ok)
      BY <1>7, Zenon DEF OcCbFinish
    <2>2. OcDies \/ UNCHANGED ietfVars
      BY <2>1 DEF OcWrite, OcFailAfterLoop, OcReturn
    <2>3. UNCHANGED hwVars \/ \E n \in OcIfs : \E up : OM_write_itf(n, up, ok)
      <3>1. ASSUME NEW n \in OcIfs \cup {NoItf}, n # NoItf PROVE n \in OcIfs
        BY <3>1
      <3>2. QED BY <1>1, <2>1, <3>1 DEF OcWrite
    <2>4. UNCHANGED Ietf!hwVars
      BY <1>1, <1>2, <2>3, StillView, Unseen
    <2>5. QED BY <1>3, <1>4, <2>2, <2>4
  <1>8. CASE StateRequestDies
    BY <1>4, <1>8, StillView DEF StateRequestDies
  <1>9. QED BY <1>5, <1>6, <1>7, <1>8 DEF OcStep

\* With interfaces of its own ietf-interfaces behaves as it does alone, up to crashes:
\* the process implements its specification, although openconfig-interfaces writes
\* through the same VOM under keys of the same form, and their commits and callbacks
\* interleave (openconfig_interfaces.cpp:135-182, ietf_interface.cpp:137-195).
THEOREM IetfIsUndisturbed == Separate => (AgentSpec => IetfUndisturbed)
  <1> SUFFICES ASSUME Separate PROVE AgentSpec => IetfUndisturbed
    OBVIOUS
  <1>1. AgentInit => Ietf!Init
    <2>1. SUFFICES ASSUME AgentInit PROVE Ietf!Init
      OBVIOUS
    <2>2. IetfIfs \subseteq Ifs
      BY AgentAssumption
    <2>3. Ietf!VomInit
      BY <2>1, <2>2 DEF AgentInit, Init, VomInit, Ietf!VomInit
    <2>4. /\ Restricted(runItf, IetfIfs) = [n \in IetfIfs |-> NoItf]
          /\ Restricted(candItf, IetfIfs) = [n \in IetfIfs |-> NoItf]
          /\ Restricted(runAddr, IetfIfs \X Addr) = [x \in IetfIfs \X Addr |-> NoLeaf]
          /\ Restricted(candAddr, IetfIfs \X Addr) = [x \in IetfIfs \X Addr |-> NoLeaf]
      BY <2>1, <2>2 DEF AgentInit, Init
    <2>5. QED BY <2>1, <2>3, <2>4, ValueView DEF AgentInit, Init, Ietf!Init
  <1>2. ASSUME AgentInv, Own, [AgentNext]_agentVars PROVE [Ietf!Next]_(Ietf!vars)
    <2>1. CASE IetfStep
      BY <1>2, <2>1, IetfStepView
    <2>2. CASE OcStep \/ StateRequestDies
      BY <1>2, <2>2, OcStepView DEF Ietf!Next
    <2>3. CASE Restart
      BY <2>3, RestartView DEF Restart, Ietf!Next
    <2>4. CASE UNCHANGED agentVars
      BY <2>4, DsView, StillView
      DEF agentVars, vars, createVars, addrVars, Ietf!createVars, Ietf!addrVars, Ietf!vars
    <2>5. QED BY <1>2, <2>1, <2>2, <2>3, <2>4 DEF AgentNext
  <1>3. QED BY AgentInductive, OwnHolds, <1>1, <1>2, PTL DEF AgentSpec, IetfUndisturbed, Ietf!Spec
=============================================================================
