------------------------------- MODULE Agent -------------------------------
(***************************************************************************)
(* The plugin process: the callbacks of ietf-interfaces and of             *)
(* openconfig-interfaces and the requests for operational data, over one   *)
(* VOM and one VPP.                                                        *)
(*                                                                         *)
(* All subscriptions share one context (SR_SUBSCR_CTX_REUSE), so one       *)
(* thread serves them: a callback that has begun runs to its end before    *)
(* another begins.  The commits themselves, to two YANG modules, overlap.  *)
(* A crash in any callback ends both commits.                              *)
(***************************************************************************)
EXTENDS OcInterfaces, OperState

CONSTANT IetfIfs    \* the interfaces ietf-interfaces may configure

\* Seen from ietf-interfaces, the other callbacks may end the process.
ASSUME AgentAssumption == IetfIfs \subseteq Ifs /\ MayCrash

agentVars == <<vars, ocVars>>

\* Has a callback begun?  It then has visited a change.
IetfBusy ==
    \/ phase = "itf" /\ leftItf # ChangedItf
    \/ phase \in AddrPhase /\ (todo # <<>> \/ loc # NoLocals)
OcBusy == ocPhase = "cb" /\ ocLeft # OcChanged

IetfCallback ==
    \/ CreateCbChange \/ CreateCbFinish
    \/ AddrCbNext \/ AddrCbParse \/ AddrCbDel \/ AddrCbAdd \/ AddrCbReturn

\* ietf-interfaces: sysrepo's steps and the callbacks.
IetfStep ==
    /\ \/ CommitStart /\ \A n \in Ifs \ IetfIfs : candItf'[n] = NoItf
       \/ CommitApply
       \/ CommitAbort
       \/ ~OcBusy /\ IetfCallback
    /\ IF phase' = "crashed" THEN OcOver(ocRun) ELSE UNCHANGED ocVars

OcStep ==
    /\ \/ OcCommitStart
       \/ OcCommitApply
       \/ OcCommitAbort
       \/ ~IetfBusy /\ (OcCbChange \/ OcCbFinish)

\* A request for operational data changes nothing, except that the process dies
\* when the dump is empty.
StateRequestDies ==
    /\ phase # "crashed" /\ ~IetfBusy /\ ~OcBusy
    /\ \E ok \in Outcome, n \in Ifs : OcStateDies(n, ok)
    /\ OcDies
    /\ UNCHANGED hwVars

\* Both commits are over, or failed with the process.
Restart ==
    /\ ocPhase = "idle"
    /\ PluginRestart
    /\ UNCHANGED ocVars

AgentInit == Init /\ OcInit

AgentNext == IetfStep \/ OcStep \/ StateRequestDies \/ Restart

AgentSpec == AgentInit /\ [][AgentNext]_agentVars

-----------------------------------------------------------------------------
(* Properties.                                                             *)

AgentTypeOK == TypeOK /\ OcTypeOK

\* The commit gives leaf enabled of interface n a value: with a new interface, or
\* in place of another value.
OcSetsEnabled(n) ==
    /\ ocCand[n] # NoItf /\ ocCand[n].enabled # NoLeaf
    /\ ocRun[n] # NoItf => /\ ocRun[n].enabled # NoLeaf
                           /\ ocRun[n].enabled # ocCand[n].enabled

\* An accepted commit to openconfig-interfaces that changes one interface, creating
\* it with leaf enabled or changing the value of that leaf, has brought the
\* interface to that state in VPP, whatever failed before, what an accepted commit
\* that only added the leaf has left undone included
\* (openconfig_interfaces.cpp:110-186).  Nothing is said of the leaf that is added
\* to an interface that is there: the callback assigns no flag then, and may
\* agree without a write.
AcceptedOcReachesVpp ==
    [][ocPhase = "decide" /\ ocRun' = ocCand /\ ocRun' # ocRun => \A n \in OcIfs :
          OcChanged = {n} /\ OcSetsEnabled(n) =>
              (n \in vppUp' <=> ocCand[n].enabled)]_agentVars

\* The part of a set of bindings, or of a function, that is about interfaces s.
Bindings(l3, s) == {b \in l3 : b.itf \in s}
Restricted(f, s) == [n \in s |-> f[n]]

\* The view ietf-interfaces has of the process.
Ietf == INSTANCE IetfInterfaces WITH
    Ifs <- IetfIfs,
    AtBoot <- AtBoot \cap IetfIfs,
    bootItf <- bootItf \cap IetfIfs,
    usrItf <- usrItf \cap IetfIfs,
    bootL3 <- Bindings(bootL3, IetfIfs),
    usrL3 <- Bindings(usrL3, IetfIfs),
    admin <- Restricted(admin, IetfIfs),
    adminOk <- adminOk \cap IetfIfs,
    l3Ok <- Bindings(l3Ok, IetfIfs),
    vppUp <- vppUp \cap IetfIfs,
    vppL3 <- Bindings(vppL3, IetfIfs),
    runItf <- Restricted(runItf, IetfIfs),
    candItf <- Restricted(candItf, IetfIfs),
    runAddr <- Restricted(runAddr, IetfIfs \X Addr),
    candAddr <- Restricted(candAddr, IetfIfs \X Addr)

\* As long as the two models configure different interfaces, ietf-interfaces
\* behaves as if openconfig-interfaces and the requests for operational data did
\* not exist, up to crashes of the process, although they share VOM, its keys and
\* VPP (openconfig_interfaces.cpp:135-182, ietf_interface.cpp:137-195).
IetfUndisturbed == Ietf!Spec
=============================================================================
