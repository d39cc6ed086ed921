---------------------------- MODULE OcInterfaces ----------------------------
(***************************************************************************)
(* oc_interfaces_config_cb of openconfig/openconfig_interfaces.cpp: the    *)
(* configuration callback of openconfig-interfaces.  It lives in the same  *)
(* process as the callbacks of IetfInterfaces and writes the same VOM      *)
(* objects under the same keys, so this module extends theirs.             *)
(*                                                                         *)
(* It differs from ietf_interface_create_cb in that it reads ne before it  *)
(* knows the operation.  ne is null for a deletion: the process dies, and  *)
(* the code for deletions is never reached.  In particular remove is only  *)
(* ever true by chance, and then the name to remove is empty.              *)
(***************************************************************************)
EXTENDS IetfInterfaces

CONSTANTS OcIfs,            \* the interfaces openconfig-interfaces may configure
          OcEnabledLeaf,    \* values leaf enabled can have there
          OcUninitBool,     \* what an uninitialised bool may read as there
          MaxOcChanges      \* bound: interfaces changed by one commit

ASSUME OcAssumption ==
    /\ OcIfs \subseteq Ifs
    /\ OcEnabledLeaf \subseteq BOOLEAN \cup {NoLeaf}
    /\ OcUninitBool \subseteq BOOLEAN
    /\ MaxOcChanges \in Nat

VARIABLES
    ocRun, ocCand,  \* running datastore, and the one being committed
    ocPhase,        \* "idle", "cb" (the callback runs), "decide"
    ocRefused,      \* has the callback returned an error?
    ocLeft,         \* changed interfaces the callback has yet to visit
    ocBuilder,      \* builder, create and modify, intf of the callback
    ocFlags,
    ocIntf

ocLocals == <<ocBuilder, ocFlags, ocIntf>>
ocVars == <<ocRun, ocCand, ocPhase, ocRefused, ocLeft, ocLocals>>

\* What the steps of this module leave alone, unless the process dies.
ietfVars == <<dsVars, phase, refused, createVars, addrVars, restarts>>

OcConfig == [type : IfType, enabled : OcEnabledLeaf]

OcTypeOK ==
    /\ ocRun \in [OcIfs -> OcConfig \cup {NoItf}]
    /\ ocCand \in [OcIfs -> OcConfig \cup {NoItf}]
    /\ ocPhase \in {"idle", "cb", "decide"}
    /\ ocRefused \in BOOLEAN
    /\ ocLeft \in SUBSET OcIfs
    /\ ocBuilder \in [name : OcIfs \cup {NoItf}, type : BOOLEAN, state : BOOLEAN \cup {NoLeaf}]
    /\ ocFlags \in [create : BOOLEAN, modify : BOOLEAN, remove : BOOLEAN]
    /\ ocIntf \in Ifs \cup {NoItf}

OcChanged == {n \in OcIfs : ocRun[n] # ocCand[n]}

-----------------------------------------------------------------------------
(* sysrepo: the commit.                                                    *)

OcCommitStart ==
    /\ phase # "crashed"
    /\ ocPhase = "idle"
    /\ ocCand' \in [OcIfs -> OcConfig \cup {NoItf}]
    /\ ocLeft' = {n \in OcIfs : ocRun[n] # ocCand'[n]}
    /\ Cardinality(ocLeft') \in 1 .. MaxOcChanges
    /\ ocPhase' = "cb"
    /\ UNCHANGED <<ocRun, ocRefused, ocLocals, ietfVars, hwVars>>

OcLocalsGone == ocBuilder' = NoBuilder /\ ocFlags' = NoFlags /\ ocIntf' = NoItf

\* The commit is over: what was not accepted is discarded.
OcOver(run) ==
    /\ ocPhase' = "idle"
    /\ ocRefused' = FALSE
    /\ ocLeft' = {}
    /\ ocRun' = run
    /\ ocCand' = run
    /\ OcLocalsGone

\* SR_EV_APPLY and SR_EV_ABORT: the callback does nothing.
OcCommitApply ==
    /\ ocPhase = "decide" /\ ~ocRefused
    /\ OcOver(ocCand)
    /\ UNCHANGED <<ietfVars, hwVars>>

OcCommitAbort ==
    /\ ocPhase = "decide" /\ ocRefused
    /\ OcOver(ocRun)
    /\ UNCHANGED <<ietfVars, hwVars>>

-----------------------------------------------------------------------------
(* The callback.                                                           *)

\* The process dies under the callback, and both commits with it.
OcDies == ProcessGone /\ OcOver(ocRun)

OcReturn(rc) ==
    /\ ocPhase' = "decide"
    /\ ocRefused' = ~rc
    /\ OcLocalsGone
    /\ UNCHANGED <<ocRun, ocCand, ietfVars>>

\* The loop body for an interface that is new in the commit.
OcCreated(n) ==
    LET c == ocCand[n] IN
    /\ ocRun[n] = NoItf
    /\ ocLeft' = ocLeft \ {n}
    /\ ocBuilder' = [name |-> n,
                     type |-> ocBuilder.type \/ c.type = "ethernetCsmacd",
                     state |-> IF c.enabled = NoLeaf THEN ocBuilder.state ELSE c.enabled]
    /\ ocFlags' = [ocFlags EXCEPT !.create = TRUE]
    /\ UNCHANGED <<ocRun, ocCand, ocPhase, ocRefused, ocIntf, ietfVars, hwVars>>

\* Does the commit delete the interface or a leaf of it?
OcDeletes(n) ==
    /\ ocRun[n] # NoItf
    /\ ocCand[n] # NoItf => ocRun[n].enabled # NoLeaf /\ ocCand[n].enabled = NoLeaf

\* ne->xpath with ne = nullptr.
OcDeleted(n) == OcDeletes(n) /\ OcDies /\ UNCHANGED hwVars

\* Mutant of OcFound: the first interface VOM has is taken.
OcFound_any(n) == IF Found = {} THEN NoItf ELSE CHOOSE m \in Found : m \notin OcIfs \/ Found \subseteq OcIfs

\* interface::find(n)
OcFound(n) == IF n \in Found THEN n ELSE NoItf

\* The loop body for an interface that stays.
OcModified(n) ==
    LET r == ocRun[n]
        c == ocCand[n]
        found == OcFound(n)
    IN
    /\ r # NoItf /\ ~OcDeletes(n)
    /\ \/ /\ ~LeafModified(r.enabled, c.enabled)
          /\ ocLeft' = ocLeft \ {n}
          /\ ocBuilder' = IF LeafCreated(r.enabled, c.enabled)
                          THEN [ocBuilder EXCEPT !.state = c.enabled] ELSE ocBuilder
          /\ UNCHANGED <<ocRun, ocCand, ocPhase, ocRefused, ocFlags, ocIntf, ietfVars, hwVars>>
       \/ /\ LeafModified(r.enabled, c.enabled)
          /\ found # NoItf
          /\ ocLeft' = ocLeft \ {n}
          /\ Itf_set(found, c.enabled)
          /\ ocIntf' = found
          /\ ocFlags' = [ocFlags EXCEPT !.modify = TRUE]
          /\ UNCHANGED <<ocRun, ocCand, ocPhase, ocRefused, ocBuilder, ietfVars>>
       \/ /\ LeafModified(r.enabled, c.enabled)
          /\ found = NoItf
          /\ ocLeft' = {}
          /\ OcReturn(FALSE)
          /\ UNCHANGED hwVars

OcCbChange ==
    /\ phase # "crashed"
    /\ ocPhase = "cb"
    /\ \E n \in ocLeft : OcCreated(n) \/ OcDeleted(n) \/ OcModified(n)

\* An error after the loop: the values are freed twice.
OcFailAfterLoop == OcDies \/ (OcReturn(FALSE) /\ UNCHANGED ocLeft)

\* Does builder.build() give an interface?
OcBuilt == ocBuilder.name # NoItf /\ ocBuilder.type

\* Build and write.  us is what m_state reads as if no leaf set it.
OcWrite(create, modify, us, ok) ==
    LET target == IF create THEN ocBuilder.name ELSE ocIntf
        state == IF ~create THEN admin[ocIntf]
                 ELSE IF ocBuilder.state = NoLeaf THEN us ELSE ocBuilder.state
    IN
    \/ /\ create /\ ~OcBuilt
       /\ OcFailAfterLoop
       /\ UNCHANGED hwVars
    \/ /\ create \/ modify
       /\ create => OcBuilt
       /\ target # NoItf
       /\ OM_write_itf(target, state, ok)
       /\ IF ItfWriteRc(target, state, ok)
          THEN OcReturn(TRUE) /\ UNCHANGED ocLeft ELSE OcFailAfterLoop
    \/ /\ ~create /\ modify
       /\ target = NoItf                 \* intf->key() on a null pointer
       /\ OcDies
       /\ UNCHANGED hwVars
    \/ /\ ~create /\ ~modify             \* at most OM::remove("")
       /\ OcReturn(TRUE)
       /\ UNCHANGED <<ocLeft, hwVars>>

OcCbFinish ==
    /\ phase # "crashed"
    /\ ocPhase = "cb"
    /\ ocLeft = {}
    /\ \E uc, um, us \in OcUninitBool, ok \in Outcome :
          OcWrite(ocFlags.create \/ uc, ocFlags.modify \/ um, us, ok)

OcInit ==
    /\ ocRun = [n \in OcIfs |-> NoItf]
    /\ ocCand = ocRun
    /\ ocPhase = "idle"
    /\ ocRefused = FALSE
    /\ ocLeft = {}
    /\ ocBuilder = NoBuilder
    /\ ocFlags = NoFlags
    /\ ocIntf = NoItf
=============================================================================
