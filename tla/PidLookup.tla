----------------------------- MODULE PidLookup -----------------------------
(***************************************************************************)
(* What the callers of get_vpp_pid (src/plugins/sc_plugins.c) rely on: the *)
(* answer is one that looking at a single moment of the call could have    *)
(* given.  It is a pid VPP had during the call, or an error if there was a *)
(* moment of the call without a VPP, or if a system call failed.           *)
(* HealthCheck takes the lookup for such a single look.                    *)
(***************************************************************************)
EXTENDS Integers

CONSTANTS Pid,      \* process ids
          Errno     \* error numbers

VARIABLES vpp,      \* the VPP process that runs, 0 if none
          busy,     \* is a call in progress?
          ever,     \* the values vpp had during the call
          trouble,  \* did a system call of the lookup fail?
          ret       \* what the last call returned

vars == <<vpp, busy, ever, trouble, ret>>

Init ==
    /\ vpp \in Pid \cup {0}
    /\ busy = FALSE
    /\ ever = {}
    /\ trouble = FALSE
    /\ ret = 0

\* VPP is started or dies; there is one VPP at a time.
VppChange ==
    /\ IF vpp = 0 THEN vpp' \in Pid ELSE vpp' = 0
    /\ ever' = IF busy THEN ever \cup {vpp'} ELSE ever
    /\ UNCHANGED <<busy, trouble, ret>>

Call ==
    /\ ~busy
    /\ busy' = TRUE
    /\ ever' = {vpp}
    /\ trouble' = FALSE
    /\ UNCHANGED <<vpp, ret>>

Fail ==
    /\ busy
    /\ trouble' = TRUE
    /\ UNCHANGED <<vpp, busy, ever, ret>>

Return ==
    /\ busy
    /\ busy' = FALSE
    /\ trouble' \in {trouble, TRUE}
    /\ \/ ret' \in ever \ {0}
       \/ -ret' \in Errno /\ (0 \in ever \/ trouble')
    /\ UNCHANGED <<vpp, ever>>

Next == VppChange \/ Call \/ Fail \/ Return

Spec == Init /\ [][Next]_vars
=============================================================================
