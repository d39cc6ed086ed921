---------------------------- MODULE HealthCheck ----------------------------
(***************************************************************************)
(* src/plugins/sc_plugins.c: the plugin's connection to VPP over its life. *)
(*                                                                         *)
(* sysrepo-plugind's thread runs sr_plugin_init_cb once, then              *)
(* sr_plugin_health_check_cb now and then, and sr_plugin_cleanup_cb last.  *)
(* Concurrently the thread that serves the subscriptions writes and        *)
(* removes objects, and VPP crashes and is started again under a new pid.  *)
(* No lock protects the connection or VOM.                                 *)
(*                                                                         *)
(* VOM and VPP are external.  A command reaches VPP only over a connection *)
(* to the process that is running; what VPP was configured with is lost    *)
(* when it dies.  vom is what VOM holds as configured: a write whose       *)
(* command fails adds nothing, a removal is never refused.                 *)
(***************************************************************************)
EXTENDS Integers

CONSTANTS Obj,          \* configuration objects
          MaxPid,       \* bound: VPP processes, numbered from 1
          NotFound      \* what get_vpp_pid returns when no VPP runs: -errno

ASSUME HealthAssumption ==
    /\ MaxPid \in Nat \ {0}
    /\ NotFound \subseteq Int
    /\ \A e \in NotFound : e < 0

VARIABLES
    pc,             \* what sysrepo-plugind's thread does next
    vpp_pid_start,  \* static int, initially 0
    vpp_pid_now,    \* local of the health check
    conn,           \* the process HW is connected to, 0 if none
    vom,            \* objects VOM holds as configured
    pending,        \* objects OM::replay has yet to send
    vppPid,         \* the VPP process that runs, 0 if none
    lastPid,        \* how many VPP processes there were
    vppCfg          \* objects the running VPP is configured with

vars == <<pc, vpp_pid_start, vpp_pid_now, conn, vom, pending, vppPid, lastPid, vppCfg>>
vppVars == <<vppPid, lastPid, vppCfg>>

PC == {"connect", "populate", "init", "getpid", "failed", "exited", "ready",
       "disconnect", "reconnect", "replay", "setpid", "stopped"}

Pid == 0 .. MaxPid

TypeOK ==
    /\ pc \in PC
    /\ vpp_pid_start \in Pid \cup NotFound
    /\ vpp_pid_now \in Pid \cup NotFound
    /\ conn \in Pid
    /\ vom \in SUBSET Obj
    /\ pending \in SUBSET Obj
    /\ vppPid \in Pid
    /\ lastPid \in Pid
    /\ vppCfg \in SUBSET Obj

\* Commands sent now reach the VPP that runs.
Live == conn # 0 /\ conn = vppPid

-----------------------------------------------------------------------------
(* VPP                                                                     *)

VppStart ==
    /\ vppPid = 0
    /\ lastPid < MaxPid
    /\ vppPid' = lastPid + 1
    /\ lastPid' = lastPid + 1
    /\ vppCfg' = {}
    /\ UNCHANGED <<pc, vpp_pid_start, vpp_pid_now, conn, vom, pending>>

\* The last process of the bound does not crash.
VppCrash ==
    /\ vppPid # 0
    /\ lastPid < MaxPid
    /\ vppPid' = 0
    /\ vppCfg' = {}
    /\ UNCHANGED <<pc, vpp_pid_start, vpp_pid_now, conn, vom, pending, lastPid>>

-----------------------------------------------------------------------------
(* sr_plugin_init_cb                                                       *)

\* HW::connect() succeeds: only a running VPP can be connected to.
HW_connect ==
    /\ vppPid # 0
    /\ conn' = vppPid

\* while (HW::connect() != true);
InitConnect ==
    /\ pc = "connect"
    /\ HW_connect
    /\ pc' = "populate"
    /\ UNCHANGED <<vpp_pid_start, vpp_pid_now, vom, pending, vppVars>>

\* OM::populate("boot").  With VPP gone it throws, and the process exits, or
\* finds nothing.
InitPopulate ==
    /\ pc = "populate"
    /\ \/ pc' = "init" /\ vom' = IF Live THEN vppCfg ELSE {}
       \/ ~Live /\ pc' = "exited" /\ UNCHANGED vom
    /\ UNCHANGED <<vpp_pid_start, vpp_pid_now, conn, pending, vppVars>>

\* sc_call_all_init_function: the subscriptions are made, or init fails.
InitFunctions ==
    /\ pc = "init"
    /\ pc' \in {"getpid", "failed"}
    /\ UNCHANGED <<vpp_pid_start, vpp_pid_now, conn, vom, pending, vppVars>>

\* The values get_vpp_pid may return, as long as its system calls succeed.  One
\* step may stand for the scan: VppPid implements PidLookup.
get_vpp_pid == IF vppPid # 0 THEN {vppPid} ELSE NotFound

\* vpp_pid_start = get_vpp_pid(); a negative value fails init.
InitPid ==
    /\ pc = "getpid"
    /\ vpp_pid_start' \in get_vpp_pid
    /\ pc' = IF vpp_pid_start' < 0 THEN "failed" ELSE "ready"
    /\ UNCHANGED <<vpp_pid_now, conn, vom, pending, vppVars>>

-----------------------------------------------------------------------------
(* sr_plugin_health_check_cb, sr_plugin_cleanup_cb                         *)

\* vpp_pid_now = get_vpp_pid(), and the comparison.
HealthCheck ==
    /\ pc = "ready"
    /\ vpp_pid_now' \in get_vpp_pid
    /\ pc' = IF vpp_pid_now' = vpp_pid_start THEN "ready" ELSE "disconnect"
    /\ UNCHANGED <<vpp_pid_start, conn, vom, pending, vppVars>>

\* Mutant of HealthDisconnect: the connection is left as an invalid handle.
HealthDisconnect_handle ==
    /\ pc = "disconnect"
    /\ conn' = -1
    /\ pc' = "reconnect"
    /\ UNCHANGED <<vpp_pid_start, vpp_pid_now, vom, pending, vppVars>>

\* HW::disconnect();
HealthDisconnect ==
    /\ pc = "disconnect"
    /\ conn' = 0
    /\ pc' = "reconnect"
    /\ UNCHANGED <<vpp_pid_start, vpp_pid_now, vom, pending, vppVars>>

\* Mutant of HealthReconnect: OM::replay() is not called.
HealthReconnect_noReplay ==
    /\ pc = "reconnect"
    /\ HW_connect
    /\ pc' = "replay"
    /\ pending' = {}
    /\ UNCHANGED <<vpp_pid_start, vpp_pid_now, vom, vppVars>>

\* while (HW::connect() != true) {...}; OM::replay() begins.
HealthReconnect ==
    /\ pc = "reconnect"
    /\ HW_connect
    /\ pc' = "replay"
    /\ pending' = vom
    /\ UNCHANGED <<vpp_pid_start, vpp_pid_now, vom, vppVars>>

\* OM::replay() sends one object.  It is lost if VPP is gone meanwhile.
HealthReplay ==
    /\ pc = "replay"
    /\ \E o \in pending :
          /\ pending' = pending \ {o}
          /\ vppCfg' = IF Live THEN vppCfg \cup {o} ELSE vppCfg
    /\ UNCHANGED <<pc, vpp_pid_start, vpp_pid_now, conn, vom, vppPid, lastPid>>

\* OM::replay() returns.
HealthReplayDone ==
    /\ pc = "replay"
    /\ pending = {}
    /\ pc' = "setpid"
    /\ UNCHANGED <<vpp_pid_start, vpp_pid_now, conn, vom, pending, vppVars>>

\* Mutant of HealthSetPid: the pid is read again, after the reconnection.
HealthSetPid_reread ==
    /\ pc = "setpid"
    /\ vpp_pid_start' \in get_vpp_pid
    /\ pc' = "ready"
    /\ UNCHANGED <<vpp_pid_now, conn, vom, pending, vppVars>>

\* vpp_pid_start = vpp_pid_now;
HealthSetPid ==
    /\ pc = "setpid"
    /\ vpp_pid_start' = vpp_pid_now
    /\ pc' = "ready"
    /\ UNCHANGED <<vpp_pid_now, conn, vom, pending, vppVars>>

Cleanup ==
    /\ pc = "ready"
    /\ conn' = 0
    /\ pc' = "stopped"
    /\ UNCHANGED <<vpp_pid_start, vpp_pid_now, vom, pending, vppVars>>

-----------------------------------------------------------------------------
(* The thread that serves the subscriptions.                               *)

Subscribed == pc \in {"getpid", "ready", "disconnect", "reconnect", "replay", "setpid"}

\* A callback writes an object; without VPP the write fails.
ConfigWrite(o) ==
    /\ Subscribed
    /\ Live
    /\ vom' = vom \cup {o}
    /\ vppCfg' = vppCfg \cup {o}
    /\ UNCHANGED <<pc, vpp_pid_start, vpp_pid_now, conn, pending, vppPid, lastPid>>

\* A callback removes an object: VOM forgets it whether or not VPP is told.
ConfigRemove(o) ==
    /\ Subscribed
    /\ o \in vom
    /\ vom' = vom \ {o}
    /\ pending' = pending \ {o}
    /\ vppCfg' = IF Live THEN vppCfg \ {o} ELSE vppCfg
    /\ UNCHANGED <<pc, vpp_pid_start, vpp_pid_now, conn, vppPid, lastPid>>

-----------------------------------------------------------------------------
Init ==
    /\ pc = "connect"
    /\ vpp_pid_start = 0
    /\ vpp_pid_now = 0
    /\ conn = 0
    /\ vom = {}
    /\ pending = {}
    /\ \/ vppPid = 1 /\ lastPid = 1 /\ vppCfg \in SUBSET Obj
       \/ vppPid = 0 /\ lastPid = 0 /\ vppCfg = {}

Next ==
    \/ VppStart
    \/ VppCrash
    \/ InitConnect
    \/ InitPopulate
    \/ InitFunctions
    \/ InitPid
    \/ HealthCheck
    \/ HealthDisconnect
    \/ HealthReconnect
    \/ HealthReplay
    \/ HealthReplayDone
    \/ HealthSetPid
    \/ Cleanup
    \/ \E o \in Obj : ConfigWrite(o) \/ ConfigRemove(o)

Spec == Init /\ [][Next]_vars

\* sysrepo-plugind calls the health check again and again, the check runs to its
\* end, and somebody starts VPP again: without that the code waits forever.
Fairness ==
    /\ WF_vars(VppStart)
    /\ WF_vars(HealthCheck)
    /\ WF_vars(HealthDisconnect)
    /\ WF_vars(HealthReconnect)
    /\ WF_vars(HealthReplay)
    /\ WF_vars(HealthReplayDone)
    /\ WF_vars(HealthSetPid)

FairSpec == Spec /\ Fairness

-----------------------------------------------------------------------------
\* While the plugin serves requests over a working connection, VPP has every
\* object VOM holds as configured, up to the ones a replay in progress has yet
\* to send: however crashes, the check, the replay and the configuration
\* callbacks interleave, no object is lost in silence (sc_plugins.c:165-191).
NothingLost ==
    Live /\ Subscribed => vom \subseteq vppCfg \cup pending

\* A VPP process other than the one of vpp_pid_start is noticed and reconnected
\* to, and gets its configuration, unless the plugin is unloaded first
\* (sc_plugins.c:168-188).
Recovers ==
    (pc = "ready" /\ vppPid # 0 /\ vppPid # vpp_pid_start)
        ~> (pc = "stopped" \/ (Live /\ vom \subseteq vppCfg))

\* The plugin is connected to the VPP whose pid is vpp_pid_start.
SamePidMeansConnected ==
    pc = "ready" /\ vppPid # 0 /\ vppPid = vpp_pid_start => conn = vppPid

\* Equal pids mean "VPP has not crashed" (sc_plugins.c:171).  Only init, which
\* reads the pid long after it connected, can make this wrong: however VPP dies and
\* comes back during a health check, what the check leaves in vpp_pid_start is
\* never the pid of a VPP it is not connected to (sc_plugins.c:168-188).
CheckKeepsPidTrue ==
    [][SamePidMeansConnected /\ pc # "getpid" => SamePidMeansConnected']_vars
=============================================================================
