------------------------- MODULE HealthCheckProofs -------------------------
(***************************************************************************)
(* No configuration is lost across crashes of VPP, for any set of objects  *)
(* and any number of VPP processes.                                        *)
(***************************************************************************)
EXTENDS HealthCheck, TLAPS

\* A connection was made to a process that was there: a process that starts
\* later has another pid, so an old connection never becomes live again.
PidsGrow == conn <= lastPid /\ vppPid <= lastPid

\* The pids that were read are of processes that were there.  If the process of
\* vpp_pid_now still runs after the reconnection, it ran then as well.
PidsRead ==
    /\ vpp_pid_start <= lastPid /\ vpp_pid_now <= lastPid
    /\ pc \in {"replay", "setpid"} /\ vppPid # 0 /\ vppPid = vpp_pid_now => conn = vppPid

\* NothingLost, from the moment VOM is populated.
Covered ==
    Live /\ (Subscribed \/ pc = "init") => vom \subseteq vppCfg \cup pending

\* The inductive invariant.
IInv == TypeOK /\ PidsGrow /\ PidsRead /\ Covered

\* The initial states satisfy the invariant: nothing is connected yet
\* (sc_plugins.c:116-125).
LEMMA IInvInit == Init => IInv
  BY HealthAssumption DEF Init, IInv, TypeOK, PidsGrow, PidsRead, Covered, Live, Pid, PC

\* Every step of every thread preserves the types of the variables
\* (sc_plugins.c:116-191).
LEMMA TypeStep == IInv /\ [Next]_vars => TypeOK'
  <1>1. SUFFICES ASSUME IInv, [Next]_vars PROVE TypeOK'
    OBVIOUS
  <1> USE <1>1, HealthAssumption DEF IInv, TypeOK, Pid, PC, vppVars
  <1>2. CASE VppStart
    BY <1>2 DEF VppStart
  <1>3. CASE VppCrash
    BY <1>3 DEF VppCrash
  <1>4. CASE InitConnect
    BY <1>4 DEF InitConnect, HW_connect
  <1>5. CASE InitPopulate
    BY <1>5 DEF InitPopulate
  <1>6. CASE InitFunctions
    BY <1>6 DEF InitFunctions
  <1>7. CASE InitPid
    BY <1>7 DEF InitPid, get_vpp_pid
  <1>8. CASE HealthCheck
    BY <1>8 DEF HealthCheck, get_vpp_pid
  <1>9. CASE HealthDisconnect
    BY <1>9 DEF HealthDisconnect
  <1>10. CASE HealthReconnect
    BY <1>10 DEF HealthReconnect, HW_connect
  <1>11. CASE HealthReplay
    BY <1>11 DEF HealthReplay
  <1>12. CASE HealthReplayDone
    BY <1>12 DEF HealthReplayDone
  <1>13. CASE HealthSetPid
    BY <1>13 DEF HealthSetPid
  <1>14. CASE Cleanup
    BY <1>14 DEF Cleanup
  <1>15. ASSUME NEW o \in Obj, ConfigWrite(o) PROVE TypeOK'
    BY <1>15 DEF ConfigWrite
  <1>16. ASSUME NEW o \in Obj, ConfigRemove(o) PROVE TypeOK'
    BY <1>16 DEF ConfigRemove
  <1>17. CASE UNCHANGED vars
    BY <1>17 DEF vars
  <1>18. QED
    BY <1>2, <1>3, <1>4, <1>5, <1>6, <1>7, <1>8, <1>9, <1>10, <1>11, <1>12,
       <1>13, <1>14, <1>15, <1>16, <1>17 DEF Next

\* Every step keeps the connection's pid among the pids used so far.
LEMMA PidStep == IInv /\ [Next]_vars => PidsGrow'
  <1>1. SUFFICES ASSUME IInv, [Next]_vars PROVE PidsGrow'
    OBVIOUS
  <1>2. lastPid \in Int /\ conn \in Int /\ vppPid \in Int /\ lastPid >= 0
    BY <1>1, HealthAssumption DEF IInv, TypeOK, Pid
  <1>3. conn <= lastPid /\ vppPid <= lastPid
    BY <1>1 DEF IInv, PidsGrow
  <1>4. CASE VppStart
    BY <1>2, <1>3, <1>4 DEF VppStart, PidsGrow
  <1>5. CASE VppCrash
    BY <1>2, <1>3, <1>5 DEF VppCrash, PidsGrow
  <1>6. CASE InitConnect \/ HealthReconnect
    BY <1>2, <1>3, <1>6 DEF InitConnect, HealthReconnect, HW_connect, PidsGrow, vppVars
  <1>7. CASE HealthDisconnect \/ Cleanup
    BY <1>2, <1>3, <1>7 DEF HealthDisconnect, Cleanup, PidsGrow, vppVars
  <1>8. CASE UNCHANGED <<conn, vppPid, lastPid>>
    BY <1>3, <1>8 DEF PidsGrow
  <1>9. QED
    BY <1>1, <1>4, <1>5, <1>6, <1>7, <1>8
    DEF Next, vars, vppVars, InitPopulate, InitFunctions, InitPid, HealthCheck,
        HealthReplay, HealthReplayDone, HealthSetPid, ConfigWrite, ConfigRemove

\* The types the arithmetic on pids needs.
LEMMA PidTypes ==
    ASSUME IInv
    PROVE  /\ lastPid \in Int /\ lastPid >= 0
           /\ vppPid \in Int /\ vpp_pid_start \in Int /\ vpp_pid_now \in Int
           /\ \A p \in get_vpp_pid : p \in Int /\ p <= lastPid
  BY HealthAssumption DEF IInv, TypeOK, Pid, PidsGrow, get_vpp_pid

\* What the health check knows of the pids stays true (sc_plugins.c:168-188).
LEMMA PidsReadStep == IInv /\ [Next]_vars => PidsRead'
  <1>1. SUFFICES ASSUME IInv, [Next]_vars PROVE PidsRead'
    OBVIOUS
  <1>2. PidsRead
    BY <1>1 DEF IInv
  <1>3. CASE VppStart
    BY <1>1, <1>2, <1>3, PidTypes DEF VppStart, PidsRead
  <1>4. CASE VppCrash
    BY <1>2, <1>4 DEF VppCrash, PidsRead
  <1>5. CASE InitPid \/ HealthCheck
    BY <1>1, <1>2, <1>5, PidTypes DEF InitPid, HealthCheck, PidsRead, vppVars
  <1>6. CASE HealthReconnect
    BY <1>2, <1>6 DEF HealthReconnect, HW_connect, PidsRead, vppVars
  <1>7. CASE InitConnect \/ InitPopulate \/ InitFunctions \/ HealthDisconnect \/ Cleanup
    BY <1>2, <1>7 DEF InitConnect, InitPopulate, InitFunctions, HealthDisconnect, Cleanup,
       PidsRead, vppVars
  <1>8. CASE HealthReplayDone \/ HealthSetPid
    BY <1>2, <1>8 DEF HealthReplayDone, HealthSetPid, PidsRead, vppVars
  <1>9. CASE UNCHANGED <<pc, vpp_pid_start, vpp_pid_now, conn, vppPid, lastPid>>
    BY <1>2, <1>9 DEF PidsRead
  <1>10. QED
    BY <1>1, <1>3, <1>4, <1>5, <1>6, <1>7, <1>8, <1>9
    DEF Next, vars, HealthReplay, ConfigWrite, ConfigRemove

\* No step loses an object (sc_plugins.c:128-133, :175-188).
LEMMA CoveredStep == IInv /\ [Next]_vars => Covered'
  <1>1. SUFFICES ASSUME IInv, [Next]_vars PROVE Covered'
    OBVIOUS
  <1>2. lastPid \in Int /\ conn \in Int /\ vppPid \in Int
    BY <1>1, HealthAssumption DEF IInv, TypeOK, Pid
  <1>3. conn <= lastPid /\ Covered
    BY <1>1 DEF IInv, PidsGrow
  <1>4. CASE VppStart
    BY <1>2, <1>3, <1>4 DEF VppStart, Covered, Live
  <1>5. CASE VppCrash
    BY <1>2, <1>3, <1>5 DEF VppCrash, Covered, Live
  <1>6. CASE InitConnect
    BY <1>3, <1>6 DEF InitConnect, Covered, Subscribed
  <1>7. CASE InitPopulate
    BY <1>3, <1>7 DEF InitPopulate, Covered, Live, Subscribed, vppVars
  <1>8. CASE InitFunctions \/ InitPid \/ HealthCheck
    BY <1>3, <1>8 DEF InitFunctions, InitPid, HealthCheck, Covered, Live, Subscribed, vppVars
  <1>9. CASE HealthDisconnect \/ Cleanup
    BY <1>3, <1>9 DEF HealthDisconnect, Cleanup, Covered, Live, Subscribed, vppVars
  <1>10. CASE HealthReconnect
    BY <1>3, <1>10 DEF HealthReconnect, Covered, vppVars
  <1>11. CASE HealthReplay
    BY <1>3, <1>11 DEF HealthReplay, Covered, Live, Subscribed
  <1>12. CASE HealthReplayDone \/ HealthSetPid
    BY <1>3, <1>12 DEF HealthReplayDone, HealthSetPid, Covered, Live, Subscribed, vppVars
  <1>13. ASSUME NEW o \in Obj, ConfigWrite(o) PROVE Covered'
    BY <1>3, <1>13 DEF ConfigWrite, Covered, Live, Subscribed
  <1>14. ASSUME NEW o \in Obj, ConfigRemove(o) PROVE Covered'
    BY <1>3, <1>14 DEF ConfigRemove, Covered, Live, Subscribed
  <1>15. CASE UNCHANGED vars
    BY <1>3, <1>15 DEF vars, Covered, Live, Subscribed
  <1>16. QED
    BY <1>1, <1>4, <1>5, <1>6, <1>7, <1>8, <1>9, <1>10, <1>11, <1>12, <1>13,
       <1>14, <1>15 DEF Next

\* The inductive invariant holds in every reachable state.
LEMMA Inductive == Spec => []IInv
  <1>1. IInv /\ [Next]_vars => IInv'
    BY TypeStep, PidStep, PidsReadStep, CoveredStep DEF IInv
  <1>2. QED BY IInvInit, <1>1, PTL DEF Spec

\* Type correctness of the plugin's life cycle (sc_plugins.c:116-191).
THEOREM HealthTypeCorrect == Spec => []TypeOK
  <1>1. IInv => TypeOK
    BY DEF IInv
  <1>2. QED BY Inductive, <1>1, PTL

\* Over a working connection VPP has every object VOM holds as configured, up to
\* the ones a running replay still has to send (sc_plugins.c:165-191).
THEOREM NoObjectLost == Spec => []NothingLost
  <1>1. IInv => NothingLost
    BY DEF IInv, Covered, NothingLost
  <1>2. QED BY Inductive, <1>1, PTL

\* However often VPP dies and comes back during health checks, equal pids go on
\* meaning that the plugin is connected to the running VPP (sc_plugins.c:168-188).
THEOREM CheckedPidIsConnected == Spec => CheckKeepsPidTrue
  <1>1. ASSUME IInv, [Next]_vars, SamePidMeansConnected, pc # "getpid"
        PROVE  SamePidMeansConnected'
    <2>1. PidsRead
      BY <1>1 DEF IInv
    <2>2. CASE VppStart
      BY <1>1, <2>1, <2>2, PidTypes DEF VppStart, PidsRead, SamePidMeansConnected
    <2>3. CASE VppCrash
      BY <2>3 DEF VppCrash, SamePidMeansConnected
    <2>4. CASE HealthSetPid
      BY <2>1, <2>4 DEF HealthSetPid, PidsRead, SamePidMeansConnected, vppVars
    <2>5. CASE pc' # "ready"
      BY <2>5 DEF SamePidMeansConnected
    <2>6. CASE UNCHANGED <<pc, vpp_pid_start, conn, vppPid>>
      BY <1>1, <2>6 DEF SamePidMeansConnected
    <2>7. QED
      BY <1>1, <2>2, <2>3, <2>4, <2>5, <2>6
      DEF Next, vars, vppVars, InitConnect, InitPopulate, InitFunctions, InitPid, HealthCheck,
          HealthDisconnect, HealthReconnect, HealthReplay, HealthReplayDone, Cleanup,
          ConfigWrite, ConfigRemove
  <1>2. IInv /\ [Next]_vars => [SamePidMeansConnected /\ pc # "getpid" => SamePidMeansConnected']_vars
    BY <1>1
  <1>3. QED BY Inductive, <1>2, PTL DEF Spec, CheckKeepsPidTrue

=============================================================================
