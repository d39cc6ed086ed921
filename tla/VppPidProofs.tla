---------------------------- MODULE VppPidProofs ----------------------------
(***************************************************************************)
(* The scan of /proc implements the atomic lookup of PidLookup, for any    *)
(* pids, directory entries and number of descriptors, and however the      *)
(* processes start and exit.                                               *)
(***************************************************************************)
EXTENDS VppPid, TLAPS

Visiting == pc \in {"fopen", "fread"}
Scanning == pc \in {"readdir", "fopen", "fread"}

\* Entry e is still ahead of the scan.
Ahead(e) == pos < e \/ e \in buf \/ (Visiting /\ cur = e)

\* There is one VPP at a time, and the plugin's process runs.
Processes ==
    /\ \A p, q \in Pid : proc[p] = "vpp" /\ proc[q] = "vpp" => p = q
    /\ proc[Self] = "other"

\* A scan holds a descriptor; entries are visited in ascending order, and the plugin's own is not skipped.
Order == Scanning =>
    /\ \A e \in buf : e <= pos /\ cur < e
    /\ cur <= pos
    /\ Visiting => cur \in Entry
    /\ pc = "fread" => cur \in Pid
    /\ lost < MaxFd
    /\ cur < Self => pos < Self \/ Self \in buf

\* A VPP that runs during the whole call is ahead of the scan.
NotMissed ==
    /\ pc # "idle" => VppOf(proc) \in ever
    /\ Scanning /\ 0 \notin ever /\ ~trouble => Ahead(VppOf(proc))

\* As long as no process exits, what is listed can be opened, and errno is 0
\* once the plugin's own process was visited.
Clean == Scanning /\ ~exited /\ ~trouble =>
    /\ \A e \in buf : Exists(e)
    /\ Visiting => Exists(cur)
    /\ Ahead(Self) \/ errno = 0

IInv == TypeOK /\ Processes /\ Order /\ NotMissed /\ Clean /\ NotFoundIsESRCH

-----------------------------------------------------------------------------
(* The processes.                                                          *)

\* An error number survives being returned as a negative value.
LEMMA Negated == \A e \in Int : -(-e) = e
  OBVIOUS

\* Positions in the directory can be compared.
LEMMA EntryInt ==
    /\ Entry \subseteq Int /\ Start \in Int /\ Pid \subseteq Int
    /\ Self \in Entry /\ Self > 0 /\ 0 \notin Pid
    /\ \A e \in Entry : Start < e
    /\ \A d \in Dirs : d < 0
    /\ \A p \in Pid : p > 0 /\ p \notin Dirs
  BY ProcAssumption DEF Entry, Start

\* VppOf is the one VPP that runs.
LEMMA VppOfIs ==
    ASSUME NEW p, \A r, s \in Pid : p[r] = "vpp" /\ p[s] = "vpp" => r = s
    PROVE  /\ VppOf(p) \in Pid \cup {0}
           /\ \A q \in Pid : p[q] = "vpp" <=> VppOf(p) = q
  <1>1. CASE \E q \in Pid : p[q] = "vpp"
    <2>1. PICK q \in Pid : p[q] = "vpp"
      BY <1>1
    <2>2. VppOf(p) \in Pid /\ p[VppOf(p)] = "vpp"
      BY <2>1 DEF VppOf
    <2>3. QED BY <2>2, EntryInt
  <1>2. CASE ~ \E q \in Pid : p[q] = "vpp"
    BY <1>2, EntryInt DEF VppOf
  <1>3. QED BY <1>1, <1>2

\* The invariant holds initially.
LEMMA IInvInit == Init => IInv
  <1>1. SUFFICES ASSUME Init PROVE IInv
    OBVIOUS
  <1>2. TypeOK
    <2>1. lost \in 0 .. MaxFd
      BY <1>1, ProcAssumption DEF Init
    <2>2. QED BY <1>1, <2>1, Zenon DEF Init, TypeOK
  <1>3. Processes
    BY <1>1 DEF Init, Processes
  <1>4. Order /\ NotMissed /\ Clean /\ NotFoundIsESRCH
    BY <1>1 DEF Init, Order, NotMissed, Clean, NotFoundIsESRCH, Scanning
  <1>5. QED BY <1>2, <1>3, <1>4 DEF IInv

\* A process starts.
LEMMA BeginStep ==
    ASSUME IInv, NEW q \in Pid, NEW c \in Cmdline, Begin(q, c)
    PROVE  IInv'
  <1> USE DEF IInv
  <1>1. /\ UNCHANGED <<pc, pos, buf, cur, errno, ret, lost, trouble, exited>>
        /\ proc' = [proc EXCEPT ![q] = c] /\ proc[q] = "none"
        /\ ever' = IF pc = "idle" THEN ever ELSE ever \cup {VppOf(proc')}
        /\ c = "vpp" => VppOf(proc) = 0
    BY DEF Begin, scan, Note
  <1>2. proc' \in [Pid -> Cmdline \cup {"none"}] /\ proc \in [Pid -> Cmdline \cup {"none"}]
    BY <1>1 DEF TypeOK
  <1>3. Processes'
    BY <1>1, <1>2, ProcAssumption, VppOfIs, EntryInt DEF Processes
  <1>4. VppOf(proc') \in Pid \cup {0} /\ \A p \in Pid : proc'[p] = "vpp" <=> VppOf(proc') = p
    BY <1>3, VppOfIs DEF Processes
  <1>5. VppOf(proc) \in Pid \cup {0} /\ \A p \in Pid : proc[p] = "vpp" <=> VppOf(proc) = p
    BY VppOfIs DEF Processes
  <1>6. TypeOK'
    <2>1. ever' \in SUBSET (Pid \cup {0})
      BY <1>1, <1>4 DEF TypeOK
    <2>2. QED BY <1>1, <1>2, <2>1 DEF TypeOK
  <1>7. VppOf(proc) # 0 => VppOf(proc') = VppOf(proc)
    BY <1>1, <1>2, <1>4, <1>5
  <1>8. Order'
    BY <1>1 DEF Order, Scanning, Visiting
  <1>9. NotMissed'
    <2>1. pc # "idle" => VppOf(proc') \in ever'
      BY <1>1
    <2>2. ASSUME Scanning, 0 \notin ever', ~trouble PROVE Ahead(VppOf(proc'))
      <3>1. pc # "idle" /\ 0 \notin ever
        BY <1>1, <2>2 DEF Scanning
      <3>2. VppOf(proc) # 0 /\ Ahead(VppOf(proc))
        BY <2>2, <3>1 DEF NotMissed
      <3>3. QED BY <1>7, <3>2
    <2>3. QED BY <1>1, <2>1, <2>2 DEF NotMissed, Scanning, Ahead, Visiting
  <1>10. Clean'
    BY <1>1, <1>2 DEF Clean, Scanning, Ahead, Visiting, Exists, Cmdline, TypeOK, Entry
  <1>11. NotFoundIsESRCH'
    BY <1>1 DEF NotFoundIsESRCH
  <1>12. QED BY <1>3, <1>6, <1>8, <1>9, <1>10, <1>11

\* A process exits.
LEMMA ExitStep ==
    ASSUME IInv, NEW q \in Pid, NEW c \in {"none", "empty"}, Exit(q, c)
    PROVE  IInv'
  <1> USE DEF IInv
  <1>1. /\ UNCHANGED <<pc, pos, buf, cur, errno, ret, lost, trouble>>
        /\ proc' = [proc EXCEPT ![q] = c] /\ q # Self
        /\ ever' = IF pc = "idle" THEN ever ELSE ever \cup {VppOf(proc')}
        /\ exited' = (exited \/ pc # "idle")
    BY DEF Exit, scan, Note
  <1>2. proc' \in [Pid -> Cmdline \cup {"none"}] /\ proc \in [Pid -> Cmdline \cup {"none"}]
    BY <1>1 DEF TypeOK, Cmdline
  <1>3. Processes'
    BY <1>1, <1>2, ProcAssumption DEF Processes
  <1>4. VppOf(proc') \in Pid \cup {0} /\ \A p \in Pid : proc'[p] = "vpp" <=> VppOf(proc') = p
    BY <1>3, VppOfIs DEF Processes
  <1>5. VppOf(proc) \in Pid \cup {0} /\ \A p \in Pid : proc[p] = "vpp" <=> VppOf(proc) = p
    BY VppOfIs DEF Processes
  <1>6. TypeOK'
    <2>1. ever' \in SUBSET (Pid \cup {0})
      BY <1>1, <1>4 DEF TypeOK
    <2>2. QED BY <1>1, <1>2, <2>1 DEF TypeOK
  <1>7. VppOf(proc') # 0 => VppOf(proc') = VppOf(proc)
    BY <1>1, <1>2, <1>4, <1>5
  <1>8. Order'
    BY <1>1 DEF Order, Scanning, Visiting
  <1>9. NotMissed'
    <2>1. pc # "idle" => VppOf(proc') \in ever'
      BY <1>1
    <2>2. ASSUME Scanning, 0 \notin ever', ~trouble PROVE Ahead(VppOf(proc'))
      <3>1. pc # "idle" /\ 0 \notin ever /\ VppOf(proc') # 0
        BY <1>1, <2>2 DEF Scanning
      <3>2. Ahead(VppOf(proc))
        BY <2>2, <3>1 DEF NotMissed
      <3>3. QED BY <1>7, <3>1, <3>2
    <2>3. QED BY <1>1, <2>1, <2>2 DEF NotMissed, Scanning, Ahead, Visiting
  <1>10. Clean'
    BY <1>1 DEF Clean, Scanning
  <1>11. NotFoundIsESRCH'
    BY <1>1 DEF NotFoundIsESRCH
  <1>12. QED BY <1>3, <1>6, <1>8, <1>9, <1>10, <1>11

-----------------------------------------------------------------------------
(* The scan.                                                               *)

\* What the steps of the scan leave alone.
LEMMA ScanFrame ==
    ASSUME IInv, Call \/ Step \/ ReadDirFails
    PROVE  /\ UNCHANGED proc
           /\ Processes' /\ proc' \in [Pid -> Cmdline \cup {"none"}]
           /\ VppOf(proc) \in Pid \cup {0}
           /\ \A p \in Pid : proc[p] = "vpp" <=> VppOf(proc) = p
  <1>1. UNCHANGED proc
    BY DEF Call, Step, ReadDirFails, OpenDir, OpenDirFails, ReadBatch, ReadDir, Fopen, Fread,
       EndOfDir, AfterLoop
  <1>2. QED BY <1>1, VppOfIs DEF IInv, TypeOK, Processes

\* The function is called.
LEMMA CallStep == ASSUME IInv, Call PROVE IInv'
  <1>1. TypeOK'
    <2>1. ever' \in SUBSET (Pid \cup {0})
      BY ScanFrame DEF Call
    <2>2. QED BY <2>1, ScanFrame, Zenon DEF IInv, TypeOK, Call
  <1>2. Order' /\ NotMissed' /\ Clean' /\ NotFoundIsESRCH'
    BY DEF Call, Order, NotMissed, Clean, NotFoundIsESRCH, Scanning
  <1>3. QED BY <1>1, <1>2, ScanFrame DEF IInv

\* /proc is opened, or not (sc_plugins.c:56-58).
LEMMA OpenDirStep == ASSUME IInv, OpenDir \/ OpenDirFails PROVE IInv'
  <1>1. CASE OpenDir
    <2>1. TypeOK'
      BY <1>1, ScanFrame, Zenon DEF IInv, TypeOK, OpenDir
    <2>2. Order'
      BY <1>1, EntryInt DEF OpenDir, Order, Scanning, Visiting
    <2>3. NotMissed'
      <3>1. VppOf(proc) \in ever
        BY <1>1 DEF OpenDir, IInv, NotMissed
      <3>2. VppOf(proc) # 0 => Start < VppOf(proc)
        BY ScanFrame, <1>1, EntryInt DEF Step, Entry
      <3>3. QED BY <1>1, <3>1, <3>2 DEF OpenDir, NotMissed, Ahead
    <2>4. Clean'
      BY <1>1, EntryInt DEF OpenDir, Clean, Ahead, Visiting
    <2>5. NotFoundIsESRCH'
      BY <1>1 DEF OpenDir, NotFoundIsESRCH
    <2>6. QED BY <1>1, <2>1, <2>2, <2>3, <2>4, <2>5, ScanFrame DEF IInv, Step
  <1>2. CASE OpenDirFails
    <2>1. EMFILE \in Errno
      BY DEF Errno
    <2>2. TypeOK'
      BY <1>2, <2>1, ScanFrame, Zenon DEF IInv, TypeOK, OpenDirFails
    <2>3. Order' /\ NotMissed' /\ Clean' /\ NotFoundIsESRCH'
      BY <1>2 DEF OpenDirFails, Order, NotMissed, Clean, NotFoundIsESRCH, Scanning
    <2>4. QED BY <1>2, <2>2, <2>3, ScanFrame DEF IInv, Step
  <1>3. QED BY <1>1, <1>2

\* readdir reads a batch of entries (sc_plugins.c:61).
LEMMA ReadBatchStep == ASSUME IInv, ReadBatch PROVE IInv'
  <1>1. PICK h \in Entry :
           /\ pos < h /\ pos' = h
           /\ buf' = {e \in Entry : pos < e /\ e <= h /\ Exists(e)}
    BY DEF ReadBatch
  <1>2. /\ UNCHANGED <<proc, pc, cur, errno, ret, lost, ever, exited, trouble>>
        /\ pc = "readdir" /\ buf = {}
    BY DEF ReadBatch
  <1>3. pos \in Int /\ h \in Int /\ cur \in Int /\ Entry \subseteq Int
    BY EntryInt DEF IInv, TypeOK
  <1>4. TypeOK'
    <2>1. buf' \in SUBSET Entry /\ pos' \in Entry
      BY <1>1
    <2>2. QED BY <1>2, <2>1, Zenon DEF IInv, TypeOK
  <1>5. Exists(Self) /\ (VppOf(proc) # 0 => VppOf(proc) \in Entry /\ Exists(VppOf(proc)))
    BY ScanFrame DEF Step, IInv, Processes, Exists, Entry
  <1>6. Order'
    BY <1>1, <1>2, <1>3, <1>5, EntryInt DEF IInv, Order, Scanning, Visiting
  <1>7. NotMissed'
    <2>1. ASSUME NEW e \in Entry, Exists(e), Ahead(e) PROVE Ahead(e)'
      BY <1>1, <1>2, <1>3, <2>1 DEF Ahead, Visiting
    <2>2. VppOf(proc) \in ever
      BY <1>2 DEF IInv, NotMissed
    <2>3. ASSUME 0 \notin ever, ~trouble PROVE Ahead(VppOf(proc))'
      <3>1. VppOf(proc) # 0 /\ Ahead(VppOf(proc))
        BY <1>2, <2>2, <2>3 DEF IInv, NotMissed, Scanning
      <3>2. QED BY <1>2, <1>5, <2>1, <3>1 DEF Ahead, Visiting
    <2>4. QED BY <1>2, <2>2, <2>3 DEF NotMissed
  <1>8. Clean'
    BY <1>1, <1>2, <1>3, <1>5, EntryInt DEF IInv, Clean, Scanning, Ahead, Visiting, Exists
  <1>9. NotFoundIsESRCH'
    BY <1>2 DEF NotFoundIsESRCH
  <1>10. QED BY <1>4, <1>6, <1>7, <1>8, <1>9, ScanFrame DEF IInv, Step

\* readdir hands out an entry (sc_plugins.c:61).
LEMMA ReadDirStep == ASSUME IInv, ReadDir PROVE IInv'
  <1>1. PICK e \in buf : cur' = e /\ buf' = buf \ {e} /\ \A f \in buf : e <= f
    BY DEF ReadDir, First, Rest
  <1>2. /\ UNCHANGED <<proc, pos, errno, ret, lost, ever, exited, trouble>>
        /\ pc = "readdir" /\ pc' = "fopen"
    BY DEF ReadDir
  <1>3. pos \in Int /\ cur \in Int /\ buf \subseteq Int /\ buf \subseteq Entry
    BY EntryInt DEF IInv, TypeOK
  <1>4. TypeOK'
    <2>1. buf' \in SUBSET Entry /\ cur' \in Entry
      BY <1>1, <1>3
    <2>2. QED BY <1>2, <2>1, Zenon DEF IInv, TypeOK
  <1>5. Order'
    BY <1>1, <1>2, <1>3, EntryInt DEF IInv, Order, Scanning, Visiting
  <1>6. \A f : Ahead(f) => Ahead(f)'
    BY <1>1, <1>2 DEF Ahead, Visiting
  <1>7. NotMissed'
    BY <1>2, <1>6 DEF IInv, NotMissed, Scanning, Ahead, Visiting
  <1>8. Clean'
    BY <1>1, <1>2, <1>6 DEF IInv, Clean, Scanning, Visiting, Exists, Ahead
  <1>9. NotFoundIsESRCH'
    BY <1>2 DEF NotFoundIsESRCH
  <1>10. QED BY <1>4, <1>5, <1>7, <1>8, <1>9, ScanFrame DEF IInv, Step

\* cmdline is opened, or not (sc_plugins.c:71-73).
LEMMA FopenStep == ASSUME IInv, Fopen PROVE IInv'
  <1>1. /\ UNCHANGED <<proc, pos, buf, cur, ret, lost, ever, exited>>
        /\ pc = "fopen" /\ pc' \in {"fread", "readdir"}
        /\ errno' \in {errno, ENOENT, EMFILE} /\ trouble' \in {trouble, TRUE}
    BY DEF Fopen
  <1>2. TypeOK'
    <2>1. errno' \in Errno \cup {0} /\ trouble' \in BOOLEAN
      BY <1>1 DEF IInv, TypeOK, Errno
    <2>2. pc' \in {"idle", "opendir", "readdir", "fopen", "fread"}
      BY <1>1
    <2>3. QED BY <1>1, <2>1, <2>2, Zenon DEF IInv, TypeOK
  <1>3. Order'
    <2>1. pc' = "fread" => cur \in Pid
      BY DEF Fopen
    <2>2. QED BY <1>1, <2>1 DEF IInv, Order, Scanning, Visiting
  <1>4. \/ pc' = "fread" /\ UNCHANGED <<errno, trouble>>
        \/ trouble'
        \/ pc' = "readdir" /\ ~trouble' /\ (cur \in Dirs \/ ~Exists(cur))
    BY DEF Fopen, IInv, TypeOK
  <1>5. NotMissed'
    <2>1. VppOf(proc) \in ever
      BY <1>1 DEF IInv, NotMissed
    <2>2. ASSUME 0 \notin ever, ~trouble' PROVE Ahead(VppOf(proc))'
      <3>1. ~trouble
        BY <1>1, <2>2
      <3>2. VppOf(proc) # 0 /\ Ahead(VppOf(proc))
        BY <1>1, <2>1, <2>2, <3>1 DEF IInv, NotMissed, Scanning
      <3>3. VppOf(proc) \notin Dirs /\ Exists(VppOf(proc))
        <4>1. VppOf(proc) \in Pid /\ proc[VppOf(proc)] = "vpp"
          BY <3>2, ScanFrame DEF Step
        <4>2. QED BY <4>1, EntryInt DEF Exists
      <3>4. QED BY <1>1, <1>4, <2>2, <3>2, <3>3 DEF Ahead, Visiting
    <2>3. QED BY <1>1, <2>1, <2>2 DEF NotMissed
  <1>6. Clean'
    <2>1. CASE pc' = "fread" /\ UNCHANGED <<errno, trouble>>
      BY <1>1, <2>1 DEF IInv, Clean, Scanning, Visiting, Ahead, Exists
    <2>2. CASE trouble'
      BY <2>2 DEF Clean
    <2>3. CASE pc' = "readdir" /\ ~trouble' /\ (cur \in Dirs \/ ~Exists(cur))
      <3>1. SUFFICES ASSUME ~exited PROVE Clean'
        BY <1>1 DEF Clean
      <3>2. ~trouble /\ Scanning /\ Visiting
        <4>1. ~trouble
          BY <1>1, <2>3, Zenon
        <4>2. QED BY <1>1, <4>1 DEF Scanning, Visiting
      <3>3. (\A e \in buf : Exists(e)) /\ Exists(cur)
        BY <3>1, <3>2 DEF IInv, Clean
      <3>4. cur < Self
        <4>1. cur \in Dirs
          BY <2>3, <3>3, Zenon
        <4>2. QED BY <4>1, EntryInt, ProcAssumption
      <3>5. pos < Self \/ Self \in buf
        BY <3>2, <3>4 DEF IInv, Order
      <3>6. QED BY <1>1, <2>3, <3>3, <3>5 DEF Clean, Ahead, Exists, Visiting
    <2>4. QED BY <1>4, <2>1, <2>2, <2>3
  <1>7. NotFoundIsESRCH'
    BY <1>1 DEF NotFoundIsESRCH
  <1>8. QED BY <1>2, <1>3, <1>5, <1>6, <1>7, ScanFrame DEF IInv, Step

\* cmdline is read and compared (sc_plugins.c:79-102).
LEMMA FreadStep == ASSUME IInv, Fread PROVE IInv'
  <1>1. /\ UNCHANGED <<proc, pos, buf, cur, lost, ever, exited, trouble>>
        /\ pc = "fread" /\ errno' \in ErrnoAfter(proc[cur])
        /\ \/ proc[cur] = "vpp" /\ ret' = cur /\ pc' = "idle"
           \/ proc[cur] # "vpp" /\ ret' = ret /\ pc' = "readdir"
    BY DEF Fread
  <1>2. errno' \in {errno, 0, ESRCH}
    BY <1>1 DEF ErrnoAfter
  <1>3. TypeOK'
    <2>1. errno' \in Errno \cup {0}
      BY <1>2 DEF IInv, TypeOK, Errno
    <2>2. pc' \in {"idle", "opendir", "readdir", "fopen", "fread"}
      BY <1>1
    <2>3. cur \in Pid
      BY <1>1 DEF IInv, Order, Scanning
    <2>4. ret' \in Pid \cup {0} \cup {-e : e \in Errno}
      BY <1>1, <2>3 DEF IInv, TypeOK
    <2>5. QED BY <1>1, <2>1, <2>2, <2>4, Zenon DEF IInv, TypeOK
  <1>4. Order'
    BY <1>1 DEF IInv, Order, Scanning, Visiting
  <1>5. NotMissed'
    <2>1. VppOf(proc) \in ever
      BY <1>1 DEF IInv, NotMissed
    <2>2. ASSUME pc' = "readdir", 0 \notin ever, ~trouble PROVE Ahead(VppOf(proc))'
      <3>1. VppOf(proc) # 0 /\ Ahead(VppOf(proc))
        BY <1>1, <2>1, <2>2 DEF IInv, NotMissed, Scanning
      <3>2. VppOf(proc) # cur
        BY <1>1, <2>2, <3>1, ScanFrame DEF Step
      <3>3. QED BY <1>1, <3>1, <3>2 DEF Ahead, Visiting
    <2>3. QED BY <1>1, <2>1, <2>2 DEF NotMissed, Scanning
  <1>6. Clean'
    <2>1. SUFFICES ASSUME pc' = "readdir", ~exited, ~trouble PROVE Clean'
      BY <1>1 DEF Clean, Scanning
    <2>2. /\ \A e \in buf : Exists(e)
          /\ Exists(cur) /\ (Ahead(Self) \/ errno = 0)
      BY <1>1, <2>1 DEF IInv, Clean, Scanning, Visiting
    <2>3. cur = Self => errno' = 0
      BY <1>1 DEF IInv, Processes, ErrnoAfter
    <2>4. errno' \in {errno, 0}
      <3>1. cur \in Pid
        BY <1>1 DEF IInv, Order, Scanning
      <3>2. proc[cur] # "none"
        BY <2>2, <3>1, EntryInt DEF Exists
      <3>3. QED BY <1>1, <3>2 DEF ErrnoAfter
    <2>5. QED BY <1>1, <2>1, <2>2, <2>3, <2>4 DEF Clean, Ahead, Exists, Visiting
  <1>7. NotFoundIsESRCH'
    <2>1. cur \in Nat
      BY <1>1, ProcAssumption DEF IInv, Order, Scanning
    <2>2. QED BY <1>1, <2>1 DEF NotFoundIsESRCH
  <1>8. QED BY <1>3, <1>4, <1>5, <1>6, <1>7, ScanFrame DEF IInv, Step

\* At the end of the directory errno is 0, unless a process exited or a system
\* call failed during the call (sc_plugins.c:102-105).
LEMMA CleanEnd == ASSUME IInv, EndOfDir, ~exited, ~trouble PROVE errno = 0
  <1>1. pc = "readdir" /\ buf = {} /\ \A f \in Entry : pos < f => ~Exists(f)
    BY DEF EndOfDir
  <1>2. Exists(Self)
    BY DEF IInv, Processes, Exists
  <1>3. Ahead(Self) \/ errno = 0
    BY <1>1 DEF IInv, Clean, Scanning
  <1>4. ~Ahead(Self)
    BY <1>1, <1>2, EntryInt DEF Ahead, Visiting
  <1>5. QED BY <1>3, <1>4

\* The loop ends (sc_plugins.c:105-112).
LEMMA AfterLoopStep == ASSUME IInv, EndOfDir \/ ReadDirFails PROVE IInv'
  <1>1. PICK e \in Errno \cup {0} :
           /\ AfterLoop(e) /\ pc = "readdir" /\ lost' = LostAfter(e)
           /\ \/ trouble'
              \/ /\ e = errno /\ buf = {} /\ UNCHANGED trouble
                 /\ \A f \in Entry : pos < f => ~Exists(f)
    BY DEF EndOfDir, ReadDirFails, AfterLoop, IInv, TypeOK, Errno
  <1>2. /\ UNCHANGED <<proc, pos, buf, cur, ever, exited>>
        /\ pc' = "idle" /\ errno' = e /\ ret' = IF e # 0 THEN -e ELSE -ESRCH
    BY <1>1 DEF AfterLoop
  <1>3. TypeOK'
    <2>1. lost < MaxFd
      BY <1>1 DEF IInv, Order, Scanning
    <2>2. lost' \in 0 .. MaxFd
      BY <1>1, <2>1, ProcAssumption DEF IInv, TypeOK, LostAfter
    <2>3. trouble' \in BOOLEAN
      BY DEF EndOfDir, ReadDirFails, IInv, TypeOK
    <2>4. ret' \in {-f : f \in Errno}
      BY <1>1, <1>2 DEF Errno
    <2>5. QED BY <1>2, <2>2, <2>3, <2>4, Zenon DEF IInv, TypeOK
  <1>4. Order' /\ NotMissed' /\ Clean'
    BY <1>2 DEF Order, NotMissed, Clean, Scanning
  <1>5. NotFoundIsESRCH'
    <2>1. SUFFICES ASSUME ~exited', ~trouble' PROVE ret' = -ESRCH
      BY DEF NotFoundIsESRCH
    <2>2. EndOfDir /\ ~exited /\ ~trouble
      <3>1. EndOfDir
        BY <2>1 DEF ReadDirFails
      <3>2. UNCHANGED <<exited, trouble>>
        BY <3>1 DEF EndOfDir, AfterLoop
      <3>3. QED BY <2>1, <3>1, <3>2, Zenon
    <2>3. errno = 0
      BY <2>2, CleanEnd
    <2>4. QED BY <2>2, <2>3 DEF EndOfDir, AfterLoop
  <1>6. QED BY <1>3, <1>4, <1>5, ScanFrame DEF IInv, Step

\* The invariant holds in every reachable state.
LEMMA Inductive == Spec => []IInv
  <1>1. IInv /\ UNCHANGED vars => IInv'
    BY DEF IInv, vars, scan, TypeOK, Processes, Order, NotMissed, Clean, NotFoundIsESRCH,
       Scanning, Visiting, Ahead, Exists
  <1>2. IInv /\ [Next]_vars => IInv'
    BY <1>1, BeginStep, ExitStep, CallStep, OpenDirStep, ReadBatchStep, ReadDirStep, FopenStep,
       FreadStep, AfterLoopStep
    DEF Next, Step
  <1>3. QED BY IInvInit, <1>2, PTL DEF Spec

-----------------------------------------------------------------------------
(* The theorems.                                                           *)

\* Type correctness: in particular a call loses at most one descriptor and
\* there are never more lost than the process has (sc_plugins.c:56, :107).
THEOREM VppPidTypeCorrect == Spec => []TypeOK
  <1>1. IInv => TypeOK
    BY DEF IInv
  <1>2. QED BY Inductive, <1>1, PTL

\* The documented error is returned unless a process exits during the call or a
\* system call fails (sc_plugins.c:44, :102-112).
THEOREM ReturnsESRCH == Spec => []NotFoundIsESRCH
  <1>1. IInv => NotFoundIsESRCH
    BY DEF IInv
  <1>2. QED BY Inductive, <1>1, PTL

\* A directory stream is lost only in a call during which a process exits or a
\* system call fails (sc_plugins.c:105-107).
THEOREM LossIsRare == Spec => LossNeedsARace
  <1>1. ASSUME IInv, [Next]_vars, lost' # lost, ~exited', ~trouble' PROVE FALSE
    <2>1. EndOfDir \/ ReadDirFails
      BY <1>1 DEF Next, Step, vars, scan, Begin, Exit, Call, OpenDir, OpenDirFails, ReadBatch,
         ReadDir, Fopen, Fread
    <2>2. EndOfDir /\ ~exited /\ ~trouble /\ lost' = LostAfter(errno)
      <3>1. EndOfDir
        BY <1>1, <2>1 DEF ReadDirFails
      <3>2. UNCHANGED <<exited, trouble>> /\ lost' = LostAfter(errno)
        BY <3>1 DEF EndOfDir, AfterLoop
      <3>3. QED BY <1>1, <3>1, <3>2, Zenon
    <2>3. errno = 0
      BY <1>1, <2>2, CleanEnd
    <2>4. QED BY <1>1, <2>2, <2>3 DEF LostAfter
  <1>2. IInv /\ [Next]_vars => [lost' # lost => exited' \/ trouble']_vars
    BY <1>1
  <1>3. QED BY Inductive, <1>2, PTL DEF Spec, LossNeedsARace

\* The scan implements the lookup at a single moment (sc_plugins.c:46-113).
THEOREM ScanIsLookup == Spec => IsLookup
  <1>1. Init => Lookup!Init
    <2>1. SUFFICES ASSUME Init PROVE Lookup!Init
      OBVIOUS
    <2>2. VppOf(proc) \in Pid \cup {0}
      BY <2>1, VppOfIs DEF Init
    <2>3. QED BY <2>1, <2>2 DEF Init, Lookup!Init
  <1>2. ASSUME IInv, [Next]_vars PROVE [Lookup!Next]_(Lookup!vars)
    <2>1. CASE UNCHANGED vars
      BY <2>1 DEF vars, scan, Lookup!vars
    <2>2. ASSUME NEW q \in Pid, NEW c \in Cmdline \cup {"none"},
                 Begin(q, c) \/ Exit(q, c), Processes'
          PROVE  [Lookup!Next]_(Lookup!vars)
      <3>1. /\ UNCHANGED <<pc, trouble, ret>>
            /\ proc' = [proc EXCEPT ![q] = c] /\ proc \in [Pid -> Cmdline \cup {"none"}]
            /\ ever' = IF pc = "idle" THEN ever ELSE ever \cup {VppOf(proc')}
            /\ c = "vpp" => VppOf(proc) = 0
        BY <1>2, <2>2 DEF Begin, Exit, scan, Note, IInv, TypeOK
      <3>2. /\ VppOf(proc) \in Pid \cup {0} /\ VppOf(proc') \in Pid \cup {0}
            /\ \A p \in Pid : proc[p] = "vpp" <=> VppOf(proc) = p
            /\ \A p \in Pid : proc'[p] = "vpp" <=> VppOf(proc') = p
        BY <1>2, <2>2, VppOfIs DEF IInv, Processes
      <3>3. VppOf(proc) # 0 => VppOf(proc') \in {0, VppOf(proc)}
        BY <3>1, <3>2
      <3>4. CASE VppOf(proc') = VppOf(proc)
        BY <1>2, <3>1, <3>4 DEF IInv, NotMissed, Lookup!vars
      <3>5. CASE VppOf(proc') # VppOf(proc)
        BY <3>1, <3>2, <3>3, <3>5 DEF Lookup!Next, Lookup!VppChange
      <3>6. QED BY <3>4, <3>5
    <2>3. ASSUME NEW q \in Pid, NEW c,
                 (c \in Cmdline /\ Begin(q, c)) \/ (c \in {"none", "empty"} /\ Exit(q, c))
          PROVE  [Lookup!Next]_(Lookup!vars)
      <3>1. Processes'
        BY <1>2, <2>3, BeginStep, ExitStep DEF IInv
      <3>2. QED BY <2>2, <2>3, <3>1 DEF Cmdline
    <2>4. CASE Call
      BY <2>4 DEF Call, Lookup!Next, Lookup!Call
    <2>5. CASE OpenDir \/ ReadBatch \/ ReadDir
      BY <2>5 DEF OpenDir, ReadBatch, ReadDir, Lookup!vars
    <2>6. CASE Fopen
      BY <2>6 DEF Fopen, Lookup!vars, Lookup!Next, Lookup!Fail
    <2>7. CASE OpenDirFails
      <3>1. EMFILE \in Errno /\ EMFILE \in Int
        BY DEF Errno, EMFILE
      <3>2. QED BY <2>7, <3>1, Negated, Zenon DEF OpenDirFails, Lookup!Next, Lookup!Return
    <2>8. CASE Fread
      <3>1. cur \in Pid /\ VppOf(proc) \in ever /\ 0 \notin Pid
        BY <1>2, <2>8, EntryInt DEF Fread, IInv, Order, Scanning, NotMissed
      <3>2. proc[cur] = "vpp" => cur \in ever
        BY <1>2, <2>8, <3>1, ScanFrame DEF Step
      <3>3. QED BY <2>8, <3>1, <3>2 DEF Fread, Lookup!vars, Lookup!Next, Lookup!Return
    <2>9. CASE EndOfDir \/ ReadDirFails
      <3>1. PICK e \in Errno \cup {0} :
               /\ AfterLoop(e) /\ pc = "readdir" /\ trouble' \in {trouble, TRUE}
               /\ \/ trouble'
                  \/ buf = {} /\ ~trouble /\ \A f \in Entry : pos < f => ~Exists(f)
        BY <1>2, <2>9 DEF EndOfDir, ReadDirFails, AfterLoop, IInv, TypeOK, Errno
      <3>2. -ret' \in Errno
        <4>1. \E n \in Errno : ret' = -n
          BY <3>1 DEF AfterLoop, Errno
        <4>2. Errno \subseteq Int
          BY DEF Errno, ENOENT, ESRCH, ENOMEM, EMFILE
        <4>3. QED BY <4>1, <4>2, Negated, Zenon
      <3>3. 0 \in ever \/ trouble'
        <4>1. SUFFICES ASSUME 0 \notin ever, ~trouble' PROVE FALSE
          OBVIOUS
        <4>2. buf = {} /\ ~trouble /\ \A f \in Entry : pos < f => ~Exists(f)
          BY <3>1, <4>1
        <4>3. VppOf(proc) # 0 /\ Ahead(VppOf(proc))
          BY <1>2, <3>1, <4>1, <4>2 DEF IInv, NotMissed, Scanning
        <4>4. VppOf(proc) \in Entry /\ Exists(VppOf(proc))
          BY <1>2, <2>9, <4>3, ScanFrame DEF Step, Entry, Exists
        <4>5. QED BY <3>1, <4>2, <4>3, <4>4 DEF Ahead, Visiting
      <3>4. QED BY <3>1, <3>2, <3>3 DEF AfterLoop, Lookup!Next, Lookup!Return
    <2>10. QED BY <1>2, <2>1, <2>3, <2>4, <2>5, <2>6, <2>7, <2>8, <2>9 DEF Next, Step
  <1>3. QED BY Inductive, <1>1, <1>2, PTL DEF Spec, IsLookup, Lookup!Spec
=============================================================================
