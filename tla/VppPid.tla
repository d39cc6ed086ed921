------------------------------- MODULE VppPid -------------------------------
(***************************************************************************)
(* get_vpp_pid of src/plugins/sc_plugins.c: the scan of /proc for a VPP    *)
(* process, one system call at a time, while processes start and exit.     *)
(*                                                                         *)
(* The directory lists its fixed entries first, then the processes by pid, *)
(* so entries are integers in this order.  Of the fixed entries only the   *)
(* directories matter: "." and ".." and what is no directory is passed     *)
(* over without an effect.  readdir hands out entries of a batch it took   *)
(* earlier: an entry may be gone when it is opened.                        *)
(*                                                                         *)
(* errno is what the thread last had: a system call that succeeds leaves   *)
(* it alone.  ever, exited and trouble are history variables.              *)
(***************************************************************************)
EXTENDS Integers, FiniteSets

CONSTANTS Pid,      \* process ids
          Dirs,     \* the directories of /proc that are no processes
          Self,     \* the process of the plugin
          MaxFd     \* bound: descriptors left to the lookups of the process

ENOENT == 2
ESRCH == 3
ENOMEM == 12
EMFILE == 24
Errno == {ENOENT, ESRCH, ENOMEM, EMFILE}

Entry == Dirs \cup Pid

\* pos before the first entry was read.
Start == -1000

ASSUME ProcAssumption ==
    /\ Pid \subseteq Nat \ {0}
    /\ Dirs \subseteq Int
    /\ \A d \in Dirs : Start < d /\ d < 0
    /\ Self \in Pid
    /\ MaxFd \in Nat

VARIABLES
    proc,       \* per pid: "none", or what its cmdline holds
    pc,         \* the next system call, "idle" between calls
    pos,        \* how far the directory was read
    buf,        \* entries readdir has yet to hand out
    cur,        \* *ptr: the entry that is visited
    errno,
    ret,        \* what the last call returned
    lost,       \* directory streams that were never closed
    ever,       \* the VPP processes, or 0 for none, during the call
    exited,     \* did a process exit during the call?
    trouble     \* did a system call fail, other than for a process that is gone?

scan == <<pc, pos, buf, cur, errno, ret, lost, trouble>>
vars == <<proc, scan, ever, exited>>

\* "empty": a kernel thread or a zombie; "vpp": the first word is vpp or
\* /usr/bin/vpp.
Cmdline == {"empty", "other", "vpp"}

\* The VPP that runs, when the processes are p; one at a time.
VppOf(p) == IF \E q \in Pid : p[q] = "vpp" THEN CHOOSE q \in Pid : p[q] = "vpp" ELSE 0

Exists(e) == e \in Dirs \/ proc[e] # "none"

TypeOK ==
    /\ proc \in [Pid -> Cmdline \cup {"none"}]
    /\ pc \in {"idle", "opendir", "readdir", "fopen", "fread"}
    /\ pos \in Entry \cup {Start}
    /\ buf \in SUBSET Entry
    /\ cur \in Entry \cup {Start}
    /\ errno \in Errno \cup {0}
    /\ ret \in Pid \cup {0} \cup {-e : e \in Errno}
    /\ lost \in 0 .. MaxFd
    /\ ever \in SUBSET (Pid \cup {0})
    /\ exited \in BOOLEAN
    /\ trouble \in BOOLEAN

-----------------------------------------------------------------------------
(* The processes.                                                          *)

\* What the history variables note when the processes become p.
Note(p) == ever' = IF pc = "idle" THEN ever ELSE ever \cup {VppOf(p)}

Begin(q, c) ==
    /\ proc[q] = "none"
    /\ c = "vpp" => VppOf(proc) = 0
    /\ proc' = [proc EXCEPT ![q] = c]
    /\ Note(proc')
    /\ UNCHANGED <<scan, exited>>

\* A process exits; it is a zombie until its parent has waited for it.
Exit(q, c) ==
    /\ q # Self
    /\ proc[q] # "none" /\ proc[q] # c
    /\ c \in {"none", "empty"}
    /\ proc' = [proc EXCEPT ![q] = c]
    /\ Note(proc')
    /\ exited' = (exited \/ pc # "idle")
    /\ UNCHANGED scan

-----------------------------------------------------------------------------
(* get_vpp_pid                                                             *)

\* The function is called with whatever errno other code has left.
Call ==
    /\ pc = "idle"
    /\ pc' = "opendir"
    /\ errno' \in Errno \cup {0}
    /\ ever' = {VppOf(proc)}
    /\ exited' = FALSE
    /\ trouble' = FALSE
    /\ UNCHANGED <<proc, pos, buf, cur, ret, lost>>

\* Mutant of OpenDir: the result of opendir is not tested.
OpenDir_untested ==
    /\ pc = "opendir"
    /\ pc' = "readdir"
    /\ pos' = Start
    /\ buf' = {}
    /\ cur' = Start
    /\ UNCHANGED <<proc, errno, ret, lost, ever, exited, trouble>>

\* dir = opendir("/proc"); it takes a descriptor.
OpenDir ==
    /\ pc = "opendir"
    /\ lost < MaxFd
    /\ pc' = "readdir"
    /\ pos' = Start
    /\ buf' = {}
    /\ cur' = Start
    /\ UNCHANGED <<proc, errno, ret, lost, ever, exited, trouble>>

OpenDirFails ==
    /\ pc = "opendir"
    /\ lost = MaxFd
    /\ errno' = EMFILE
    /\ ret' = -EMFILE
    /\ trouble' = TRUE
    /\ pc' = "idle"
    /\ UNCHANGED <<proc, pos, buf, cur, lost, ever, exited>>

\* readdir has nothing left and reads the next batch of the directory.
ReadBatch ==
    /\ pc = "readdir"
    /\ buf = {}
    /\ \E h \in Entry :
          /\ pos < h
          /\ buf' = {e \in Entry : pos < e /\ e <= h /\ Exists(e)}
          /\ buf' # {}
          /\ pos' = h
    /\ UNCHANGED <<proc, pc, cur, errno, ret, lost, ever, exited, trouble>>

\* The first entry that was not handed out yet.
First(e) == e \in buf /\ \A f \in buf : e <= f

\* Mutant of Rest: the batch is given up after one entry.
Rest_dropped(e) == {}

\* Mutant of Rest: the entry is not consumed.
Rest_again(e) == buf

\* What readdir has yet to hand out after entry e.
Rest(e) == buf \ {e}

\* ptr = readdir(dir)
ReadDir ==
    /\ pc = "readdir"
    /\ \E e \in buf : First(e) /\ cur' = e /\ buf' = Rest(e)
    /\ pc' = "fopen"
    /\ UNCHANGED <<proc, pos, errno, ret, lost, ever, exited, trouble>>

\* fp = fopen("/proc/<entry>/cmdline"); when it fails errno is set.
Fopen ==
    /\ pc = "fopen"
    /\ \/ /\ lost + 1 < MaxFd
          /\ cur \in Pid /\ Exists(cur)
          /\ pc' = "fread"
          /\ UNCHANGED <<errno, trouble>>
       \/ /\ lost + 1 < MaxFd
          /\ cur \in Dirs \/ ~Exists(cur)
          /\ pc' = "readdir"
          /\ errno' = ENOENT
          /\ UNCHANGED trouble
       \/ /\ lost + 1 >= MaxFd
          /\ pc' = "readdir"
          /\ errno' = EMFILE
          /\ trouble' = TRUE
    /\ UNCHANGED <<proc, pos, buf, cur, ret, lost, ever, exited>>

\* Mutant of ErrnoAfter: errno is not reset after a process that is not VPP.
ErrnoAfter_kept(c) == IF c = "none" THEN {errno, ESRCH} ELSE {errno}

\* errno once a cmdline that holds c was read.  The read of a process that is
\* gone gives nothing, or fails.  Only what is not empty resets errno.
ErrnoAfter(c) == CASE c = "other" -> {0}
                   [] c = "none" -> {errno, ESRCH}
                   [] OTHER -> {errno}

\* fread, the comparison with "vpp" and "/usr/bin/vpp", and fclose; if it is
\* VPP, closedir and return.
Fread ==
    /\ pc = "fread"
    /\ errno' \in ErrnoAfter(proc[cur])
    /\ \/ /\ proc[cur] = "vpp"
          /\ ret' = cur
          /\ pc' = "idle"
       \/ /\ proc[cur] # "vpp"
          /\ pc' = "readdir"
          /\ UNCHANGED ret
    /\ UNCHANGED <<proc, pos, buf, cur, lost, ever, exited, trouble>>

\* Mutant of LostAfter: closedir is never called.
LostAfter_neverCloses(e) == lost + 1

\* The directory streams that are lost after the loop, with errno e.
LostAfter(e) == IF e # 0 THEN lost + 1 ELSE lost

\* After the loop, with errno e: an error is returned without closedir.
AfterLoop(e) ==
    /\ pc' = "idle"
    /\ errno' = e
    /\ ret' = IF e # 0 THEN -e ELSE -ESRCH
    /\ lost' = LostAfter(e)
    /\ UNCHANGED <<proc, pos, buf, cur, ever, exited>>

EndOfDir ==
    /\ pc = "readdir"
    /\ buf = {}
    /\ \A e \in Entry : pos < e => ~Exists(e)
    /\ AfterLoop(errno)
    /\ UNCHANGED trouble

ReadDirFails ==
    /\ pc = "readdir"
    /\ buf = {}
    /\ AfterLoop(ENOMEM)
    /\ trouble' = TRUE

-----------------------------------------------------------------------------
Init ==
    /\ proc \in [Pid -> Cmdline \cup {"none"}]
    /\ proc[Self] = "other"
    /\ \A p, q \in Pid : proc[p] = "vpp" /\ proc[q] = "vpp" => p = q
    /\ pc = "idle"
    /\ pos = Start
    /\ buf = {}
    /\ cur = Start
    /\ errno = 0
    /\ ret = 0
    /\ lost = 0
    /\ ever = {}
    /\ exited = FALSE
    /\ trouble = FALSE

Step == OpenDir \/ OpenDirFails \/ ReadBatch \/ ReadDir \/ Fopen \/ Fread \/ EndOfDir

Next ==
    \/ \E q \in Pid, c \in Cmdline : Begin(q, c)
    \/ \E q \in Pid, c \in {"none", "empty"} : Exit(q, c)
    \/ Call
    \/ Step
    \/ ReadDirFails

Spec == Init /\ [][Next]_vars

\* The thread that runs the function is scheduled: nothing in it waits.
FairSpec == Spec /\ WF_vars(Step)

-----------------------------------------------------------------------------
\* The scan gives an answer that a single look at the processes could have
\* given, although it visits them one by one while they start and exit
\* (sc_plugins.c:56-112): it implements PidLookup.
Lookup == INSTANCE PidLookup WITH vpp <- VppOf(proc), busy <- pc # "idle"
IsLookup == Lookup!Spec

\* "Return vpp pid or -ESRH value if process was not found" (sc_plugins.c:44):
\* so it is if no process exits during the call and no system call fails, in
\* spite of the entries without a cmdline, which set errno, and of what errno
\* was before the call.  When it is not so, a directory stream is lost.
NotFoundIsESRCH ==
    pc = "idle" /\ ret < 0 /\ ~exited /\ ~trouble => ret = -ESRCH

\* The same for descriptors: the early return of sc_plugins.c:107 loses the
\* directory stream only in a call during which a process exited or a system
\* call failed.
LossNeedsARace == [][lost' # lost => exited' \/ trouble']_vars

\* Every lookup comes to an end, however many processes start meanwhile
\* (sc_plugins.c:61).
LookupEnds == pc # "idle" ~> pc = "idle"
=============================================================================
