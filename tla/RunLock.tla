------------------------------ MODULE RunLock ------------------------------
(***************************************************************************)
(* The run lock (internal/ledger/lock.go) and the life of one run around   *)
(* it (internal/runner/runner.go, Execute): processes create, resume and   *)
(* finish the run, others ask whether it is alive, and any of them may be  *)
(* killed between two system calls.                                        *)
(*                                                                         *)
(* A lock file is an inode.  Unlinking it takes it off the path and leaves *)
(* it to whoever has it open; an inode nobody has open and no path names   *)
(* may be created again.                                                   *)
(***************************************************************************)
EXTENDS Naturals, FiniteSets

CONSTANTS
  Procs,    \* gtme run processes working on the run
  Probers,  \* processes that ask RunAlive
  Files,    \* inodes
  Attempts, \* tries of LockRun before a refusal is believed
  NONE      \* no file

ASSUME ActorsAssumption == Procs \cap Probers = {}
ASSUME AttemptsAssumption == Attempts \in Nat \ {0}
ASSUME FilesAssumption == NONE \notin Files

VARIABLES
  status,    \* runs.status
  path,      \* the inode at locks/<run_id>.lock
  fd,        \* the inode each process has open
  flock,     \* its advisory lock on that inode
  pc,        \* where it is
  tries,     \* attempts of LockRun it has used up
  \* history, for the properties
  idle,      \* probers that have seen a moment without an executing process
  leftover   \* a process was killed or refused since the path last was clear

vars == <<status, path, fd, flock, pc, tries, idle, leftover>>

Actors == Procs \cup Probers
Executing(p) == pc[p] \in {"reopen", "execute"}
Holds(p) == flock[p] = "ex"
Open(f) == {p \in Actors : fd[p] = f}

Init ==
  /\ status = "none"
  /\ path   = NONE
  /\ fd     = [p \in Actors |-> NONE]
  /\ flock  = [p \in Actors |-> "no"]
  /\ pc     = [p \in Actors |-> "out"]
  /\ tries  = [p \in Procs |-> 0]
  /\ idle     = {}
  /\ leftover = FALSE

At(p, l) == pc[p] = l
Go(p, l) == pc' = [pc EXCEPT ![p] = l]

(* The probers that are between their open and their answer see whether    *)
(* anybody executes the run after this step.                               *)
Watch ==
  idle' = {q \in Probers : /\ pc'[q] # "out"
                           /\ \/ q \in idle
                              \/ \A p \in Procs : pc'[p] \notin {"reopen", "execute"}}

(* A process closes what it has open, and its lock goes with it.           *)
Close(p) ==
  /\ fd'    = [fd EXCEPT ![p] = NONE]
  /\ flock' = [flock EXCEPT ![p] = "no"]

-----------------------------------------------------------------------------
(* Execute: a new run is inserted and then locked ...                      *)
CreateRun(p) ==
  /\ At(p, "out") /\ status = "none"
  /\ status' = "running"
  /\ Go(p, "create")
  /\ Watch
  /\ UNCHANGED <<path, fd, flock, tries, leftover>>

(* ... and an old one is read and then locked.  A done run is refused here *)
(* unless it holds deliveries, which is Delivery's to say.                 *)
ReadRun(p) ==
  /\ At(p, "out") /\ status # "none"
  /\ Go(p, "resume")
  /\ Watch
  /\ UNCHANGED <<status, path, fd, flock, tries, leftover>>

(* Where LockRun goes next: a process that created the run and one that    *)
(* resumes it differ in what they do with the lock.                        *)
Trying == {"create", "resume"}
Opened == [create |-> "createOpen", resume |-> "resumeOpen"]
Locked == [createOpen |-> "createLocked", resumeOpen |-> "resumeLocked"]
Back   == [createOpen |-> "create", resumeOpen |-> "resume",
           createLocked |-> "create", resumeLocked |-> "resume"]

(* LockRun: open the file, creating it where there is none.                *)
OpenLock(p) ==
  /\ pc[p] \in Trying
  /\ \E f \in Files :
       /\ path' = f
       /\ fd'   = [fd EXCEPT ![p] = f]
       /\ f = path \/ (path = NONE /\ Open(f) = {})
  /\ Go(p, Opened[pc[p]])
  /\ Watch
  /\ UNCHANGED <<status, flock, tries, leftover>>

UseTry(p) == tries' = [tries EXCEPT ![p] = IF @ < Attempts THEN @ + 1 ELSE @]

(* flock(LOCK_EX | LOCK_NB) granted.                                       *)
TakeLock(p) ==
  /\ pc[p] \in {"createOpen", "resumeOpen"}
  /\ \A q \in Open(fd[p]) : flock[q] = "no"
  /\ flock' = [flock EXCEPT ![p] = "ex"]
  /\ Go(p, Locked[pc[p]])
  /\ Watch
  /\ UNCHANGED <<status, path, fd, tries, leftover>>

(* EWOULDBLOCK: close and try again, or believe it and refuse.  Whoever    *)
(* created the file it then leaves behind is not told.                     *)
MissLock(p) ==
  /\ pc[p] \in {"createOpen", "resumeOpen"}
  /\ \E q \in Open(fd[p]) : flock[q] # "no"
  /\ Close(p)
  /\ IF tries[p] + 1 < Attempts
       THEN Go(p, Back[pc[p]]) /\ UseTry(p) /\ UNCHANGED leftover
       ELSE Go(p, "out") /\ tries' = [tries EXCEPT ![p] = 0] /\ leftover' = TRUE
  /\ Watch
  /\ UNCHANGED <<status, path>>

(* Mutant of SamePath: what was locked is believed to be at the path.      *)
AnyPath(p) == TRUE

(* samePath: the path still names the file that was locked.                *)
SamePath(p) == path = fd[p]

CheckPath(p) ==
  /\ pc[p] \in {"createLocked", "resumeLocked"}
  /\ IF SamePath(p)
       THEN /\ Go(p, IF At(p, "createLocked") THEN "execute" ELSE "reopen")
            /\ tries' = [tries EXCEPT ![p] = 0]
            /\ UNCHANGED <<fd, flock>>
       ELSE Go(p, Back[pc[p]]) /\ Close(p) /\ UseTry(p)
  /\ Watch
  /\ UNCHANGED <<status, path, leftover>>

(* heldSelection refuses the flags: nothing of the run is touched.         *)
RefuseFlags(p) ==
  /\ At(p, "reopen")
  /\ Go(p, "release")
  /\ Watch
  /\ UNCHANGED <<status, path, fd, flock, tries, leftover>>

ReopenRun(p) ==
  /\ At(p, "reopen")
  /\ status' = "running"
  /\ Go(p, "execute")
  /\ Watch
  /\ UNCHANGED <<path, fd, flock, tries, leftover>>

(* FinishRun: a success does not overwrite a failure.                      *)
FinishRun(p) ==
  /\ At(p, "execute")
  /\ status' \in {"failed"} \cup (IF status = "running" THEN {"done", "pending"}
                                                     ELSE {status})
  /\ Go(p, "release")
  /\ Watch
  /\ UNCHANGED <<path, fd, flock, tries, leftover>>

(* Mutant of Release: the lock goes before the file does.                  *)
ReleaseUnlockFirst(p) ==
  /\ \/ /\ At(p, "release")
        /\ flock' = [flock EXCEPT ![p] = "no"]
        /\ Go(p, "unlock")
        /\ UNCHANGED <<path, fd, leftover>>
     \/ /\ At(p, "unlock")
        /\ path' = NONE
        /\ leftover' = FALSE
        /\ fd' = [fd EXCEPT ![p] = NONE]
        /\ Go(p, "out")
        /\ UNCHANGED flock
  /\ Watch
  /\ UNCHANGED <<status, tries>>

(* Mutant of Release: the file stays.                                      *)
ReleaseKeepsFile(p) ==
  /\ At(p, "release")
  /\ Close(p)
  /\ Go(p, "out")
  /\ Watch
  /\ UNCHANGED <<status, path, tries, leftover>>

(* Release: the file goes before the lock does.                            *)
Release(p) ==
  /\ \/ /\ At(p, "release")
        /\ path' = NONE
        /\ leftover' = FALSE
        /\ Go(p, "unlock")
        /\ UNCHANGED <<fd, flock>>
     \/ /\ At(p, "unlock")
        /\ Close(p)
        /\ Go(p, "out")
        /\ UNCHANGED <<path, leftover>>
  /\ Watch
  /\ UNCHANGED <<status, tries>>

(* Killed: the kernel closes its files.                                    *)
Crash(p) ==
  /\ ~At(p, "out")
  /\ Close(p)
  /\ Go(p, "out")
  /\ tries' = [tries EXCEPT ![p] = 0]
  /\ leftover' = TRUE
  /\ Watch
  /\ UNCHANGED <<status, path>>

-----------------------------------------------------------------------------
(* RunAlive.  A missing file answers at once, as dead.                     *)
ProbeOpen(q) ==
  /\ At(q, "out")
  /\ path # NONE
  /\ fd' = [fd EXCEPT ![q] = path]
  /\ Go(q, "probe")
  /\ Watch
  /\ UNCHANGED <<status, path, flock, tries, leftover>>

(* flock(LOCK_SH | LOCK_NB) would block: the run is alive.                 *)
ProbeAlive(q) ==
  /\ At(q, "probe")
  /\ \E p \in Open(fd[q]) : Holds(p)
  /\ Close(q)
  /\ Go(q, "out")
  /\ Watch
  /\ UNCHANGED <<status, path, tries, leftover>>

(* It is granted: the run is dead ...                                      *)
ProbeDead(q) ==
  /\ At(q, "probe")
  /\ \A p \in Open(fd[q]) : ~Holds(p)
  /\ flock' = [flock EXCEPT ![q] = "sh"]
  /\ Go(q, "dead")
  /\ Watch
  /\ UNCHANGED <<status, path, fd, tries, leftover>>

(* ... and the shared lock is dropped at once.                             *)
ProbeDone(q) ==
  /\ At(q, "dead")
  /\ Close(q)
  /\ Go(q, "out")
  /\ Watch
  /\ UNCHANGED <<status, path, tries, leftover>>

-----------------------------------------------------------------------------
LockRun(p) == OpenLock(p) \/ TakeLock(p) \/ MissLock(p) \/ CheckPath(p)

Next ==
  \/ \E p \in Procs :
       \/ CreateRun(p) \/ ReadRun(p) \/ LockRun(p) \/ RefuseFlags(p) \/ ReopenRun(p)
       \/ FinishRun(p) \/ Release(p) \/ Crash(p)
  \/ \E q \in Probers :
       \/ ProbeOpen(q) \/ ProbeAlive(q) \/ ProbeDead(q) \/ ProbeDone(q)

Spec == Init /\ [][Next]_vars

-----------------------------------------------------------------------------
(* Properties.                                                             *)

PCs == {"out", "create", "resume", "createOpen", "resumeOpen", "createLocked",
        "resumeLocked", "reopen", "execute", "release", "unlock"}

(* Types; a process has a file open exactly where LockRun or the lock it   *)
(* returned says so, and no more than its own lock on it.                  *)
TypeOK ==
  /\ status \in {"none", "running", "pending", "failed", "done"}
  /\ path \in Files \cup {NONE}
  /\ fd \in [Actors -> Files \cup {NONE}]
  /\ flock \in [Actors -> {"no", "sh", "ex"}]
  /\ pc \in [Actors -> PCs \cup {"probe", "dead"}]
  /\ \A p \in Procs : pc[p] \in PCs
  /\ \A q \in Probers : pc[q] \in {"out", "probe", "dead"}
  /\ \A a \in Actors : fd[a] # NONE <=> pc[a] \notin {"out"} \cup Trying
  /\ \A a \in Actors : flock[a] = "ex" <=>
       pc[a] \in {"createLocked", "resumeLocked", "reopen", "execute", "release", "unlock"}
  /\ \A a \in Actors : flock[a] = "sh" <=> pc[a] = "dead"
  /\ tries \in [Procs -> 0..Attempts]
  /\ idle \subseteq Probers
  /\ leftover \in BOOLEAN

(* lock.go, RunLock: at most one process executes a run, although the lock *)
(* file is unlinked and created again between them.                        *)
MutualExclusion ==
  \A p, q \in Procs : Executing(p) /\ Executing(q) => p = q

(* lock.go, RunAlive: a run is reported dead only when, at some moment of  *)
(* the probe, nobody executed it.                                          *)
ProbeTruth == \A q \in Probers : At(q, "dead") => q \in idle

(* lock.go, Release: locks/ holds files only for runs whose process died.  *)
(* A file nobody has open, nor is about to open again, was left by a       *)
(* process that was killed, or by one that a probe kept from the lock it   *)
(* had just created.                                                       *)
FilesAreLeftovers ==
  path # NONE /\ Open(path) = {} /\ (\A p \in Procs : pc[p] \notin Trying) => leftover
=============================================================================
