--------------------------- MODULE RunLockProofs ---------------------------
(* Proofs about RunLock: its invariants, for any number of processes,      *)
(* probers, inodes and attempts.                                           *)
EXTENDS RunLock, TLAPS

(* The processes that are sure of the path: SamePath held, and until they  *)
(* unlink the file only they could.                                        *)
Sure == {"reopen", "execute", "release"}

(* flock excludes: an exclusive lock is the only lock on its inode.        *)
Exclusive ==
  \A a, b \in Actors : flock[a] = "ex" /\ flock[b] # "no" /\ fd[a] = fd[b] => a = b

(* Whoever executes has the inode of the path; whoever unlinked it has     *)
(* another than the path's.                                                *)
PathKept ==
  \A p \in Procs : /\ pc[p] \in Sure => fd[p] = path
                   /\ pc[p] = "unlock" => fd[p] # path

LockInv == TypeOK /\ Exclusive /\ PathKept

(* A probe that never saw an idle moment has the inode of whoever executes *)
(* open.                                                                   *)
ProbeSees ==
  \A q \in Probers \ idle :
    /\ pc[q] # "dead"
    /\ pc[q] = "probe" => \E p \in Procs : Executing(p) /\ fd[p] = fd[q]

(* A file at the path that no process has open, nor is about to open.      *)
Abandoned == path # NONE /\ \A p \in Procs : fd[p] # path /\ pc[p] \notin Trying

AbandonedIsLeftover == Abandoned => leftover

IInv == LockInv /\ ProbeSees /\ AbandonedIsLeftover

-----------------------------------------------------------------------------
USE ActorsAssumption, AttemptsAssumption, FilesAssumption

(* Every action keeps the types, the files and locks a process has.        *)
LEMMA TypeStep == TypeOK /\ [Next]_vars => TypeOK'
<1> SUFFICES ASSUME TypeOK, [Next]_vars PROVE TypeOK'
  OBVIOUS
<1> USE DEF TypeOK, Actors, At, Go, Trying, PCs, Watch
<1>1. CASE \E p \in Procs : CreateRun(p)
  BY <1>1 DEF CreateRun
<1>2. CASE \E p \in Procs : ReadRun(p)
  BY <1>2 DEF ReadRun
<1>3. CASE \E p \in Procs : OpenLock(p)
  BY <1>3 DEF OpenLock, Open, Opened
<1>4. CASE \E p \in Procs : TakeLock(p)
  BY <1>4 DEF TakeLock, Open, Locked
<1>5. ASSUME NEW p \in Procs, MissLock(p) PROVE TypeOK'
  <2>1. CASE tries[p] + 1 < Attempts
    BY <1>5, <2>1 DEF MissLock, Close, Back, UseTry
  <2>2. CASE ~(tries[p] + 1 < Attempts)
    BY <1>5, <2>2 DEF MissLock, Close
  <2> QED
    BY <2>1, <2>2
<1>6. CASE \E p \in Procs : CheckPath(p)
  BY <1>6 DEF CheckPath, Close, Back, UseTry, SamePath
<1>7. CASE \E p \in Procs : RefuseFlags(p)
  BY <1>7 DEF RefuseFlags
<1>8. CASE \E p \in Procs : ReopenRun(p)
  BY <1>8 DEF ReopenRun
<1>9. CASE \E p \in Procs : FinishRun(p)
  BY <1>9 DEF FinishRun
<1>10. ASSUME NEW p \in Procs, Release(p) PROVE TypeOK'
  <2>1. CASE At(p, "release")
    <3>1. /\ path' = NONE /\ UNCHANGED <<fd, flock, status, tries>>
          /\ leftover' = FALSE /\ pc' = [pc EXCEPT ![p] = "unlock"]
      BY <1>10, <2>1 DEF Release
    <3>2. idle' \subseteq Probers
      BY <1>10 DEF Release
    <3> QED
      BY <2>1, <3>1, <3>2
  <2>2. CASE At(p, "unlock")
    BY <1>10, <2>2 DEF Release, Close
  <2> QED
    BY <1>10, <2>1, <2>2 DEF Release
<1>11. CASE \E p \in Procs : Crash(p)
  BY <1>11 DEF Crash, Close
<1>12. CASE \E q \in Probers : ProbeOpen(q)
  BY <1>12 DEF ProbeOpen
<1>13. CASE \E q \in Probers : ProbeAlive(q)
  BY <1>13 DEF ProbeAlive, Open, Close
<1>14. CASE \E q \in Probers : ProbeDead(q)
  BY <1>14 DEF ProbeDead, Open, Holds
<1>15. CASE \E q \in Probers : ProbeDone(q)
  BY <1>15 DEF ProbeDone, Close
<1>16. CASE UNCHANGED vars
  BY <1>16 DEF vars
<1> QED
  BY <1>1, <1>2, <1>3, <1>4, <1>5, <1>6, <1>7, <1>8, <1>9, <1>10, <1>11, <1>12, <1>13, <1>14, <1>15, <1>16 DEF Next, LockRun

(* A lock is taken only where no other lock is.                            *)
LEMMA ExclusiveStep == TypeOK /\ Exclusive /\ [Next]_vars => Exclusive'
<1> SUFFICES ASSUME TypeOK, Exclusive, [Next]_vars PROVE Exclusive'
  OBVIOUS
<1> USE DEF TypeOK, Exclusive, Actors, At, Go, PCs, Trying
<1>1. ASSUME NEW p \in Procs, CreateRun(p) PROVE Exclusive'
  BY <1>1 DEF CreateRun
<1>2. ASSUME NEW p \in Procs, ReadRun(p) PROVE Exclusive'
  BY <1>2 DEF ReadRun
<1>3. ASSUME NEW p \in Procs, OpenLock(p) PROVE Exclusive'
  BY <1>3 DEF OpenLock, Open, Opened
<1>4. ASSUME NEW p \in Procs, TakeLock(p) PROVE Exclusive'
  BY <1>4 DEF TakeLock, Open, Locked
<1>5. ASSUME NEW p \in Procs, MissLock(p) PROVE Exclusive'
  BY <1>5 DEF MissLock, Close, Back
<1>6. ASSUME NEW p \in Procs, CheckPath(p) PROVE Exclusive'
  BY <1>6 DEF CheckPath, Close, Back, SamePath
<1>7. ASSUME NEW p \in Procs, RefuseFlags(p) PROVE Exclusive'
  BY <1>7 DEF RefuseFlags
<1>8. ASSUME NEW p \in Procs, ReopenRun(p) PROVE Exclusive'
  BY <1>8 DEF ReopenRun
<1>9. ASSUME NEW p \in Procs, FinishRun(p) PROVE Exclusive'
  BY <1>9 DEF FinishRun
<1>10. ASSUME NEW p \in Procs, Release(p) PROVE Exclusive'
  BY <1>10 DEF Release, Close
<1>11. ASSUME NEW p \in Procs, Crash(p) PROVE Exclusive'
  BY <1>11 DEF Crash, Close
<1>12. ASSUME NEW q \in Probers, ProbeOpen(q) PROVE Exclusive'
  BY <1>12 DEF ProbeOpen
<1>13. ASSUME NEW q \in Probers, ProbeAlive(q) PROVE Exclusive'
  BY <1>13 DEF ProbeAlive, Close
<1>14. ASSUME NEW q \in Probers, ProbeDead(q) PROVE Exclusive'
  BY <1>14 DEF ProbeDead, Open, Holds
<1>15. ASSUME NEW q \in Probers, ProbeDone(q) PROVE Exclusive'
  BY <1>15 DEF ProbeDone, Close
<1>16. CASE UNCHANGED vars
  BY <1>16 DEF vars
<1> QED
  BY <1>1, <1>2, <1>3, <1>4, <1>5, <1>6, <1>7, <1>8, <1>9, <1>10, <1>11, <1>12, <1>13, <1>14, <1>15, <1>16 DEF Next, LockRun

(* The path changes only when its holder unlinks the file or nobody has it. *)
LEMMA PathKeptStep == TypeOK /\ Exclusive /\ PathKept /\ [Next]_vars => PathKept'
<1> SUFFICES ASSUME TypeOK, Exclusive, PathKept, [Next]_vars PROVE PathKept'
  OBVIOUS
<1> USE DEF TypeOK, Exclusive, PathKept, Actors, At, Go, PCs, Trying, Sure
<1>1. ASSUME NEW p \in Procs, CreateRun(p) PROVE PathKept'
  BY <1>1 DEF CreateRun
<1>2. ASSUME NEW p \in Procs, ReadRun(p) PROVE PathKept'
  BY <1>2 DEF ReadRun
<1>3. ASSUME NEW p \in Procs, OpenLock(p) PROVE PathKept'
  BY <1>3 DEF OpenLock, Open, Opened
<1>4. ASSUME NEW p \in Procs, TakeLock(p) PROVE PathKept'
  BY <1>4 DEF TakeLock, Open, Locked
<1>5. ASSUME NEW p \in Procs, MissLock(p) PROVE PathKept'
  BY <1>5 DEF MissLock, Close, Back
<1>6. ASSUME NEW p \in Procs, CheckPath(p) PROVE PathKept'
  BY <1>6 DEF CheckPath, Close, Back, SamePath
<1>7. ASSUME NEW p \in Procs, RefuseFlags(p) PROVE PathKept'
  BY <1>7 DEF RefuseFlags
<1>8. ASSUME NEW p \in Procs, ReopenRun(p) PROVE PathKept'
  BY <1>8 DEF ReopenRun
<1>9. ASSUME NEW p \in Procs, FinishRun(p) PROVE PathKept'
  BY <1>9 DEF FinishRun
<1>10. ASSUME NEW p \in Procs, Release(p) PROVE PathKept'
  BY <1>10 DEF Release, Close
<1>11. ASSUME NEW p \in Procs, Crash(p) PROVE PathKept'
  BY <1>11 DEF Crash, Close
<1>12. ASSUME NEW q \in Probers, ProbeOpen(q) PROVE PathKept'
  BY <1>12 DEF ProbeOpen
<1>13. ASSUME NEW q \in Probers, ProbeAlive(q) PROVE PathKept'
  BY <1>13 DEF ProbeAlive, Close
<1>14. ASSUME NEW q \in Probers, ProbeDead(q) PROVE PathKept'
  BY <1>14 DEF ProbeDead, Open, Holds
<1>15. ASSUME NEW q \in Probers, ProbeDone(q) PROVE PathKept'
  BY <1>15 DEF ProbeDone, Close
<1>16. CASE UNCHANGED vars
  BY <1>16 DEF vars
<1> QED
  BY <1>1, <1>2, <1>3, <1>4, <1>5, <1>6, <1>7, <1>8, <1>9, <1>10, <1>11, <1>12, <1>13, <1>14, <1>15, <1>16 DEF Next, LockRun

(* The process a probe saw executing executes until an idle moment.        *)
LEMMA ProbeSeesStep == TypeOK /\ Exclusive /\ PathKept /\ ProbeSees /\ [Next]_vars => ProbeSees'
<1> SUFFICES ASSUME TypeOK, Exclusive, PathKept, ProbeSees, [Next]_vars PROVE ProbeSees'
  OBVIOUS
<1> USE DEF TypeOK, Exclusive, PathKept, ProbeSees, Actors, At, Go, PCs, Trying, Sure, Executing, Watch
<1>1. ASSUME NEW p \in Procs, CreateRun(p) PROVE ProbeSees'
  BY <1>1 DEF CreateRun
<1>2. ASSUME NEW p \in Procs, ReadRun(p) PROVE ProbeSees'
  BY <1>2 DEF ReadRun
<1>3. ASSUME NEW p \in Procs, OpenLock(p) PROVE ProbeSees'
  BY <1>3 DEF OpenLock, Open, Opened
<1>4. ASSUME NEW p \in Procs, TakeLock(p) PROVE ProbeSees'
  BY <1>4 DEF TakeLock, Open, Locked
<1>5. ASSUME NEW p \in Procs, MissLock(p) PROVE ProbeSees'
  BY <1>5 DEF MissLock, Close, Back
<1>6. ASSUME NEW p \in Procs, CheckPath(p) PROVE ProbeSees'
  BY <1>6 DEF CheckPath, Close, Back, SamePath
<1>7. ASSUME NEW p \in Procs, RefuseFlags(p) PROVE ProbeSees'
  BY <1>7 DEF RefuseFlags
<1>8. ASSUME NEW p \in Procs, ReopenRun(p) PROVE ProbeSees'
  BY <1>8 DEF ReopenRun
<1>9. ASSUME NEW p \in Procs, FinishRun(p) PROVE ProbeSees'
  BY <1>9 DEF FinishRun
<1>10. ASSUME NEW p \in Procs, Release(p) PROVE ProbeSees'
  BY <1>10 DEF Release, Close
<1>11. ASSUME NEW p \in Procs, Crash(p) PROVE ProbeSees'
  BY <1>11 DEF Crash, Close
<1>12. ASSUME NEW q \in Probers, ProbeOpen(q) PROVE ProbeSees'
  BY <1>12 DEF ProbeOpen
<1>13. ASSUME NEW q \in Probers, ProbeAlive(q) PROVE ProbeSees'
  BY <1>13 DEF ProbeAlive, Close
<1>14. ASSUME NEW q \in Probers, ProbeDead(q) PROVE ProbeSees'
  BY <1>14 DEF ProbeDead, Open, Holds
<1>15. ASSUME NEW q \in Probers, ProbeDone(q) PROVE ProbeSees'
  BY <1>15 DEF ProbeDone, Close
<1>16. CASE UNCHANGED vars
  BY <1>16 DEF vars
<1> QED
  BY <1>1, <1>2, <1>3, <1>4, <1>5, <1>6, <1>7, <1>8, <1>9, <1>10, <1>11, <1>12, <1>13, <1>14, <1>15, <1>16 DEF Next, LockRun

(* Only a process that is killed, or refused, leaves a file behind.        *)
LEMMA LeftoverStep == TypeOK /\ PathKept /\ AbandonedIsLeftover /\ [Next]_vars => AbandonedIsLeftover'
<1> SUFFICES ASSUME TypeOK, PathKept, AbandonedIsLeftover, [Next]_vars PROVE AbandonedIsLeftover'
  OBVIOUS
<1> USE DEF TypeOK, PathKept, AbandonedIsLeftover, Abandoned, Actors, At, Go, PCs, Trying, Sure
<1>1. ASSUME NEW p \in Procs, CreateRun(p) PROVE AbandonedIsLeftover'
  BY <1>1 DEF CreateRun
<1>2. ASSUME NEW p \in Procs, ReadRun(p) PROVE AbandonedIsLeftover'
  BY <1>2 DEF ReadRun
<1>3. ASSUME NEW p \in Procs, OpenLock(p) PROVE AbandonedIsLeftover'
  BY <1>3 DEF OpenLock, Open, Opened
<1>4. ASSUME NEW p \in Procs, TakeLock(p) PROVE AbandonedIsLeftover'
  BY <1>4 DEF TakeLock, Open, Locked
<1>5. ASSUME NEW p \in Procs, MissLock(p) PROVE AbandonedIsLeftover'
  BY <1>5 DEF MissLock, Close, Back
<1>6. ASSUME NEW p \in Procs, CheckPath(p) PROVE AbandonedIsLeftover'
  BY <1>6 DEF CheckPath, Close, Back, SamePath
<1>7. ASSUME NEW p \in Procs, RefuseFlags(p) PROVE AbandonedIsLeftover'
  BY <1>7 DEF RefuseFlags
<1>8. ASSUME NEW p \in Procs, ReopenRun(p) PROVE AbandonedIsLeftover'
  BY <1>8 DEF ReopenRun
<1>9. ASSUME NEW p \in Procs, FinishRun(p) PROVE AbandonedIsLeftover'
  BY <1>9 DEF FinishRun
<1>10. ASSUME NEW p \in Procs, Release(p) PROVE AbandonedIsLeftover'
  BY <1>10 DEF Release, Close
<1>11. ASSUME NEW p \in Procs, Crash(p) PROVE AbandonedIsLeftover'
  BY <1>11 DEF Crash, Close
<1>12. ASSUME NEW q \in Probers, ProbeOpen(q) PROVE AbandonedIsLeftover'
  BY <1>12 DEF ProbeOpen
<1>13. ASSUME NEW q \in Probers, ProbeAlive(q) PROVE AbandonedIsLeftover'
  BY <1>13 DEF ProbeAlive, Close
<1>14. ASSUME NEW q \in Probers, ProbeDead(q) PROVE AbandonedIsLeftover'
  BY <1>14 DEF ProbeDead, Open, Holds
<1>15. ASSUME NEW q \in Probers, ProbeDone(q) PROVE AbandonedIsLeftover'
  BY <1>15 DEF ProbeDone, Close
<1>16. CASE UNCHANGED vars
  BY <1>16 DEF vars
<1> QED
  BY <1>1, <1>2, <1>3, <1>4, <1>5, <1>6, <1>7, <1>8, <1>9, <1>10, <1>11, <1>12, <1>13, <1>14, <1>15, <1>16 DEF Next, LockRun

(* The inductive invariant.                                                *)
LEMMA InitInv == Init => IInv
<1> SUFFICES ASSUME Init PROVE IInv
  OBVIOUS
<1> USE DEF Init, Actors
<1>1. TypeOK
  <2>1. pc \in [Actors -> PCs \cup {"probe", "dead"}]
    BY DEF PCs
  <2>2. /\ fd \in [Actors -> Files \cup {NONE}]
        /\ flock \in [Actors -> {"no", "sh", "ex"}]
        /\ tries \in [Procs -> 0..Attempts]
    OBVIOUS
  <2>3. \A a \in Actors : pc[a] = "out" /\ flock[a] = "no" /\ fd[a] = NONE
    OBVIOUS
  <2>4. /\ status \in {"none", "running", "pending", "failed", "done"}
        /\ path \in Files \cup {NONE} /\ idle \subseteq Probers
        /\ leftover \in BOOLEAN
    OBVIOUS
  <2>5. /\ \A p \in Procs : pc[p] \in PCs
        /\ \A q \in Probers : pc[q] \in {"out", "probe", "dead"}
    BY <2>3 DEF PCs
  <2> QED
    BY <2>1, <2>2, <2>3, <2>4, <2>5 DEF TypeOK, Trying
<1>2. Exclusive /\ PathKept
  BY DEF Exclusive, PathKept, Sure
<1>3. ProbeSees /\ AbandonedIsLeftover
  BY DEF ProbeSees, AbandonedIsLeftover, Abandoned
<1> QED
  BY <1>1, <1>2, <1>3 DEF IInv, LockInv

THEOREM Invariance == Spec => []IInv
<1>1. IInv /\ [Next]_vars => IInv'
  BY TypeStep, ExclusiveStep, PathKeptStep, ProbeSeesStep, LeftoverStep DEF IInv, LockInv
<1> QED
  BY InitInv, <1>1, PTL DEF Spec

(* RunLock is type correct: a process has a file open and a lock on it     *)
(* exactly where LockRun, or the lock it returned, says so.                *)
THEOREM TypeCorrect == Spec => []TypeOK
<1>1. IInv => TypeOK
  BY DEF IInv, LockInv
<1> QED
  BY Invariance, <1>1, PTL

(* At most one process executes a run: two would both have the inode of    *)
(* the path, and flock gives it to one.                                    *)
THEOREM Exclusion == Spec => []MutualExclusion
<1>1. IInv => MutualExclusion
  BY DEF IInv, LockInv, TypeOK, Exclusive, PathKept, MutualExclusion, Executing, Sure, Actors
<1> QED
  BY Invariance, <1>1, PTL

(* RunAlive calls a run dead only if nobody executed it at some moment of  *)
(* the probe.                                                              *)
THEOREM ProbesTellTheTruth == Spec => []ProbeTruth
<1>1. IInv => ProbeTruth
  BY DEF IInv, ProbeSees, ProbeTruth, At
<1> QED
  BY Invariance, <1>1, PTL

(* A lock file nobody uses was left by a process that was killed, or       *)
(* refused the lock.                                                       *)
THEOREM FilesLeftOver == Spec => []FilesAreLeftovers
<1>1. IInv => FilesAreLeftovers
  BY DEF IInv, LockInv, TypeOK, AbandonedIsLeftover, Abandoned, FilesAreLeftovers, Open, Actors
<1> QED
  BY Invariance, <1>1, PTL
=============================================================================
