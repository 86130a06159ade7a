--------------------------- MODULE DeliveryProofs ---------------------------
(***************************************************************************)
(* Proofs about Delivery, for any number of runs, records and keys and any *)
(* pool: types and at-most-once; that no record is dropped without a       *)
(* reason and a held delivery can be released; that the step implements    *)
(* the promise DeliveryPromise makes about a destination.                  *)
(***************************************************************************)
EXTENDS Delivery, TLAPS

(* A process counts every run that has a process while it runs.            *)
PeersKnown == \A r, d \in Runs : Alive(r) /\ Alive(d) => d \in peers[r]

(* A session is open, or about to, only for a dispatched record.           *)
DispatchedFirst ==
  \A r \in Runs, i \in Records : item[r][i] \in {"dispatched", "session"} => i \in open[r]

(* Of the items of a key between check and row there is one, unless two    *)
(* passed the check together.                                              *)
OneAtATime ==
  \A r, d \in Runs, i, j \in Records :
    /\ KeyOf[i] = KeyOf[j]
    /\ KeyOf[i] \notin raced
    /\ item[r][i] \in Unresolved /\ item[d][j] \in Unresolved
    => r = d /\ i = j

(* A record that is to be sent finds nothing of its key at the target.     *)
BeforeSending == {"queued", "claimed", "dispatched"}
FreshStart ==
  \A r \in Runs, i \in Records :
    item[r][i] \in BeforeSending /\ KeyOf[i] \notin Waived => copies[KeyOf[i]] = 0

(* An armed process in the step has seen to every unanswered dispatch: it  *)
(* will hold it, it has its row, it is the process's own, or that of a run *)
(* it overlaps.                                                            *)
InHand == {"dispatched", "session", "contra"}
SeenTo(r, d, j) ==
  \/ d # r /\ d \in peers[r]
  \/ <<d, j>> \in scan[r] \cup hold[r]
  \/ HasRow(KeyOf[j])
  \/ d = r /\ item[r][j] \in InHand
DeadDispatchesHeld ==
  \A r, d \in Runs, j \in Records : InStep(r) /\ ~dry[r] /\ j \in open[d] => SeenTo(r, d, j)

(* What NothingForgotten asks of a step, pair by pair: what shows a request *)
(* goes on showing it, unless the key has its row, is waived or is free.   *)
Shows(r, i) == i \in open[r] \/ item[r][i] \in {"logged", "moved"}
EvidenceKept ==
  /\ Waived \subseteq Waived'
  /\ \A k \in Keys : HasRow(k) => HasRow(k)'
  /\ \A r \in Runs, i \in Records : Shows(r, i) =>
       \/ Shows(r, i)' \/ HasRow(KeyOf[i])' \/ KeyOf[i] \in Waived' \/ copies'[KeyOf[i]] = 0
  /\ \A k \in Keys \ Waived : copies'[k] # 0 /\ copies[k] = 0 =>
       \E r \in Runs, i \in Records : KeyOf[i] = k /\ i \in open'[r]

IInv == /\ TypeOK /\ PeersKnown /\ DispatchedFirst /\ OneAtATime /\ FreshStart
        /\ DeadDispatchesHeld /\ NothingForgotten /\ NoDoubleSend

-----------------------------------------------------------------------------
USE KeyAssumption, ConcAssumption, NoneAssumption, AttestsAssumption, DryModesAssumption

(* The parts of TypeOK: the processes, the deliveries table, and the rest. *)
ProcessOK ==
  /\ runStatus \in [Runs -> {"none", "running", "failed", "done"}]
  /\ pc      \in [Runs -> {"dead", "start", "step", "failing", "stopping", "interrupted"}]
  /\ dry     \in [Runs -> BOOLEAN]
  /\ release \in [Runs -> SUBSET Records]
  /\ scan    \in [Runs -> SUBSET (Runs \X Records)]
  /\ hold    \in [Runs -> SUBSET (Runs \X Records)]
  /\ item    \in [Runs -> [Records -> ItemStates]]
  /\ raced \subseteq Keys
  /\ peers   \in [Runs -> SUBSET Runs]
  /\ rehearsed \in [Runs -> SUBSET Records]
  /\ \A r \in Runs : Alive(r) => runStatus[r] # "none"
  /\ \A r \in Runs : ~InStep(r) => scan[r] = {} /\ hold[r] = {}
  /\ \A r \in Runs : pc[r] \in {"dead", "start"} => \A i \in Records : item[r][i] = "none"

DeliveriesOK ==
  /\ deliveries \in [Keys -> RowType]
  /\ \A k \in Keys : IsHeld(k) => deliveries[k].run \in Runs /\ deliveries[k].id \in Records
                                  /\ KeyOf[deliveries[k].id] = k

OutcomeOK ==
  /\ recState \in [Runs -> [Records -> {"before", "past"}]]
  /\ open     \in [Runs -> SUBSET Records]
  /\ copies   \in [Keys -> 0..2]
  /\ torn \subseteq Keys /\ denied \subseteq Keys
  /\ withheld \in [Runs -> SUBSET Records]

LEMMA TypeParts == TypeOK <=> ProcessOK /\ DeliveriesOK /\ OutcomeOK
  BY DEF TypeOK, ProcessOK, DeliveriesOK, OutcomeOK

(* However a session ends that does not stop the step, the process stays   *)
(* where it was, at most noting the failure.                               *)
PoolSame(q) == /\ pc'[q] \in {"step", "failing"} <=> pc[q] \in {"step", "failing"}
               /\ pc'[q] = "dead" <=> pc[q] = "dead"
               /\ pc'[q] = "start" <=> pc[q] = "start"

LEMMA PoolGoesOn ==
  ASSUME ProcessOK, NEW r \in Runs, Onward \/ Failing(r)
  PROVE  /\ pc' \in [Runs -> {"dead", "start", "step", "failing", "stopping", "interrupted"}]
         /\ UNCHANGED <<scan, hold>>
         /\ \A q \in Runs : PoolSame(q)
<1>1. CASE Onward
  BY <1>1 DEF Onward, ProcessOK, PoolSame
<1>2. CASE Failing(r)
  BY <1>2 DEF Failing, ProcessOK, PoolSame
<1> QED
  BY <1>1, <1>2

LEMMA SessionTypes ==
  ASSUME ProcessOK, NEW r \in Runs, NEW i \in Records, Onward \/ Failing(r),
         item[r][i] # "none", NEW s \in ItemStates, SetItem(r, i, s), SessionFrame
  PROVE  ProcessOK'
<1>1. /\ item' \in [Runs -> [Records -> ItemStates]]
      /\ \A q \in Runs : pc[q] \in {"dead", "start"} => \A j \in Records : item'[q][j] = "none"
  BY DEF ProcessOK, SetItem, Alive
<1>2. /\ pc' \in [Runs -> {"dead", "start", "step", "failing", "stopping", "interrupted"}]
      /\ UNCHANGED <<scan, hold>>
      /\ \A q \in Runs : PoolSame(q)
  BY PoolGoesOn
<1> QED
  BY <1>1, <1>2 DEF ProcessOK, SessionFrame, PoolSame, InStep, Alive

(* A row that is written is not a held one.                                *)
LEMMA RowTypes ==
  ASSUME DeliveriesOK, NEW k \in Keys, NEW st \in Statuses \ {"unconfirmed"},
         deliveries' = [deliveries EXCEPT ![k] = Row(st)]
  PROVE  DeliveriesOK'
<1>1. Row(st) \in RowType /\ Row(st).status = st
  BY DEF Row, RowType
<1> QED
  BY <1>1 DEF DeliveriesOK, IsHeld

(* No row ever goes away.                                                  *)
LEMMA RowsStay ==
  ASSUME DeliveriesOK, NEW k \in Keys, NEW st \in Statuses \ {"none"},
         deliveries' = [deliveries EXCEPT ![k] = Row(st)]
  PROVE  HasRow(k)' /\ \A j \in Keys : HasRow(j) => HasRow(j)'
<1>1. Row(st).status = st
  BY DEF Row
<1> QED
  BY <1>1 DEF DeliveriesOK, HasRow

(* Draining the pool takes no item from a worker.                          *)
LEMMA DrainedKeeps ==
  ASSUME item \in [Runs -> [Records -> ItemStates]], NEW r \in Runs, NEW i \in Records,
         item' = [item EXCEPT ![r] = [Drained(r) EXCEPT ![i] = "over"]]
  PROVE  /\ \A q \in Runs \ {r} : item'[q] = item[q]
         /\ \A j \in Records \ {i} :
              item[r][j] \in {"logged", "moved"} => item'[r][j] = item[r][j]
<1>1. item'[r] = [Drained(r) EXCEPT ![i] = "over"]
  OBVIOUS
<1>2. \A j \in Records \ {i} : item'[r][j] = Drained(r)[j]
  BY <1>1 DEF Drained
<1>3. \A j \in Records : item[r][j] \in {"logged", "moved"} => Drained(r)[j] = item[r][j]
  BY DEF Drained, Waiting
<1> QED
  BY <1>2, <1>3

(* Every action keeps the types.                                           *)
LEMMA TypeStep == TypeOK /\ [Next]_vars => TypeOK'
<1> SUFFICES ASSUME TypeOK, [Next]_vars PROVE TypeOK'
  OBVIOUS
<1>1. ASSUME NEW r \in Runs, NEW d \in DryModes, CreateRun(r, d) PROVE TypeOK'
  <2>0. ProcessOK /\ DeliveriesOK /\ OutcomeOK
    BY TypeParts
  <2>1. ProcessOK'
    BY <1>1, <2>0 DEF CreateRun, Start, ProcessOK, InStep, Alive
  <2>2. DeliveriesOK' /\ OutcomeOK'
    BY <1>1, <2>0 DEF CreateRun, DeliveriesOK, OutcomeOK, IsHeld
  <2> QED
    BY <2>1, <2>2 DEF TypeOK, ProcessOK, DeliveriesOK, OutcomeOK
<1>2. ASSUME NEW r \in Runs, NEW i \in Records, RecordDelivery(r, i) PROVE TypeOK'
  <2>0. ProcessOK /\ DeliveriesOK /\ OutcomeOK
    BY TypeParts
  <2>1. ProcessOK'
    <3>1. CASE Attests
      BY <1>2, <2>0, <3>1, SessionTypes DEF RecordDelivery, ItemStates
    <3>2. CASE ~Attests
      BY <1>2, <2>0, <3>2, SessionTypes DEF RecordDelivery, EndSession, ItemStates
    <3> QED
      BY <3>1, <3>2
  <2>2. DeliveriesOK'
    BY <1>2, <2>0, RowTypes DEF RecordDelivery, Statuses
  <2>3. OutcomeOK'
    BY <1>2, <2>0 DEF RecordDelivery, OutcomeOK
  <2> QED
    BY <2>1, <2>2, <2>3 DEF TypeOK, ProcessOK, DeliveriesOK, OutcomeOK
<1>3. ASSUME NEW r \in Runs, NEW i \in Records, Attested(r, i) PROVE TypeOK'
  <2>0. ProcessOK /\ DeliveriesOK /\ OutcomeOK
    BY TypeParts
  <2>1. ProcessOK'
    BY <1>3, <2>0, SessionTypes DEF Attested, EndSession, ItemStates
  <2>2. DeliveriesOK'
    BY <1>3, <2>0, RowTypes DEF Attested, Statuses, DeliveriesOK, IsHeld
  <2>3. OutcomeOK'
    BY <1>3, <2>0 DEF Attested, OutcomeOK
  <2> QED
    BY <2>1, <2>2, <2>3 DEF TypeOK, ProcessOK, DeliveriesOK, OutcomeOK
<1>4. ASSUME NEW r \in Runs, NEW i \in Records, FailContradicted(r, i) PROVE TypeOK'
  <2>0. ProcessOK /\ DeliveriesOK /\ OutcomeOK
    BY TypeParts
  <2>1. ProcessOK'
    BY <1>4, <2>0, SessionTypes DEF FailContradicted, EndSession, ItemStates
  <2>2. DeliveriesOK'
    BY <1>4, <2>0, RowTypes DEF FailContradicted, Statuses
  <2>3. OutcomeOK'
    BY <1>4, <2>0 DEF FailContradicted, OutcomeOK, Answer
  <2> QED
    BY <2>1, <2>2, <2>3 DEF TypeOK, ProcessOK, DeliveriesOK, OutcomeOK
<1>5. ASSUME NEW r \in Runs, NEW i \in Records, FailRecord(r, i) PROVE TypeOK'
  <2>0. ProcessOK /\ DeliveriesOK /\ OutcomeOK
    BY TypeParts
  <2>1. ProcessOK'
    BY <1>5, <2>0, SessionTypes DEF FailRecord, EndSession, InSession, ItemStates
  <2>2. DeliveriesOK'
    BY <1>5, <2>0 DEF FailRecord, DeliveriesOK, IsHeld
  <2>3. OutcomeOK'
    BY <1>5, <2>0 DEF FailRecord, OutcomeOK, Answer, NotDelivered
  <2> QED
    BY <2>1, <2>2, <2>3 DEF TypeOK, ProcessOK, DeliveriesOK, OutcomeOK
<1>6. ASSUME NEW r \in Runs, NEW i \in Records, SkipRecord(r, i) PROVE TypeOK'
  <2>0. ProcessOK /\ DeliveriesOK /\ OutcomeOK
    BY TypeParts
  <2>1. ProcessOK'
    BY <1>6, <2>0, SessionTypes DEF SkipRecord, EndSession, InSession, ItemStates
  <2>2. DeliveriesOK'
    BY <1>6, <2>0 DEF SkipRecord, DeliveriesOK, IsHeld
  <2>3. OutcomeOK'
    BY <1>6, <2>0 DEF SkipRecord, OutcomeOK, SetState, Answer, NotDelivered
  <2> QED
    BY <2>1, <2>2, <2>3 DEF TypeOK, ProcessOK, DeliveriesOK, OutcomeOK
<1>7. ASSUME NEW r \in Runs, NEW i \in Records, RejectAck(r, i) PROVE TypeOK'
  <2>0. ProcessOK /\ DeliveriesOK /\ OutcomeOK
    BY TypeParts
  <2>1. ProcessOK'
    BY <1>7, <2>0, SessionTypes DEF RejectAck, EndSession, InSession, ItemStates
  <2>2. DeliveriesOK'
    BY <1>7, <2>0 DEF RejectAck, DeliveriesOK, IsHeld
  <2>3. OutcomeOK'
    BY <1>7, <2>0 DEF RejectAck, OutcomeOK, Answer, Erased
  <2> QED
    BY <2>1, <2>2, <2>3 DEF TypeOK, ProcessOK, DeliveriesOK, OutcomeOK
<1>8. ASSUME NEW r \in Runs, NEW i \in Records, SessionFails(r, i) PROVE TypeOK'
  <2>0. ProcessOK /\ DeliveriesOK /\ OutcomeOK
    BY TypeParts
  <2>1. ProcessOK'
    BY <1>8, <2>0, SessionTypes DEF SessionFails, InSession, ItemStates
  <2>2. DeliveriesOK'
    BY <1>8, <2>0 DEF SessionFails, DeliveriesOK, IsHeld
  <2>3. OutcomeOK'
    BY <1>8, <2>0 DEF SessionFails, OutcomeOK, Answer, Erased, NotDelivered
  <2> QED
    BY <2>1, <2>2, <2>3 DEF TypeOK, ProcessOK, DeliveriesOK, OutcomeOK
<1> USE DEF TypeOK, RowType, Statuses, ItemStates, Row, HeldRow, HasRow,
   IsHeld, Alive, InStep,
            AtWorker, Unresolved, Waiting, ledgerVars, processVars, historyVars
<1>9. ASSUME NEW r \in Runs, NEW d \in DryModes, NEW rel \in SUBSET Records,
   NEW settle \in SUBSET Records, Resume(r, d, rel, settle)
         PROVE TypeOK'
  BY <1>9 DEF Resume, Start
<1>10. ASSUME NEW r \in Runs, Interrupt(r) PROVE TypeOK'
  BY <1>10 DEF Interrupt, Stop, Drained
<1>11. ASSUME NEW r \in Runs, Crash(r) PROVE TypeOK'
  BY <1>11 DEF Crash, Gone, Torn
<1>12. ASSUME NEW r \in Runs, OpenStep(r) PROVE TypeOK'
  BY <1>12 DEF OpenStep
<1>13. ASSUME NEW r \in Runs, NEW d \in Runs, Probe(r, d) PROVE TypeOK'
  BY <1>13 DEF Probe
<1>14. ASSUME NEW r \in Runs, NEW d \in Runs, NEW i \in Records, HoldDelivery(r, d, i)
         PROVE TypeOK'
  BY <1>14 DEF HoldDelivery, HoldRow
<1>15. ASSUME NEW r \in Runs, StepFails(r) PROVE TypeOK'
  BY <1>15 DEF StepFails, Stop, Drained
<1>16. ASSUME NEW r \in Runs, Finish(r) PROVE TypeOK'
  BY <1>16 DEF Finish, Gone
<1>17. ASSUME NEW r \in Runs, NEW i \in Records, PrepareFails(r, i)
         PROVE TypeOK'
  BY <1>17 DEF PrepareFails, Preparing, SetItem, Answer, Erased, PreparedFrame
<1>18. ASSUME NEW r \in Runs, NEW i \in Records, PrepareHeld(r, i)
         PROVE TypeOK'
  BY <1>18 DEF PrepareHeld, Preparing, SetItem, PreparedFrame
<1>19. ASSUME NEW r \in Runs, NEW i \in Records, PrepareSkip(r, i)
         PROVE TypeOK'
  BY <1>19 DEF PrepareSkip, Preparing, SetItem, SetState, PreparedFrame
<1>20. ASSUME NEW r \in Runs, NEW i \in Records, PrepareWithhold(r, i)
         PROVE TypeOK'
  BY <1>20 DEF PrepareWithhold, Preparing, SetItem, SetState, Answer, Erased,
     PreparedFrame
<1>21. ASSUME NEW r \in Runs, NEW i \in Records, DryDeliver(r, i) PROVE TypeOK'
  BY <1>21 DEF DryDeliver, Preparing, SetItem, SetState, PreparedFrame
<1>22. ASSUME NEW r \in Runs, NEW i \in Records, Queue(r, i) PROVE TypeOK'
  BY <1>22 DEF Queue, Preparing, SetItem, PreparedFrame
<1>23. ASSUME NEW r \in Runs, NEW i \in Records, Claim(r, i) PROVE TypeOK'
  BY <1>23 DEF Claim, SetItem
<1>24. ASSUME NEW r \in Runs, NEW i \in Records, Dispatch(r, i) PROVE TypeOK'
  BY <1>24 DEF Dispatch, SetItem
<1>25. ASSUME NEW r \in Runs, NEW i \in Records, OpenSession(r, i)
         PROVE TypeOK'
  BY <1>25 DEF OpenSession, SetItem
<1>26. ASSUME NEW r \in Runs, NEW i \in Records, ChunkError(r, i) PROVE TypeOK'
  BY <1>26 DEF ChunkError, Stop, Drained, Torn
<1>27. ASSUME NEW r \in Runs, NEW i \in Records, Acknowledge(r, i)
         PROVE TypeOK'
  BY <1>27 DEF Acknowledge, InSession, SetItem, Answer, Onward, SessionFrame
<1>28. ASSUME NEW r \in Runs, NEW i \in Records, AdvanceState(r, i)
         PROVE TypeOK'
  BY <1>28 DEF AdvanceState, SetItem, SetState, Onward, SessionFrame
<1>29. ASSUME NEW r \in Runs, NEW i \in Records, Contradict(r, i) PROVE TypeOK'
  BY <1>29 DEF Contradict, InSession, SetItem, Onward, SessionFrame
<1>30. ASSUME NEW r \in Runs, NEW i \in Records, StopStep(r, i) PROVE TypeOK'
  BY <1>30 DEF StopStep, InSession, Stop, Drained, Answer, NotDelivered,
     SessionFrame
<1>31. ASSUME NEW r \in Runs, NEW i \in Records, HoldInterrupted(r, i)
         PROVE TypeOK'
  BY <1>31 DEF HoldInterrupted, InSession, SetItem, HoldRow, Onward, SessionFrame
<1>32. CASE UNCHANGED vars
  BY <1>32 DEF vars, ledgerVars, processVars, historyVars
<1> QED
  BY <1>1, <1>2, <1>3, <1>4, <1>5, <1>6, <1>7, <1>8, <1>9, <1>10, <1>11, <1>12,
     <1>13, <1>14, <1>15, <1>16, <1>17, <1>18, <1>19, <1>20, <1>21, <1>22, <1>23, <1>24,
     <1>25, <1>26, <1>27, <1>28, <1>29, <1>30, <1>31, <1>32
     DEF Next, Operate, Hold, Prepare, Process

(* A process that starts joins the peers of all that run, and they its.    *)
LEMMA PeersStep == TypeOK /\ PeersKnown /\ [Next]_vars => PeersKnown'
<1> SUFFICES ASSUME TypeOK, PeersKnown, [Next]_vars PROVE PeersKnown'
  OBVIOUS
<1>1. ASSUME NEW r \in Runs, NEW i \in Records, ChunkError(r, i) PROVE PeersKnown'
  <2>1. UNCHANGED peers /\ \A q \in Runs : (pc'[q] = "dead" <=> pc[q] = "dead")
    BY <1>1 DEF ChunkError, Stop, TypeOK, Alive, AtWorker
  <2> QED
    BY <2>1 DEF PeersKnown, Alive
<1>2. ASSUME NEW r \in Runs, NEW i \in Records, RecordDelivery(r, i) PROVE PeersKnown'
  <2>1. UNCHANGED peers /\ \A q \in Runs : PoolSame(q)
    BY <1>2, TypeParts, PoolGoesOn DEF RecordDelivery, EndSession, SessionFrame
  <2> QED
    BY <2>1 DEF PeersKnown, Alive, PoolSame
<1>3. ASSUME NEW r \in Runs, NEW i \in Records, Attested(r, i) PROVE PeersKnown'
  <2>1. UNCHANGED peers /\ \A q \in Runs : PoolSame(q)
    BY <1>3, TypeParts, PoolGoesOn DEF Attested, EndSession, SessionFrame
  <2> QED
    BY <2>1 DEF PeersKnown, Alive, PoolSame
<1>4. ASSUME NEW r \in Runs, NEW i \in Records, FailContradicted(r, i) PROVE PeersKnown'
  <2>1. UNCHANGED peers /\ \A q \in Runs : PoolSame(q)
    BY <1>4, TypeParts, PoolGoesOn DEF FailContradicted, EndSession, SessionFrame
  <2> QED
    BY <2>1 DEF PeersKnown, Alive, PoolSame
<1>5. ASSUME NEW r \in Runs, NEW i \in Records, FailRecord(r, i) PROVE PeersKnown'
  <2>1. UNCHANGED peers /\ \A q \in Runs : PoolSame(q)
    BY <1>5, TypeParts, PoolGoesOn DEF FailRecord, EndSession, SessionFrame
  <2> QED
    BY <2>1 DEF PeersKnown, Alive, PoolSame
<1>6. ASSUME NEW r \in Runs, NEW i \in Records, SkipRecord(r, i) PROVE PeersKnown'
  <2>1. UNCHANGED peers /\ \A q \in Runs : PoolSame(q)
    BY <1>6, TypeParts, PoolGoesOn DEF SkipRecord, EndSession, SessionFrame
  <2> QED
    BY <2>1 DEF PeersKnown, Alive, PoolSame
<1>7. ASSUME NEW r \in Runs, NEW i \in Records, RejectAck(r, i) PROVE PeersKnown'
  <2>1. UNCHANGED peers /\ \A q \in Runs : PoolSame(q)
    BY <1>7, TypeParts, PoolGoesOn DEF RejectAck, EndSession, SessionFrame
  <2> QED
    BY <2>1 DEF PeersKnown, Alive, PoolSame
<1>8. ASSUME NEW r \in Runs, NEW i \in Records, SessionFails(r, i) PROVE PeersKnown'
  <2>1. UNCHANGED peers /\ \A q \in Runs : PoolSame(q)
    BY <1>8, TypeParts, PoolGoesOn DEF SessionFails, SessionFrame
  <2> QED
    BY <2>1 DEF PeersKnown, Alive, PoolSame
<1> USE DEF TypeOK, PeersKnown, Alive, InStep, ledgerVars, processVars, historyVars
<1>9. ASSUME NEW r \in Runs, NEW d \in DryModes, CreateRun(r, d)
         PROVE PeersKnown'
  BY <1>9 DEF CreateRun, Start
<1>10. ASSUME NEW r \in Runs, NEW d \in DryModes, NEW rel \in SUBSET Records,
   NEW settle \in SUBSET Records, Resume(r, d, rel, settle)
         PROVE PeersKnown'
  BY <1>10 DEF Resume, Start
<1>11. ASSUME NEW r \in Runs, Interrupt(r) PROVE PeersKnown'
  BY <1>11 DEF Interrupt, Stop, Drained
<1>12. ASSUME NEW r \in Runs, Crash(r) PROVE PeersKnown'
  BY <1>12 DEF Crash, Gone, Torn
<1>13. ASSUME NEW r \in Runs, OpenStep(r) PROVE PeersKnown'
  BY <1>13 DEF OpenStep
<1>14. ASSUME NEW r \in Runs, NEW d \in Runs, Probe(r, d) PROVE PeersKnown'
  BY <1>14 DEF Probe
<1>15. ASSUME NEW r \in Runs, NEW d \in Runs, NEW i \in Records, HoldDelivery(r, d, i)
         PROVE PeersKnown'
  BY <1>15 DEF HoldDelivery, HoldRow
<1>16. ASSUME NEW r \in Runs, StepFails(r) PROVE PeersKnown'
  BY <1>16 DEF StepFails, Stop, Drained
<1>17. ASSUME NEW r \in Runs, Finish(r) PROVE PeersKnown'
  BY <1>17 DEF Finish, Gone
<1>18. ASSUME NEW r \in Runs, NEW i \in Records, PrepareFails(r, i)
         PROVE PeersKnown'
  BY <1>18 DEF PrepareFails, Preparing, SetItem, Answer, Erased, PreparedFrame
<1>19. ASSUME NEW r \in Runs, NEW i \in Records, PrepareHeld(r, i)
         PROVE PeersKnown'
  BY <1>19 DEF PrepareHeld, Preparing, SetItem, PreparedFrame
<1>20. ASSUME NEW r \in Runs, NEW i \in Records, PrepareSkip(r, i)
         PROVE PeersKnown'
  BY <1>20 DEF PrepareSkip, Preparing, SetItem, SetState, PreparedFrame
<1>21. ASSUME NEW r \in Runs, NEW i \in Records, PrepareWithhold(r, i)
         PROVE PeersKnown'
  BY <1>21 DEF PrepareWithhold, Preparing, SetItem, SetState, Answer, Erased,
     PreparedFrame
<1>22. ASSUME NEW r \in Runs, NEW i \in Records, DryDeliver(r, i)
         PROVE PeersKnown'
  BY <1>22 DEF DryDeliver, Preparing, SetItem, SetState, PreparedFrame
<1>23. ASSUME NEW r \in Runs, NEW i \in Records, Queue(r, i) PROVE PeersKnown'
  BY <1>23 DEF Queue, Preparing, SetItem, PreparedFrame
<1>24. ASSUME NEW r \in Runs, NEW i \in Records, Claim(r, i) PROVE PeersKnown'
  BY <1>24 DEF Claim, SetItem
<1>25. ASSUME NEW r \in Runs, NEW i \in Records, Dispatch(r, i)
         PROVE PeersKnown'
  BY <1>25 DEF Dispatch, SetItem
<1>26. ASSUME NEW r \in Runs, NEW i \in Records, OpenSession(r, i)
         PROVE PeersKnown'
  BY <1>26 DEF OpenSession, SetItem
<1>27. ASSUME NEW r \in Runs, NEW i \in Records, Acknowledge(r, i)
         PROVE PeersKnown'
  BY <1>27 DEF Acknowledge, InSession, SetItem, Answer, Onward, SessionFrame
<1>28. ASSUME NEW r \in Runs, NEW i \in Records, AdvanceState(r, i)
         PROVE PeersKnown'
  BY <1>28 DEF AdvanceState, SetItem, SetState, Onward, SessionFrame
<1>29. ASSUME NEW r \in Runs, NEW i \in Records, Contradict(r, i)
         PROVE PeersKnown'
  BY <1>29 DEF Contradict, InSession, SetItem, Onward, SessionFrame
<1>30. ASSUME NEW r \in Runs, NEW i \in Records, StopStep(r, i)
         PROVE PeersKnown'
  BY <1>30 DEF StopStep, InSession, Stop, Drained, Answer, NotDelivered,
     SessionFrame
<1>31. ASSUME NEW r \in Runs, NEW i \in Records, HoldInterrupted(r, i)
         PROVE PeersKnown'
  BY <1>31 DEF HoldInterrupted, InSession, SetItem, HoldRow, Onward, SessionFrame
<1>32. CASE UNCHANGED vars
  BY <1>32 DEF vars, ledgerVars, processVars, historyVars
<1> QED
  BY <1>1, <1>2, <1>3, <1>4, <1>5, <1>6, <1>7, <1>8, <1>9, <1>10, <1>11, <1>12,
     <1>13, <1>14, <1>15, <1>16, <1>17, <1>18, <1>19, <1>20, <1>21, <1>22, <1>23, <1>24,
     <1>25, <1>26, <1>27, <1>28, <1>29, <1>30, <1>31, <1>32
     DEF Next, Operate, Hold, Prepare, Process

(* The dispatched event stands until an answer, which ends the session.    *)
LEMMA DispatchedStep ==
  TypeOK /\ DispatchedFirst /\ [Next]_vars
    => DispatchedFirst'
<1> SUFFICES ASSUME TypeOK, DispatchedFirst, [Next]_vars PROVE DispatchedFirst'
  OBVIOUS
<1>1. ASSUME NEW r \in Runs, NEW i \in Records, RecordDelivery(r, i) PROVE DispatchedFirst'
  <2>1. /\ item[r][i] = "moved" /\ UNCHANGED <<open, raced, copies, torn, denied, peers>>
        /\ \E s \in {"recorded", "over"} : item' = [item EXCEPT ![r][i] = s]
    BY <1>1 DEF RecordDelivery, EndSession, SetItem, SessionFrame
  <2> QED
    BY <2>1 DEF TypeOK, DispatchedFirst
<1> USE DEF TypeOK, DispatchedFirst, Alive, Waiting, ledgerVars, processVars,
   historyVars
<1>2. ASSUME NEW r \in Runs, NEW d \in DryModes, CreateRun(r, d)
         PROVE DispatchedFirst'
  BY <1>2 DEF CreateRun, Start
<1>3. ASSUME NEW r \in Runs, NEW d \in DryModes, NEW rel \in SUBSET Records,
   NEW settle \in SUBSET Records, Resume(r, d, rel, settle)
         PROVE DispatchedFirst'
  BY <1>3 DEF Resume, Start
<1>4. ASSUME NEW r \in Runs, Interrupt(r) PROVE DispatchedFirst'
  BY <1>4 DEF Interrupt, Stop, Drained
<1>5. ASSUME NEW r \in Runs, Crash(r) PROVE DispatchedFirst'
  BY <1>5 DEF Crash, Gone, Torn
<1>6. ASSUME NEW r \in Runs, OpenStep(r) PROVE DispatchedFirst'
  BY <1>6 DEF OpenStep
<1>7. ASSUME NEW r \in Runs, NEW d \in Runs, Probe(r, d) PROVE DispatchedFirst'
  BY <1>7 DEF Probe
<1>8. ASSUME NEW r \in Runs, NEW d \in Runs, NEW i \in Records, HoldDelivery(r, d, i)
         PROVE DispatchedFirst'
  BY <1>8 DEF HoldDelivery, HoldRow
<1>9. ASSUME NEW r \in Runs, StepFails(r) PROVE DispatchedFirst'
  BY <1>9 DEF StepFails, Stop, Drained
<1>10. ASSUME NEW r \in Runs, Finish(r) PROVE DispatchedFirst'
  BY <1>10 DEF Finish, Gone
<1>11. ASSUME NEW r \in Runs, NEW i \in Records, PrepareFails(r, i)
         PROVE DispatchedFirst'
  BY <1>11 DEF PrepareFails, Preparing, SetItem, Answer, Erased, PreparedFrame
<1>12. ASSUME NEW r \in Runs, NEW i \in Records, PrepareHeld(r, i)
         PROVE DispatchedFirst'
  BY <1>12 DEF PrepareHeld, Preparing, SetItem, PreparedFrame
<1>13. ASSUME NEW r \in Runs, NEW i \in Records, PrepareSkip(r, i)
         PROVE DispatchedFirst'
  BY <1>13 DEF PrepareSkip, Preparing, SetItem, SetState, PreparedFrame
<1>14. ASSUME NEW r \in Runs, NEW i \in Records, PrepareWithhold(r, i)
         PROVE DispatchedFirst'
  BY <1>14 DEF PrepareWithhold, Preparing, SetItem, SetState, Answer, Erased,
     PreparedFrame
<1>15. ASSUME NEW r \in Runs, NEW i \in Records, DryDeliver(r, i)
         PROVE DispatchedFirst'
  BY <1>15 DEF DryDeliver, Preparing, SetItem, SetState, PreparedFrame
<1>16. ASSUME NEW r \in Runs, NEW i \in Records, Queue(r, i)
         PROVE DispatchedFirst'
  BY <1>16 DEF Queue, Preparing, SetItem, PreparedFrame
<1>17. ASSUME NEW r \in Runs, NEW i \in Records, Claim(r, i)
         PROVE DispatchedFirst'
  BY <1>17 DEF Claim, SetItem
<1>18. ASSUME NEW r \in Runs, NEW i \in Records, Dispatch(r, i)
         PROVE DispatchedFirst'
  BY <1>18 DEF Dispatch, SetItem
<1>19. ASSUME NEW r \in Runs, NEW i \in Records, OpenSession(r, i)
         PROVE DispatchedFirst'
  BY <1>19 DEF OpenSession, SetItem
<1>20. ASSUME NEW r \in Runs, NEW i \in Records, ChunkError(r, i)
         PROVE DispatchedFirst'
  BY <1>20 DEF ChunkError, Stop, Drained, Torn
<1>21. ASSUME NEW r \in Runs, NEW i \in Records, Acknowledge(r, i)
         PROVE DispatchedFirst'
  BY <1>21 DEF Acknowledge, InSession, SetItem, Answer, Onward, SessionFrame
<1>22. ASSUME NEW r \in Runs, NEW i \in Records, AdvanceState(r, i)
         PROVE DispatchedFirst'
  BY <1>22 DEF AdvanceState, SetItem, SetState, Onward, SessionFrame
<1>23. ASSUME NEW r \in Runs, NEW i \in Records, Attested(r, i)
         PROVE DispatchedFirst'
  BY <1>23 DEF Attested, SetItem, EndSession, Failing, Onward, SessionFrame
<1>24. ASSUME NEW r \in Runs, NEW i \in Records, Contradict(r, i)
         PROVE DispatchedFirst'
  BY <1>24 DEF Contradict, InSession, SetItem, Onward, SessionFrame
<1>25. ASSUME NEW r \in Runs, NEW i \in Records, FailContradicted(r, i)
         PROVE DispatchedFirst'
  BY <1>25 DEF FailContradicted, EndSession, SetItem, Failing, Answer, Onward,
     SessionFrame
<1>26. ASSUME NEW r \in Runs, NEW i \in Records, FailRecord(r, i)
         PROVE DispatchedFirst'
  BY <1>26 DEF FailRecord, InSession, EndSession, SetItem, Failing, Answer,
     Onward, SessionFrame, NotDelivered
<1>27. ASSUME NEW r \in Runs, NEW i \in Records, SkipRecord(r, i)
         PROVE DispatchedFirst'
  BY <1>27 DEF SkipRecord, InSession, EndSession, SetItem, SetState, Failing,
     Answer, Onward, SessionFrame, NotDelivered
<1>28. ASSUME NEW r \in Runs, NEW i \in Records, RejectAck(r, i)
         PROVE DispatchedFirst'
  BY <1>28 DEF RejectAck, InSession, EndSession, SetItem, Failing, Answer,
     Erased, Onward, SessionFrame
<1>29. ASSUME NEW r \in Runs, NEW i \in Records, StopStep(r, i)
         PROVE DispatchedFirst'
  BY <1>29 DEF StopStep, InSession, Stop, Drained, Answer, NotDelivered,
     SessionFrame
<1>30. ASSUME NEW r \in Runs, NEW i \in Records, SessionFails(r, i)
         PROVE DispatchedFirst'
  BY <1>30 DEF SessionFails, InSession, SetItem, Failing, Answer, Erased,
     NotDelivered, SessionFrame
<1>31. ASSUME NEW r \in Runs, NEW i \in Records, HoldInterrupted(r, i)
         PROVE DispatchedFirst'
  BY <1>31 DEF HoldInterrupted, InSession, SetItem, HoldRow, Onward, SessionFrame
<1>32. CASE UNCHANGED vars
  BY <1>32 DEF vars, ledgerVars, processVars, historyVars
<1> QED
  BY <1>1, <1>2, <1>3, <1>4, <1>5, <1>6, <1>7, <1>8, <1>9, <1>10, <1>11, <1>12,
     <1>13, <1>14, <1>15, <1>16, <1>17, <1>18, <1>19, <1>20, <1>21, <1>22, <1>23, <1>24,
     <1>25, <1>26, <1>27, <1>28, <1>29, <1>30, <1>31, <1>32
     DEF Next, Operate, Hold, Prepare, Process

(* A second record of a key that passes the check is seen to race.         *)
LEMMA OneAtATimeStep ==
  TypeOK /\ PeersKnown /\ OneAtATime /\ [Next]_vars
    => OneAtATime'
<1> SUFFICES ASSUME TypeOK, PeersKnown, OneAtATime, [Next]_vars PROVE OneAtATime'
  OBVIOUS
<1>1. ASSUME NEW r \in Runs, NEW i \in Records, Queue(r, i) PROVE OneAtATime'
  <2>1. /\ InStep(r) /\ item[r][i] = "todo" /\ item' = [item EXCEPT ![r][i] = "queued"]
        /\ raced' = IF InFlight(r, i) THEN raced \cup {KeyOf[i]} ELSE raced
    BY <1>1 DEF Queue, Preparing, Scanned, SetItem
  <2>2. CASE InFlight(r, i)
    BY <2>1, <2>2 DEF TypeOK, OneAtATime, Unresolved
  <2>3. CASE ~InFlight(r, i)
    <3>1. ASSUME NEW d \in Runs, NEW j \in Records, KeyOf[j] = KeyOf[i], item[d][j] \in Unresolved
          PROVE  FALSE
      <4>1. Alive(d) /\ Alive(r)
        BY <2>1, <3>1 DEF TypeOK, Unresolved, Alive, InStep
      <4>2. d \in peers[r]
        BY <4>1 DEF PeersKnown
      <4>3. <<d, j>> # <<r, i>>
        BY <2>1, <3>1 DEF Unresolved
      <4> QED
        BY <2>3, <3>1, <4>2, <4>3 DEF InFlight
    <3> QED
      BY <2>1, <2>3, <3>1 DEF TypeOK, OneAtATime, Unresolved
  <2> QED
    BY <2>2, <2>3
<1>2. ASSUME NEW r \in Runs, NEW i \in Records, RecordDelivery(r, i) PROVE OneAtATime'
  <2>1. /\ item[r][i] = "moved" /\ UNCHANGED <<open, raced, copies, torn, denied, peers>>
        /\ \E s \in {"recorded", "over"} : item' = [item EXCEPT ![r][i] = s]
    BY <1>2 DEF RecordDelivery, EndSession, SetItem, SessionFrame
  <2> QED
    BY <2>1 DEF TypeOK, OneAtATime, Unresolved
<1> USE DEF TypeOK, PeersKnown, OneAtATime, Alive, Unresolved, Waiting, InStep,
   ledgerVars, processVars, historyVars
<1>3. ASSUME NEW r \in Runs, NEW d \in DryModes, CreateRun(r, d)
         PROVE OneAtATime'
  BY <1>3 DEF CreateRun, Start
<1>4. ASSUME NEW r \in Runs, NEW d \in DryModes, NEW rel \in SUBSET Records,
   NEW settle \in SUBSET Records, Resume(r, d, rel, settle)
         PROVE OneAtATime'
  BY <1>4 DEF Resume, Start
<1>5. ASSUME NEW r \in Runs, Interrupt(r) PROVE OneAtATime'
  BY <1>5 DEF Interrupt, Stop, Drained
<1>6. ASSUME NEW r \in Runs, Crash(r) PROVE OneAtATime'
  BY <1>6 DEF Crash, Gone, Torn
<1>7. ASSUME NEW r \in Runs, OpenStep(r) PROVE OneAtATime'
  BY <1>7 DEF OpenStep
<1>8. ASSUME NEW r \in Runs, NEW d \in Runs, Probe(r, d) PROVE OneAtATime'
  BY <1>8 DEF Probe
<1>9. ASSUME NEW r \in Runs, NEW d \in Runs, NEW i \in Records, HoldDelivery(r, d, i)
         PROVE OneAtATime'
  BY <1>9 DEF HoldDelivery, HoldRow
<1>10. ASSUME NEW r \in Runs, StepFails(r) PROVE OneAtATime'
  BY <1>10 DEF StepFails, Stop, Drained
<1>11. ASSUME NEW r \in Runs, Finish(r) PROVE OneAtATime'
  BY <1>11 DEF Finish, Gone
<1>12. ASSUME NEW r \in Runs, NEW i \in Records, PrepareFails(r, i)
         PROVE OneAtATime'
  BY <1>12 DEF PrepareFails, Preparing, SetItem, Answer, Erased, PreparedFrame
<1>13. ASSUME NEW r \in Runs, NEW i \in Records, PrepareHeld(r, i)
         PROVE OneAtATime'
  BY <1>13 DEF PrepareHeld, Preparing, SetItem, PreparedFrame
<1>14. ASSUME NEW r \in Runs, NEW i \in Records, PrepareSkip(r, i)
         PROVE OneAtATime'
  BY <1>14 DEF PrepareSkip, Preparing, SetItem, SetState, PreparedFrame
<1>15. ASSUME NEW r \in Runs, NEW i \in Records, PrepareWithhold(r, i)
         PROVE OneAtATime'
  BY <1>15 DEF PrepareWithhold, Preparing, SetItem, SetState, Answer, Erased,
     PreparedFrame
<1>16. ASSUME NEW r \in Runs, NEW i \in Records, DryDeliver(r, i)
         PROVE OneAtATime'
  BY <1>16 DEF DryDeliver, Preparing, SetItem, SetState, PreparedFrame
<1>17. ASSUME NEW r \in Runs, NEW i \in Records, Claim(r, i) PROVE OneAtATime'
  BY <1>17 DEF Claim, SetItem
<1>18. ASSUME NEW r \in Runs, NEW i \in Records, Dispatch(r, i)
         PROVE OneAtATime'
  BY <1>18 DEF Dispatch, SetItem
<1>19. ASSUME NEW r \in Runs, NEW i \in Records, OpenSession(r, i)
         PROVE OneAtATime'
  BY <1>19 DEF OpenSession, SetItem
<1>20. ASSUME NEW r \in Runs, NEW i \in Records, ChunkError(r, i)
         PROVE OneAtATime'
  BY <1>20 DEF ChunkError, Stop, Drained, Torn
<1>21. ASSUME NEW r \in Runs, NEW i \in Records, Acknowledge(r, i)
         PROVE OneAtATime'
  BY <1>21 DEF Acknowledge, InSession, SetItem, Answer, Onward, SessionFrame
<1>22. ASSUME NEW r \in Runs, NEW i \in Records, AdvanceState(r, i)
         PROVE OneAtATime'
  BY <1>22 DEF AdvanceState, SetItem, SetState, Onward, SessionFrame
<1>23. ASSUME NEW r \in Runs, NEW i \in Records, Attested(r, i)
         PROVE OneAtATime'
  BY <1>23 DEF Attested, SetItem, EndSession, Failing, Onward, SessionFrame
<1>24. ASSUME NEW r \in Runs, NEW i \in Records, Contradict(r, i)
         PROVE OneAtATime'
  BY <1>24 DEF Contradict, InSession, SetItem, Onward, SessionFrame
<1>25. ASSUME NEW r \in Runs, NEW i \in Records, FailContradicted(r, i)
         PROVE OneAtATime'
  BY <1>25 DEF FailContradicted, EndSession, SetItem, Failing, Answer, Onward,
     SessionFrame
<1>26. ASSUME NEW r \in Runs, NEW i \in Records, FailRecord(r, i)
         PROVE OneAtATime'
  BY <1>26 DEF FailRecord, InSession, EndSession, SetItem, Failing, Answer,
     Onward, SessionFrame, NotDelivered
<1>27. ASSUME NEW r \in Runs, NEW i \in Records, SkipRecord(r, i)
         PROVE OneAtATime'
  BY <1>27 DEF SkipRecord, InSession, EndSession, SetItem, SetState, Failing,
     Answer, Onward, SessionFrame, NotDelivered
<1>28. ASSUME NEW r \in Runs, NEW i \in Records, RejectAck(r, i)
         PROVE OneAtATime'
  BY <1>28 DEF RejectAck, InSession, EndSession, SetItem, Failing, Answer,
     Erased, Onward, SessionFrame
<1>29. ASSUME NEW r \in Runs, NEW i \in Records, StopStep(r, i)
         PROVE OneAtATime'
  BY <1>29 DEF StopStep, InSession, Stop, Drained, Answer, NotDelivered,
     SessionFrame
<1>30. ASSUME NEW r \in Runs, NEW i \in Records, SessionFails(r, i)
         PROVE OneAtATime'
  BY <1>30 DEF SessionFails, InSession, SetItem, Failing, Answer, Erased,
     NotDelivered, SessionFrame
<1>31. ASSUME NEW r \in Runs, NEW i \in Records, HoldInterrupted(r, i)
         PROVE OneAtATime'
  BY <1>31 DEF HoldInterrupted, InSession, SetItem, HoldRow, Onward, SessionFrame
<1>32. CASE UNCHANGED vars
  BY <1>32 DEF vars, ledgerVars, processVars, historyVars
<1> QED
  BY <1>1, <1>2, <1>3, <1>4, <1>5, <1>6, <1>7, <1>8, <1>9, <1>10, <1>11, <1>12,
     <1>13, <1>14, <1>15, <1>16, <1>17, <1>18, <1>19, <1>20, <1>21, <1>22, <1>23, <1>24,
     <1>25, <1>26, <1>27, <1>28, <1>29, <1>30, <1>31, <1>32
     DEF Next, Operate, Hold, Prepare, Process

(* A dispatch is either there when the step opens, and scanned, or made by *)
(* a process that runs beside it.                                          *)
LEMMA HeldStep ==
  TypeOK /\ PeersKnown /\ DeadDispatchesHeld /\ [Next]_vars
    => DeadDispatchesHeld'
<1> SUFFICES ASSUME TypeOK, PeersKnown, DeadDispatchesHeld, [Next]_vars
         PROVE DeadDispatchesHeld'
  OBVIOUS
<1>1. ASSUME NEW r \in Runs, NEW i \in Records, Dispatch(r, i) PROVE DeadDispatchesHeld'
  <2> SUFFICES ASSUME NEW p \in Runs, NEW d \in Runs, NEW j \in Records,
                      InStep(p)', ~dry'[p], j \in open'[d]
               PROVE  SeenTo(p, d, j)'
    BY DEF DeadDispatchesHeld
  <2>1. /\ UNCHANGED <<pc, dry, scan, hold, peers, deliveries>>
        /\ item[r][i] = "claimed" /\ item' = [item EXCEPT ![r][i] = "dispatched"]
        /\ open' = [open EXCEPT ![r] = @ \cup {i}]
    BY <1>1 DEF Dispatch, SetItem, historyVars
  <2>2. CASE d = r /\ j = i
    <3>1. Alive(r) /\ Alive(p)
      BY <2>1 DEF TypeOK, Alive, InStep
    <3>2. r \in peers[p]
      BY <3>1 DEF PeersKnown
    <3> QED
      BY <2>1, <2>2, <3>2 DEF TypeOK, SeenTo, InHand
  <2>3. CASE ~(d = r /\ j = i)
    <3>1. InStep(p) /\ ~dry[p] /\ j \in open[d]
      BY <2>1, <2>3 DEF TypeOK, InStep
    <3>2. SeenTo(p, d, j)
      BY <3>1 DEF DeadDispatchesHeld
    <3> QED
      BY <2>1, <2>3, <3>2 DEF TypeOK, SeenTo, InHand, HasRow
  <2> QED
    BY <2>2, <2>3
<1>2. ASSUME NEW r \in Runs, NEW i \in Records, RecordDelivery(r, i) PROVE DeadDispatchesHeld'
  <2>1. /\ UNCHANGED <<open, dry, scan, hold, peers>>
        /\ \A q \in Runs : PoolSame(q)
        /\ \E s \in {"recorded", "over"} : item' = [item EXCEPT ![r][i] = s]
        /\ item[r][i] \notin InHand
    BY <1>2, TypeParts, PoolGoesOn DEF RecordDelivery, EndSession, SetItem,
       SessionFrame, InHand
  <2>2. \A k \in Keys : HasRow(k) => HasRow(k)'
    BY <1>2, TypeParts, RowsStay DEF RecordDelivery, Statuses, HasRow
  <2> QED
    BY <2>1, <2>2 DEF TypeOK, DeadDispatchesHeld, SeenTo, InStep, PoolSame
<1>3. ASSUME NEW r \in Runs, NEW i \in Records, Attested(r, i) PROVE DeadDispatchesHeld'
  <2>1. /\ UNCHANGED <<open, dry, scan, hold, peers>>
        /\ \A q \in Runs : PoolSame(q)
        /\ \E s \in {"recorded", "over"} : item' = [item EXCEPT ![r][i] = s]
        /\ item[r][i] \notin InHand
    BY <1>3, TypeParts, PoolGoesOn DEF Attested, EndSession, SetItem,
       SessionFrame, InHand
  <2>2. \A k \in Keys : HasRow(k) => HasRow(k)'
    BY <1>3, TypeParts, RowsStay DEF Attested, Statuses, HasRow
  <2> QED
    BY <2>1, <2>2 DEF TypeOK, DeadDispatchesHeld, SeenTo, InStep, PoolSame
<1> USE DEF TypeOK, PeersKnown, DeadDispatchesHeld, SeenTo, InHand, HasRow,
   Row, HeldRow, Alive, InStep,
            ledgerVars, processVars, historyVars
<1>4. ASSUME NEW r \in Runs, NEW d \in DryModes, CreateRun(r, d)
         PROVE DeadDispatchesHeld'
  BY <1>4 DEF CreateRun, Start
<1>5. ASSUME NEW r \in Runs, NEW d \in DryModes, NEW rel \in SUBSET Records,
   NEW settle \in SUBSET Records, Resume(r, d, rel, settle)
         PROVE DeadDispatchesHeld'
  BY <1>5 DEF Resume, Start
<1>6. ASSUME NEW r \in Runs, Interrupt(r) PROVE DeadDispatchesHeld'
  BY <1>6 DEF Interrupt, Stop, Drained
<1>7. ASSUME NEW r \in Runs, Crash(r) PROVE DeadDispatchesHeld'
  BY <1>7 DEF Crash, Gone, Torn
<1>8. ASSUME NEW r \in Runs, OpenStep(r) PROVE DeadDispatchesHeld'
  BY <1>8 DEF OpenStep
<1>9. ASSUME NEW r \in Runs, NEW d \in Runs, Probe(r, d)
         PROVE DeadDispatchesHeld'
  BY <1>9 DEF Probe
<1>10. ASSUME NEW r \in Runs, NEW d \in Runs, NEW i \in Records, HoldDelivery(r, d, i)
         PROVE DeadDispatchesHeld'
  BY <1>10 DEF HoldDelivery, HoldRow
<1>11. ASSUME NEW r \in Runs, StepFails(r) PROVE DeadDispatchesHeld'
  BY <1>11 DEF StepFails, Stop, Drained
<1>12. ASSUME NEW r \in Runs, Finish(r) PROVE DeadDispatchesHeld'
  BY <1>12 DEF Finish, Gone
<1>13. ASSUME NEW r \in Runs, NEW i \in Records, PrepareFails(r, i)
         PROVE DeadDispatchesHeld'
  BY <1>13 DEF PrepareFails, Preparing, SetItem, Answer, Erased, PreparedFrame
<1>14. ASSUME NEW r \in Runs, NEW i \in Records, PrepareHeld(r, i)
         PROVE DeadDispatchesHeld'
  BY <1>14 DEF PrepareHeld, Preparing, SetItem, PreparedFrame
<1>15. ASSUME NEW r \in Runs, NEW i \in Records, PrepareSkip(r, i)
         PROVE DeadDispatchesHeld'
  BY <1>15 DEF PrepareSkip, Preparing, SetItem, SetState, PreparedFrame
<1>16. ASSUME NEW r \in Runs, NEW i \in Records, PrepareWithhold(r, i)
         PROVE DeadDispatchesHeld'
  BY <1>16 DEF PrepareWithhold, Preparing, SetItem, SetState, Answer, Erased,
     PreparedFrame
<1>17. ASSUME NEW r \in Runs, NEW i \in Records, DryDeliver(r, i)
         PROVE DeadDispatchesHeld'
  BY <1>17 DEF DryDeliver, Preparing, SetItem, SetState, PreparedFrame
<1>18. ASSUME NEW r \in Runs, NEW i \in Records, Queue(r, i)
         PROVE DeadDispatchesHeld'
  BY <1>18 DEF Queue, Preparing, SetItem, PreparedFrame
<1>19. ASSUME NEW r \in Runs, NEW i \in Records, Claim(r, i)
         PROVE DeadDispatchesHeld'
  BY <1>19 DEF Claim, SetItem
<1>20. ASSUME NEW r \in Runs, NEW i \in Records, OpenSession(r, i)
         PROVE DeadDispatchesHeld'
  BY <1>20 DEF OpenSession, SetItem
<1>21. ASSUME NEW r \in Runs, NEW i \in Records, ChunkError(r, i)
         PROVE DeadDispatchesHeld'
  BY <1>21 DEF ChunkError, Stop, Drained, Torn
<1>22. ASSUME NEW r \in Runs, NEW i \in Records, Acknowledge(r, i)
         PROVE DeadDispatchesHeld'
  BY <1>22 DEF Acknowledge, InSession, SetItem, Answer, Onward, SessionFrame
<1>23. ASSUME NEW r \in Runs, NEW i \in Records, AdvanceState(r, i)
         PROVE DeadDispatchesHeld'
  BY <1>23 DEF AdvanceState, SetItem, SetState, Onward, SessionFrame
<1>24. ASSUME NEW r \in Runs, NEW i \in Records, Contradict(r, i)
         PROVE DeadDispatchesHeld'
  BY <1>24 DEF Contradict, InSession, SetItem, Onward, SessionFrame
<1>25. ASSUME NEW r \in Runs, NEW i \in Records, FailContradicted(r, i)
         PROVE DeadDispatchesHeld'
  BY <1>25 DEF FailContradicted, EndSession, SetItem, Failing, Answer, Onward,
     SessionFrame
<1>26. ASSUME NEW r \in Runs, NEW i \in Records, FailRecord(r, i)
         PROVE DeadDispatchesHeld'
  BY <1>26 DEF FailRecord, InSession, EndSession, SetItem, Failing, Answer,
     Onward, SessionFrame, NotDelivered
<1>27. ASSUME NEW r \in Runs, NEW i \in Records, SkipRecord(r, i)
         PROVE DeadDispatchesHeld'
  BY <1>27 DEF SkipRecord, InSession, EndSession, SetItem, SetState, Failing,
     Answer, Onward, SessionFrame, NotDelivered
<1>28. ASSUME NEW r \in Runs, NEW i \in Records, RejectAck(r, i)
         PROVE DeadDispatchesHeld'
  BY <1>28 DEF RejectAck, InSession, EndSession, SetItem, Failing, Answer,
     Erased, Onward, SessionFrame
<1>29. ASSUME NEW r \in Runs, NEW i \in Records, StopStep(r, i)
         PROVE DeadDispatchesHeld'
  BY <1>29 DEF StopStep, InSession, Stop, Drained, Answer, NotDelivered,
     SessionFrame
<1>30. ASSUME NEW r \in Runs, NEW i \in Records, SessionFails(r, i)
         PROVE DeadDispatchesHeld'
  BY <1>30 DEF SessionFails, InSession, SetItem, Failing, Answer, Erased,
     NotDelivered, SessionFrame
<1>31. ASSUME NEW r \in Runs, NEW i \in Records, HoldInterrupted(r, i)
         PROVE DeadDispatchesHeld'
  BY <1>31 DEF HoldInterrupted, InSession, SetItem, HoldRow, Onward, SessionFrame
<1>32. CASE UNCHANGED vars
  BY <1>32 DEF vars, ledgerVars, processVars, historyVars
<1> HIDE DEF TypeOK, PeersKnown, DeadDispatchesHeld, SeenTo, InHand, HasRow, Row, HeldRow,
             Alive, InStep
<1> QED
  BY <1>1, <1>2, <1>3, <1>4, <1>5, <1>6, <1>7, <1>8, <1>9, <1>10, <1>11, <1>12,
     <1>13, <1>14, <1>15, <1>16, <1>17, <1>18, <1>19, <1>20, <1>21, <1>22, <1>23, <1>24,
     <1>25, <1>26, <1>27, <1>28, <1>29, <1>30, <1>31, <1>32
     DEF Next, Operate, Hold, Prepare, Process

(* A record queued for a key nobody has claimed: a request of the key that *)
(* may be at the target would show, in a peer as a race, in a dead process *)
(* as a row.                                                               *)
LEMMA FreshStep ==
  TypeOK /\ PeersKnown /\ OneAtATime /\ FreshStart /\ DeadDispatchesHeld
    /\ NothingForgotten /\ [Next]_vars
    => FreshStart'
<1> SUFFICES ASSUME TypeOK, PeersKnown, OneAtATime, FreshStart, DeadDispatchesHeld,
                    NothingForgotten, [Next]_vars
         PROVE FreshStart'
  OBVIOUS
<1>1. ASSUME NEW r \in Runs, NEW i \in Records, Queue(r, i) PROVE FreshStart'
  <2> DEFINE k == KeyOf[i]
  <2>1. /\ InStep(r) /\ ~dry[r] /\ scan[r] = {} /\ hold[r] = {}
        /\ item[r][i] = "todo" /\ item' = [item EXCEPT ![r][i] = "queued"]
        /\ raced'  = IF InFlight(r, i) THEN raced \cup {k} ELSE raced
        /\ copies' = IF HasRow(k) THEN [copies EXCEPT ![k] = 0] ELSE copies
        /\ UNCHANGED <<torn, denied>>
    BY <1>1 DEF Queue, Preparing, Scanned, SetItem
  <2>2. ASSUME k \notin Waived' PROVE copies'[k] = 0
    <3>1. CASE HasRow(k)
      BY <2>1, <3>1 DEF TypeOK
    <3>2. CASE ~HasRow(k)
      <4>1. k \in Keys \ Waived /\ ~InFlight(r, i)
        BY <2>1, <2>2 DEF Waived
      <4>2. SUFFICES ASSUME copies[k] # 0 PROVE FALSE
        BY <2>1, <3>2
      <4>3. copies[k] > 0
        <5>1. copies \in [Keys -> 0..2]
          BY DEF TypeOK
        <5> QED
          BY <4>1, <4>2, <5>1
      <4>4. PICK d \in Runs, j \in Records :
              KeyOf[j] = k /\ (j \in open[d] \/ item[d][j] \in {"logged", "moved"})
        BY <3>2, <4>1, <4>3 DEF NothingForgotten
      <4>5. CASE item[d][j] \in {"logged", "moved"}
        <5>1. Alive(d) /\ Alive(r)
          BY <2>1, <4>5 DEF TypeOK, Alive, InStep
        <5>2. d \in peers[r] /\ <<d, j>> # <<r, i>>
          BY <2>1, <4>5, <5>1 DEF PeersKnown
        <5> QED
          BY <4>1, <4>4, <4>5, <5>2 DEF InFlight, Unresolved
      <4>6. CASE j \in open[d]
        <5>1. SeenTo(r, d, j)
          BY <2>1, <4>6 DEF DeadDispatchesHeld
        <5>2. ~HasRow(KeyOf[j]) /\ <<d, j>> \notin scan[r] \cup hold[r]
          BY <2>1, <3>2, <4>4
        <5>4. item[r][i] \notin InHand
          BY <2>1 DEF InHand
        <5>3. r \in peers[r]
          BY <2>1 DEF PeersKnown, Alive, InStep
        <5> QED
          BY <4>1, <4>4, <4>6, <5>1, <5>2, <5>3, <5>4 DEF SeenTo, InFlight
      <4> QED
        BY <4>4, <4>5, <4>6
    <3> QED
      BY <3>1, <3>2
  <2>3. ASSUME NEW d \in Runs, NEW j \in Records, ~(d = r /\ j = i),
               item'[d][j] \in BeforeSending, KeyOf[j] \notin Waived'
        PROVE  copies'[KeyOf[j]] = 0
    <3>1. item[d][j] \in BeforeSending /\ KeyOf[j] \notin Waived
      BY <2>1, <2>3 DEF TypeOK, Waived
    <3>2. copies[KeyOf[j]] = 0
      BY <3>1 DEF FreshStart
    <3> QED
      BY <2>1, <3>2 DEF TypeOK
  <2> QED
    BY <2>2, <2>3 DEF FreshStart
<1>2. ASSUME NEW r \in Runs, NEW i \in Records, OpenSession(r, i) PROVE FreshStart'
  <2>1. /\ item[r][i] = "dispatched" /\ item' = [item EXCEPT ![r][i] = "session"]
        /\ \A k \in Keys \ {KeyOf[i]} : copies'[k] = copies[k]
        /\ UNCHANGED <<torn, denied, raced>>
    BY <1>2 DEF OpenSession, SetItem, TypeOK
  <2> QED
    BY <2>1 DEF TypeOK, FreshStart, BeforeSending, Waived, OneAtATime, Unresolved
<1>3. ASSUME NEW r \in Runs, NEW i \in Records, RecordDelivery(r, i) PROVE FreshStart'
  <2>1. /\ item[r][i] = "moved" /\ UNCHANGED <<open, raced, copies, torn, denied, peers>>
        /\ \E s \in {"recorded", "over"} : item' = [item EXCEPT ![r][i] = s]
    BY <1>3 DEF RecordDelivery, EndSession, SetItem, SessionFrame
  <2> QED
    BY <2>1 DEF TypeOK, FreshStart, BeforeSending, Waived
<1> USE DEF TypeOK, FreshStart, BeforeSending, Waived, Waiting, Alive, InStep,
   ledgerVars, processVars, historyVars
<1>4. ASSUME NEW r \in Runs, NEW d \in DryModes, CreateRun(r, d)
         PROVE FreshStart'
  BY <1>4 DEF CreateRun, Start
<1>5. ASSUME NEW r \in Runs, NEW d \in DryModes, NEW rel \in SUBSET Records,
   NEW settle \in SUBSET Records, Resume(r, d, rel, settle)
         PROVE FreshStart'
  BY <1>5 DEF Resume, Start
<1>6. ASSUME NEW r \in Runs, Interrupt(r) PROVE FreshStart'
  BY <1>6 DEF Interrupt, Stop, Drained
<1>7. ASSUME NEW r \in Runs, Crash(r) PROVE FreshStart'
  BY <1>7 DEF Crash, Gone, Torn
<1>8. ASSUME NEW r \in Runs, OpenStep(r) PROVE FreshStart'
  BY <1>8 DEF OpenStep
<1>9. ASSUME NEW r \in Runs, NEW d \in Runs, Probe(r, d) PROVE FreshStart'
  BY <1>9 DEF Probe
<1>10. ASSUME NEW r \in Runs, NEW d \in Runs, NEW i \in Records, HoldDelivery(r, d, i)
         PROVE FreshStart'
  BY <1>10 DEF HoldDelivery, HoldRow
<1>11. ASSUME NEW r \in Runs, StepFails(r) PROVE FreshStart'
  BY <1>11 DEF StepFails, Stop, Drained
<1>12. ASSUME NEW r \in Runs, Finish(r) PROVE FreshStart'
  BY <1>12 DEF Finish, Gone
<1>13. ASSUME NEW r \in Runs, NEW i \in Records, PrepareFails(r, i)
         PROVE FreshStart'
  BY <1>13 DEF PrepareFails, Preparing, SetItem, Answer, Erased, PreparedFrame
<1>14. ASSUME NEW r \in Runs, NEW i \in Records, PrepareHeld(r, i)
         PROVE FreshStart'
  BY <1>14 DEF PrepareHeld, Preparing, SetItem, PreparedFrame
<1>15. ASSUME NEW r \in Runs, NEW i \in Records, PrepareSkip(r, i)
         PROVE FreshStart'
  BY <1>15 DEF PrepareSkip, Preparing, SetItem, SetState, PreparedFrame
<1>16. ASSUME NEW r \in Runs, NEW i \in Records, PrepareWithhold(r, i)
         PROVE FreshStart'
  BY <1>16 DEF PrepareWithhold, Preparing, SetItem, SetState, Answer, Erased,
     PreparedFrame
<1>17. ASSUME NEW r \in Runs, NEW i \in Records, DryDeliver(r, i)
         PROVE FreshStart'
  BY <1>17 DEF DryDeliver, Preparing, SetItem, SetState, PreparedFrame
<1>18. ASSUME NEW r \in Runs, NEW i \in Records, Claim(r, i) PROVE FreshStart'
  BY <1>18 DEF Claim, SetItem
<1>19. ASSUME NEW r \in Runs, NEW i \in Records, Dispatch(r, i)
         PROVE FreshStart'
  BY <1>19 DEF Dispatch, SetItem
<1>20. ASSUME NEW r \in Runs, NEW i \in Records, ChunkError(r, i)
         PROVE FreshStart'
  BY <1>20 DEF ChunkError, Stop, Drained, Torn
<1>21. ASSUME NEW r \in Runs, NEW i \in Records, Acknowledge(r, i)
         PROVE FreshStart'
  BY <1>21 DEF Acknowledge, InSession, SetItem, Answer, Onward, SessionFrame
<1>22. ASSUME NEW r \in Runs, NEW i \in Records, AdvanceState(r, i)
         PROVE FreshStart'
  BY <1>22 DEF AdvanceState, SetItem, SetState, Onward, SessionFrame
<1>23. ASSUME NEW r \in Runs, NEW i \in Records, Attested(r, i)
         PROVE FreshStart'
  BY <1>23 DEF Attested, SetItem, EndSession, Failing, Onward, SessionFrame
<1>24. ASSUME NEW r \in Runs, NEW i \in Records, Contradict(r, i)
         PROVE FreshStart'
  BY <1>24 DEF Contradict, InSession, SetItem, Onward, SessionFrame
<1>25. ASSUME NEW r \in Runs, NEW i \in Records, FailContradicted(r, i)
         PROVE FreshStart'
  BY <1>25 DEF FailContradicted, EndSession, SetItem, Failing, Answer, Onward,
     SessionFrame
<1>26. ASSUME NEW r \in Runs, NEW i \in Records, FailRecord(r, i)
         PROVE FreshStart'
  BY <1>26 DEF FailRecord, InSession, EndSession, SetItem, Failing, Answer,
     Onward, SessionFrame, NotDelivered
<1>27. ASSUME NEW r \in Runs, NEW i \in Records, SkipRecord(r, i)
         PROVE FreshStart'
  BY <1>27 DEF SkipRecord, InSession, EndSession, SetItem, SetState, Failing,
     Answer, Onward, SessionFrame, NotDelivered
<1>28. ASSUME NEW r \in Runs, NEW i \in Records, RejectAck(r, i)
         PROVE FreshStart'
  BY <1>28 DEF RejectAck, InSession, EndSession, SetItem, Failing, Answer,
     Erased, Onward, SessionFrame
<1>29. ASSUME NEW r \in Runs, NEW i \in Records, StopStep(r, i)
         PROVE FreshStart'
  BY <1>29 DEF StopStep, InSession, Stop, Drained, Answer, NotDelivered,
     SessionFrame
<1>30. ASSUME NEW r \in Runs, NEW i \in Records, SessionFails(r, i)
         PROVE FreshStart'
  BY <1>30 DEF SessionFails, InSession, SetItem, Failing, Answer, Erased,
     NotDelivered, SessionFrame
<1>31. ASSUME NEW r \in Runs, NEW i \in Records, HoldInterrupted(r, i)
         PROVE FreshStart'
  BY <1>31 DEF HoldInterrupted, InSession, SetItem, HoldRow, Onward, SessionFrame
<1>32. CASE UNCHANGED vars
  BY <1>32 DEF vars, ledgerVars, processVars, historyVars
<1> QED
  BY <1>1, <1>2, <1>3, <1>4, <1>5, <1>6, <1>7, <1>8, <1>9, <1>10, <1>11, <1>12,
     <1>13, <1>14, <1>15, <1>16, <1>17, <1>18, <1>19, <1>20, <1>21, <1>22, <1>23, <1>24,
     <1>25, <1>26, <1>27, <1>28, <1>29, <1>30, <1>31, <1>32
     DEF Next, Operate, Hold, Prepare, Process

(* What shows a request goes on showing it: the row follows the done event *)
(* in the same process, and a process that dies in between waives the key. *)
LEMMA EvidenceLemma ==
  TypeOK /\ DispatchedFirst /\ NoDoubleSend /\ [Next]_vars
    => EvidenceKept
<1> SUFFICES ASSUME TypeOK, DispatchedFirst, NoDoubleSend, [Next]_vars
         PROVE EvidenceKept
  OBVIOUS
<1>1. ASSUME NEW r \in Runs, OpenStep(r) PROVE EvidenceKept
  <2>1. /\ pc[r] = "start" /\ UNCHANGED <<torn, denied, raced, copies, open, deliveries>>
        /\ \A q \in Runs \ {r} : item'[q] = item[q]
    BY <1>1 DEF OpenStep, TypeOK, ledgerVars, historyVars
  <2>2. \A i \in Records : item[r][i] = "none"
    BY <2>1 DEF TypeOK
  <2> QED
    BY <2>1, <2>2 DEF EvidenceKept, Shows, Waived, HasRow
<1>2. ASSUME NEW r \in Runs, Finish(r) PROVE EvidenceKept
  <2>1. /\ AtWork(r) = {} /\ UNCHANGED <<torn, denied, raced, copies, open, deliveries>>
        /\ \A q \in Runs \ {r} : item'[q] = item[q]
    BY <1>2 DEF Finish, Gone, TypeOK
  <2>2. \A i \in Records : item[r][i] \notin {"logged", "moved"}
    BY <2>1 DEF AtWork, AtWorker
  <2> QED
    BY <2>1, <2>2 DEF EvidenceKept, Shows, Waived, HasRow
<1>3. ASSUME NEW r \in Runs, NEW i \in Records, OpenSession(r, i) PROVE EvidenceKept
  <2>1. /\ item[r][i] = "dispatched" /\ item' = [item EXCEPT ![r][i] = "session"]
        /\ \A k \in Keys \ {KeyOf[i]} : copies'[k] = copies[k]
        /\ UNCHANGED <<torn, denied, raced, open, deliveries>>
    BY <1>3 DEF OpenSession, SetItem, TypeOK, ledgerVars
  <2>2. i \in open'[r]
    BY <2>1 DEF DispatchedFirst
  <2> QED
    BY <2>1, <2>2 DEF TypeOK, EvidenceKept, Shows, Waived, HasRow
<1>4. ASSUME NEW r \in Runs, NEW i \in Records, ChunkError(r, i) PROVE EvidenceKept
  <2>1. /\ UNCHANGED <<denied, raced, copies, open, deliveries>>
        /\ torn' = torn \cup Torn(r, {i})
        /\ item' = [item EXCEPT ![r] = [Drained(r) EXCEPT ![i] = "over"]]
    BY <1>4 DEF ChunkError, ledgerVars
  <2>2. /\ \A q \in Runs \ {r} : item'[q] = item[q]
        /\ \A j \in Records \ {i} :
             item[r][j] \in {"logged", "moved"} => item'[r][j] = item[r][j]
    BY <2>1, DrainedKeeps DEF TypeOK
  <2>3. item[r][i] \in {"logged", "moved"} => HasRow(KeyOf[i]) \/ KeyOf[i] \in torn'
    BY <2>1 DEF Torn, HasRow
  <2> QED
    BY <2>1, <2>2, <2>3 DEF EvidenceKept, Shows, Waived, HasRow
<1>5. ASSUME NEW r \in Runs, NEW i \in Records, RecordDelivery(r, i) PROVE EvidenceKept
  <2>1. /\ UNCHANGED <<torn, denied, raced, copies, open>>
        /\ \E s \in {"recorded", "over"} : item' = [item EXCEPT ![r][i] = s]
        /\ deliveries' = [deliveries EXCEPT ![KeyOf[i]] = Row("accepted")]
    BY <1>5 DEF RecordDelivery, EndSession, SetItem, SessionFrame
  <2>2. HasRow(KeyOf[i])' /\ \A k \in Keys : HasRow(k) => HasRow(k)'
    BY <2>1, TypeParts, RowsStay DEF Statuses
  <2> QED
    BY <2>1, <2>2 DEF TypeOK, EvidenceKept, Shows, Waived
<1>6. ASSUME NEW r \in Runs, NEW i \in Records, Attested(r, i) PROVE EvidenceKept
  <2>1. /\ UNCHANGED <<torn, denied, raced, copies, open>>
        /\ item[r][i] = "recorded" /\ item' = [item EXCEPT ![r][i] = "over"]
    BY <1>6 DEF Attested, EndSession, SetItem, SessionFrame
  <2>2. \A k \in Keys : HasRow(k) => HasRow(k)'
    BY <1>6, TypeParts, RowsStay DEF Attested, Statuses, HasRow
  <2> QED
    BY <2>1, <2>2 DEF TypeOK, EvidenceKept, Shows, Waived
<1>7. ASSUME NEW r \in Runs, NEW i \in Records, StopStep(r, i) PROVE EvidenceKept
  <2>1. /\ UNCHANGED <<torn, denied, raced, deliveries>>
        /\ copies' = [copies EXCEPT ![KeyOf[i]] = IF @ = 1 THEN 0 ELSE @]
        /\ open' = [open EXCEPT ![r] = @ \ {i}]
        /\ item' = [item EXCEPT ![r] = [Drained(r) EXCEPT ![i] = "over"]]
    BY <1>7 DEF StopStep, NotDelivered, SessionFrame, Answer
  <2>2. /\ \A q \in Runs \ {r} : item'[q] = item[q]
        /\ \A j \in Records \ {i} :
             item[r][j] \in {"logged", "moved"} => item'[r][j] = item[r][j]
    BY <2>1, DrainedKeeps DEF TypeOK
  <2>3. KeyOf[i] \in Waived \/ copies'[KeyOf[i]] = 0
    BY <2>1 DEF TypeOK, NoDoubleSend
  <2>4. ASSUME NEW q \in Runs, NEW j \in Records, ~(q = r /\ j = i), Shows(q, j)
        PROVE  Shows(q, j)'
    BY <2>1, <2>2, <2>4 DEF TypeOK, Shows
  <2>5. \A k \in Keys : copies[k] = 0 => copies'[k] = 0
    BY <2>1 DEF TypeOK
  <2> QED
    BY <2>1, <2>3, <2>4, <2>5 DEF EvidenceKept, Waived, HasRow
<1> USE DEF TypeOK, EvidenceKept, Shows, NoDoubleSend, Waived, HasRow, Row, HeldRow,
            Waiting, AtWorker, IsHeld, ledgerVars, processVars, historyVars
<1>8. ASSUME NEW r \in Runs, NEW d \in DryModes, CreateRun(r, d)
         PROVE EvidenceKept
  BY <1>8 DEF CreateRun, Start
<1>9. ASSUME NEW r \in Runs, NEW d \in DryModes, NEW rel \in SUBSET Records,
   NEW settle \in SUBSET Records, Resume(r, d, rel, settle)
         PROVE EvidenceKept
  BY <1>9 DEF Resume, Start
<1>10. ASSUME NEW r \in Runs, Interrupt(r) PROVE EvidenceKept
  BY <1>10 DEF Interrupt, Stop, Drained
<1>11. ASSUME NEW r \in Runs, Crash(r) PROVE EvidenceKept
  BY <1>11 DEF Crash, Gone, Torn
<1>12. ASSUME NEW r \in Runs, NEW d \in Runs, Probe(r, d) PROVE EvidenceKept
  BY <1>12 DEF Probe
<1>13. ASSUME NEW r \in Runs, NEW d \in Runs, NEW i \in Records, HoldDelivery(r, d, i)
         PROVE EvidenceKept
  BY <1>13 DEF HoldDelivery, HoldRow
<1>14. ASSUME NEW r \in Runs, StepFails(r) PROVE EvidenceKept
  BY <1>14 DEF StepFails, Stop, Drained
<1>15. ASSUME NEW r \in Runs, NEW i \in Records, PrepareFails(r, i)
         PROVE EvidenceKept
  BY <1>15 DEF PrepareFails, Preparing, SetItem, Answer, Erased, PreparedFrame
<1>16. ASSUME NEW r \in Runs, NEW i \in Records, PrepareHeld(r, i)
         PROVE EvidenceKept
  BY <1>16 DEF PrepareHeld, Preparing, SetItem, PreparedFrame
<1>17. ASSUME NEW r \in Runs, NEW i \in Records, PrepareSkip(r, i)
         PROVE EvidenceKept
  BY <1>17 DEF PrepareSkip, Preparing, SetItem, SetState, PreparedFrame
<1>18. ASSUME NEW r \in Runs, NEW i \in Records, PrepareWithhold(r, i)
         PROVE EvidenceKept
  BY <1>18 DEF PrepareWithhold, Preparing, SetItem, SetState, Answer, Erased,
     PreparedFrame
<1>19. ASSUME NEW r \in Runs, NEW i \in Records, DryDeliver(r, i)
         PROVE EvidenceKept
  BY <1>19 DEF DryDeliver, Preparing, SetItem, SetState, PreparedFrame
<1>20. ASSUME NEW r \in Runs, NEW i \in Records, Queue(r, i) PROVE EvidenceKept
  BY <1>20 DEF Queue, Preparing, SetItem, PreparedFrame
<1>21. ASSUME NEW r \in Runs, NEW i \in Records, Claim(r, i) PROVE EvidenceKept
  BY <1>21 DEF Claim, SetItem
<1>22. ASSUME NEW r \in Runs, NEW i \in Records, Dispatch(r, i)
         PROVE EvidenceKept
  BY <1>22 DEF Dispatch, SetItem
<1>23. ASSUME NEW r \in Runs, NEW i \in Records, Acknowledge(r, i)
         PROVE EvidenceKept
  BY <1>23 DEF Acknowledge, InSession, SetItem, Answer, Onward, SessionFrame
<1>24. ASSUME NEW r \in Runs, NEW i \in Records, AdvanceState(r, i)
         PROVE EvidenceKept
  BY <1>24 DEF AdvanceState, SetItem, SetState, Onward, SessionFrame
<1>25. ASSUME NEW r \in Runs, NEW i \in Records, Contradict(r, i)
         PROVE EvidenceKept
  BY <1>25 DEF Contradict, InSession, SetItem, Onward, SessionFrame
<1>26. ASSUME NEW r \in Runs, NEW i \in Records, FailContradicted(r, i)
         PROVE EvidenceKept
  BY <1>26 DEF FailContradicted, EndSession, SetItem, Failing, Answer, Onward,
     SessionFrame
<1>27. ASSUME NEW r \in Runs, NEW i \in Records, FailRecord(r, i)
         PROVE EvidenceKept
  BY <1>27 DEF FailRecord, InSession, EndSession, SetItem, Failing, Answer,
     Onward, SessionFrame, NotDelivered
<1>28. ASSUME NEW r \in Runs, NEW i \in Records, SkipRecord(r, i)
         PROVE EvidenceKept
  BY <1>28 DEF SkipRecord, InSession, EndSession, SetItem, SetState, Failing,
     Answer, Onward, SessionFrame, NotDelivered
<1>29. ASSUME NEW r \in Runs, NEW i \in Records, RejectAck(r, i)
         PROVE EvidenceKept
  BY <1>29 DEF RejectAck, InSession, EndSession, SetItem, Failing, Answer,
     Erased, Onward, SessionFrame
<1>30. ASSUME NEW r \in Runs, NEW i \in Records, SessionFails(r, i)
         PROVE EvidenceKept
  BY <1>30 DEF SessionFails, InSession, SetItem, Failing, Answer, Erased,
     NotDelivered, SessionFrame
<1>31. ASSUME NEW r \in Runs, NEW i \in Records, HoldInterrupted(r, i)
         PROVE EvidenceKept
  BY <1>31 DEF HoldInterrupted, InSession, SetItem, HoldRow, Onward, SessionFrame
<1>32. CASE UNCHANGED vars
  BY <1>32 DEF vars, ledgerVars, processVars, historyVars
<1> QED
  BY <1>1, <1>2, <1>3, <1>4, <1>5, <1>6, <1>7, <1>8, <1>9, <1>10, <1>11, <1>12,
     <1>13, <1>14, <1>15, <1>16, <1>17, <1>18, <1>19, <1>20, <1>21, <1>22, <1>23, <1>24,
     <1>25, <1>26, <1>27, <1>28, <1>29, <1>30, <1>31, <1>32
     DEF Next, Operate, Hold, Prepare, Process

(* Only an item that starts fresh comes to a session.                      *)
LEMMA SendStep ==
  TypeOK /\ FreshStart /\ NoDoubleSend /\ [Next]_vars
    => NoDoubleSend'
<1> SUFFICES ASSUME TypeOK, FreshStart, NoDoubleSend, [Next]_vars
         PROVE NoDoubleSend'
  OBVIOUS
<1>1. ASSUME NEW r \in Runs, NEW i \in Records, SessionFails(r, i) PROVE NoDoubleSend'
  <2>1. /\ UNCHANGED <<torn, raced>> /\ denied \subseteq denied'
        /\ copies' = copies \/ copies' = [copies EXCEPT ![KeyOf[i]] = IF @ = 1 THEN 0 ELSE @]
    BY <1>1 DEF SessionFails, SessionFrame, NotDelivered
  <2> QED
    BY <2>1 DEF TypeOK, NoDoubleSend, Waived
<1> USE DEF TypeOK, FreshStart, BeforeSending, NoDoubleSend, Waived,
   ledgerVars, processVars, historyVars
<1>2. ASSUME NEW r \in Runs, NEW d \in DryModes, CreateRun(r, d)
         PROVE NoDoubleSend'
  BY <1>2 DEF CreateRun, Start
<1>3. ASSUME NEW r \in Runs, NEW d \in DryModes, NEW rel \in SUBSET Records,
   NEW settle \in SUBSET Records, Resume(r, d, rel, settle)
         PROVE NoDoubleSend'
  BY <1>3 DEF Resume, Start
<1>4. ASSUME NEW r \in Runs, Interrupt(r) PROVE NoDoubleSend'
  BY <1>4 DEF Interrupt, Stop, Drained
<1>5. ASSUME NEW r \in Runs, Crash(r) PROVE NoDoubleSend'
  BY <1>5 DEF Crash, Gone, Torn
<1>6. ASSUME NEW r \in Runs, OpenStep(r) PROVE NoDoubleSend'
  BY <1>6 DEF OpenStep
<1>7. ASSUME NEW r \in Runs, NEW d \in Runs, Probe(r, d) PROVE NoDoubleSend'
  BY <1>7 DEF Probe
<1>8. ASSUME NEW r \in Runs, NEW d \in Runs, NEW i \in Records, HoldDelivery(r, d, i)
         PROVE NoDoubleSend'
  BY <1>8 DEF HoldDelivery, HoldRow
<1>9. ASSUME NEW r \in Runs, StepFails(r) PROVE NoDoubleSend'
  BY <1>9 DEF StepFails, Stop, Drained
<1>10. ASSUME NEW r \in Runs, Finish(r) PROVE NoDoubleSend'
  BY <1>10 DEF Finish, Gone
<1>11. ASSUME NEW r \in Runs, NEW i \in Records, PrepareFails(r, i)
         PROVE NoDoubleSend'
  BY <1>11 DEF PrepareFails, Preparing, SetItem, Answer, Erased, PreparedFrame
<1>12. ASSUME NEW r \in Runs, NEW i \in Records, PrepareHeld(r, i)
         PROVE NoDoubleSend'
  BY <1>12 DEF PrepareHeld, Preparing, SetItem, PreparedFrame
<1>13. ASSUME NEW r \in Runs, NEW i \in Records, PrepareSkip(r, i)
         PROVE NoDoubleSend'
  BY <1>13 DEF PrepareSkip, Preparing, SetItem, SetState, PreparedFrame
<1>14. ASSUME NEW r \in Runs, NEW i \in Records, PrepareWithhold(r, i)
         PROVE NoDoubleSend'
  BY <1>14 DEF PrepareWithhold, Preparing, SetItem, SetState, Answer, Erased,
     PreparedFrame
<1>15. ASSUME NEW r \in Runs, NEW i \in Records, DryDeliver(r, i)
         PROVE NoDoubleSend'
  BY <1>15 DEF DryDeliver, Preparing, SetItem, SetState, PreparedFrame
<1>16. ASSUME NEW r \in Runs, NEW i \in Records, Queue(r, i)
         PROVE NoDoubleSend'
  BY <1>16 DEF Queue, Preparing, SetItem, PreparedFrame
<1>17. ASSUME NEW r \in Runs, NEW i \in Records, Claim(r, i)
         PROVE NoDoubleSend'
  BY <1>17 DEF Claim, SetItem
<1>18. ASSUME NEW r \in Runs, NEW i \in Records, Dispatch(r, i)
         PROVE NoDoubleSend'
  BY <1>18 DEF Dispatch, SetItem
<1>19. ASSUME NEW r \in Runs, NEW i \in Records, OpenSession(r, i)
         PROVE NoDoubleSend'
  BY <1>19 DEF OpenSession, SetItem
<1>20. ASSUME NEW r \in Runs, NEW i \in Records, ChunkError(r, i)
         PROVE NoDoubleSend'
  BY <1>20 DEF ChunkError, Stop, Drained, Torn
<1>21. ASSUME NEW r \in Runs, NEW i \in Records, Acknowledge(r, i)
         PROVE NoDoubleSend'
  BY <1>21 DEF Acknowledge, InSession, SetItem, Answer, Onward, SessionFrame
<1>22. ASSUME NEW r \in Runs, NEW i \in Records, AdvanceState(r, i)
         PROVE NoDoubleSend'
  BY <1>22 DEF AdvanceState, SetItem, SetState, Onward, SessionFrame
<1>23. ASSUME NEW r \in Runs, NEW i \in Records, RecordDelivery(r, i)
         PROVE NoDoubleSend'
  BY <1>23 DEF RecordDelivery, SetItem, EndSession, Failing, Onward, SessionFrame
<1>24. ASSUME NEW r \in Runs, NEW i \in Records, Attested(r, i)
         PROVE NoDoubleSend'
  BY <1>24 DEF Attested, SetItem, EndSession, Failing, Onward, SessionFrame
<1>25. ASSUME NEW r \in Runs, NEW i \in Records, Contradict(r, i)
         PROVE NoDoubleSend'
  BY <1>25 DEF Contradict, InSession, SetItem, Onward, SessionFrame
<1>26. ASSUME NEW r \in Runs, NEW i \in Records, FailContradicted(r, i)
         PROVE NoDoubleSend'
  BY <1>26 DEF FailContradicted, EndSession, SetItem, Failing, Answer, Onward,
     SessionFrame
<1>27. ASSUME NEW r \in Runs, NEW i \in Records, FailRecord(r, i)
         PROVE NoDoubleSend'
  BY <1>27 DEF FailRecord, InSession, EndSession, SetItem, Failing, Answer,
     Onward, SessionFrame, NotDelivered
<1>28. ASSUME NEW r \in Runs, NEW i \in Records, SkipRecord(r, i)
         PROVE NoDoubleSend'
  BY <1>28 DEF SkipRecord, InSession, EndSession, SetItem, SetState, Failing,
     Answer, Onward, SessionFrame, NotDelivered
<1>29. ASSUME NEW r \in Runs, NEW i \in Records, RejectAck(r, i)
         PROVE NoDoubleSend'
  BY <1>29 DEF RejectAck, InSession, EndSession, SetItem, Failing, Answer,
     Erased, Onward, SessionFrame
<1>30. ASSUME NEW r \in Runs, NEW i \in Records, StopStep(r, i)
         PROVE NoDoubleSend'
  BY <1>30 DEF StopStep, InSession, Stop, Drained, Answer, NotDelivered,
     SessionFrame
<1>31. ASSUME NEW r \in Runs, NEW i \in Records, HoldInterrupted(r, i)
         PROVE NoDoubleSend'
  BY <1>31 DEF HoldInterrupted, InSession, SetItem, HoldRow, Onward, SessionFrame
<1>32. CASE UNCHANGED vars
  BY <1>32 DEF vars, ledgerVars, processVars, historyVars
<1> QED
  BY <1>1, <1>2, <1>3, <1>4, <1>5, <1>6, <1>7, <1>8, <1>9, <1>10, <1>11, <1>12,
     <1>13, <1>14, <1>15, <1>16, <1>17, <1>18, <1>19, <1>20, <1>21, <1>22, <1>23, <1>24,
     <1>25, <1>26, <1>27, <1>28, <1>29, <1>30, <1>31, <1>32
     DEF Next, Operate, Hold, Prepare, Process

-----------------------------------------------------------------------------
LEMMA EvidenceStep == TypeOK /\ NothingForgotten /\ EvidenceKept => NothingForgotten'
<1> SUFFICES ASSUME TypeOK, NothingForgotten, EvidenceKept,
                    NEW k \in Keys \ Waived', copies'[k] > 0, ~HasRow(k)'
             PROVE  \E r \in Runs, i \in Records :
                      KeyOf[i] = k /\ (i \in open'[r] \/ item'[r][i] \in {"logged", "moved"})
  BY DEF NothingForgotten, HasRow
<1>1. k \in Keys \ Waived /\ ~HasRow(k)
  BY DEF EvidenceKept
<1>2. CASE copies[k] = 0
  BY <1>1, <1>2 DEF EvidenceKept
<1>3. CASE copies[k] # 0
  <2>0. copies[k] > 0
    <3>1. k \in Keys /\ copies \in [Keys -> 0..2]
      BY <1>1 DEF TypeOK
    <3>2. copies[k] \in 0..2
      BY <3>1
    <3> QED
      BY <3>2, <1>3
  <2>1. PICK r \in Runs, i \in Records : KeyOf[i] = k /\ Shows(r, i)
    <3> HIDE DEF HasRow
    <3> QED
      BY <1>1, <2>0 DEF NothingForgotten, Shows
  <2>2. Shows(r, i)'
    BY <2>1 DEF EvidenceKept
  <2> QED
    BY <2>1, <2>2 DEF Shows
<1> QED
  BY <1>2, <1>3

LEMMA InitInv == Init => IInv
<1> SUFFICES ASSUME Init PROVE IInv
  OBVIOUS
<1>1. TypeOK
  BY DEF Init, TypeOK, RowType, Row, Statuses, ItemStates, IsHeld, InStep, Alive
<1>2. PeersKnown /\ DispatchedFirst /\ OneAtATime /\ FreshStart /\ DeadDispatchesHeld
  BY DEF Init, PeersKnown, Alive, DispatchedFirst, OneAtATime, Unresolved, FreshStart,
         BeforeSending, DeadDispatchesHeld, InStep
<1>3. NothingForgotten /\ NoDoubleSend
  BY DEF Init, NothingForgotten, NoDoubleSend
<1> QED
  BY <1>1, <1>2, <1>3 DEF IInv

(* Every step keeps the invariant.                                         *)
LEMMA InvStep == IInv /\ [Next]_vars => IInv'
<1> SUFFICES ASSUME IInv, [Next]_vars PROVE IInv'
  OBVIOUS
<1>1. TypeOK' /\ PeersKnown' /\ DispatchedFirst'
  BY TypeStep, PeersStep, DispatchedStep DEF IInv
<1>2. OneAtATime' /\ FreshStart' /\ DeadDispatchesHeld'
  BY OneAtATimeStep, FreshStep, HeldStep DEF IInv
<1>3. NothingForgotten' /\ NoDoubleSend'
  BY EvidenceLemma, EvidenceStep, SendStep DEF IInv
<1> QED
  BY <1>1, <1>2, <1>3 DEF IInv

(* Every reachable state of the deliver step satisfies the invariant.      *)
THEOREM Invariance == Spec => []IInv
  BY InitInv, InvStep, PTL DEF Spec

(* Delivery is type correct: nothing is left of a process that is gone,    *)
(* and a held row names the run and the record that hold it.               *)
THEOREM TypeCorrect == Spec => []TypeOK
<1>1. IInv => TypeOK
  BY DEF IInv
<1> QED
  BY Invariance, <1>1, PTL

(* ADR-060: at most one request per key is ever at the target, outside the *)
(* three named windows.                                                    *)
THEOREM AtMostOnce == Spec => []NoDoubleSend
<1>1. IInv => NoDoubleSend
  BY DEF IInv
<1> QED
  BY Invariance, <1>1, PTL

(* ADR-060: a request that may have left is known to the ledger, or to a   *)
(* process about to tell it.                                               *)
THEOREM Remembered == Spec => []NothingForgotten
<1>1. IInv => NothingForgotten
  BY DEF IInv
<1> QED
  BY Invariance, <1>1, PTL
-----------------------------------------------------------------------------
(* Beyond at-most-once: who is passed, what is held, and the refinement.   *)

(* A request in session, or acknowledged and not yet in the table, counts.  *)
SentCounts ==
  \A r \in Runs, i \in Records :
    item[r][i] \in {"session", "logged", "moved"} /\ KeyOf[i] \notin Waived => copies[KeyOf[i]] # 0

(* A record the worker attests has its row, and no held one.               *)
RowWritten ==
  \A r \in Runs, i \in Records :
    item[r][i] \in {"recorded", "contra"} => HasRow(KeyOf[i]) /\ ~IsHeld(KeyOf[i])

(* What the deliveries table keeps in a step: a row stays a row, and one   *)
(* that is held was held for the same record, or was no row.               *)
TableKept ==
  \A k \in Keys : HasRow(k) => HasRow(k)' /\ (IsHeld(k)' => deliveries'[k] = deliveries[k])

(* The record comes back to the step when its run is resumed, or something *)
(* accounts for it.                                                        *)
Returns(r, i) == recState[r][i] = "before" \/ item[r][i] = "moved"
                   \/ i \in withheld[r] \cup rehearsed[r]
ReturnsKept ==
  /\ torn \subseteq torn'
  /\ \A r \in Runs, i \in Records :
       Returns(r, i) => Returns(r, i)' \/ KeyOf[i] \in torn' \/ (HasRow(KeyOf[i]) /\ ~IsHeld(KeyOf[i]))'

(* A row has the status it is written with.                                *)
LEMMA RowShape == \A st : Row(st).status = st
  BY DEF Row

(* No action removes a row, and only a key without one becomes held.       *)
LEMMA TableStep == TypeOK /\ [Next]_vars => TableKept
<1> SUFFICES ASSUME TypeOK, [Next]_vars PROVE TableKept
  OBVIOUS
<1>1. ASSUME NEW r \in Runs, NEW i \in Records, RecordDelivery(r, i) PROVE TableKept
  <2>1. /\ item[r][i] = "moved" /\ UNCHANGED <<recState, open, copies, torn, denied, raced,
                                                 withheld, rehearsed>>
        /\ \E s \in {"recorded", "over"} : item' = [item EXCEPT ![r][i] = s]
        /\ deliveries' = [deliveries EXCEPT ![KeyOf[i]] = Row("accepted")]
    BY <1>1 DEF RecordDelivery, EndSession, SetItem, SessionFrame
  <2> QED
    BY <2>1, RowShape DEF TypeOK, TableKept, HasRow, IsHeld
<1>2. ASSUME NEW r \in Runs, NEW i \in Records, Attested(r, i) PROVE TableKept
  <2>1. /\ item[r][i] = "recorded" /\ item' = [item EXCEPT ![r][i] = "over"]
        /\ UNCHANGED <<recState, open, copies, torn, denied, raced, withheld, rehearsed>>
        /\ deliveries' = deliveries \/ deliveries' = [deliveries EXCEPT ![KeyOf[i]] = Row("confirmed")]
    BY <1>2 DEF Attested, EndSession, SetItem, SessionFrame
  <2>2. CASE deliveries' = deliveries
    BY <2>2 DEF TableKept, HasRow, IsHeld
  <2>3. CASE deliveries' = [deliveries EXCEPT ![KeyOf[i]] = Row("confirmed")]
    BY <2>3, RowShape DEF TypeOK, TableKept, HasRow, IsHeld
  <2> QED
    BY <2>1, <2>2, <2>3
<1> USE DEF TypeOK, TableKept, HasRow, IsHeld, Row, HeldRow, ledgerVars, processVars, historyVars
<1>3. ASSUME NEW r \in Runs, NEW d \in DryModes, CreateRun(r, d) PROVE TableKept
  BY <1>3 DEF CreateRun, Start
<1>4. ASSUME NEW r \in Runs, NEW d \in DryModes, NEW rel \in SUBSET Records, NEW settle
         \in SUBSET Records, Resume(r, d, rel, settle)
      PROVE  TableKept
  BY <1>4 DEF Resume, Start
<1>5. ASSUME NEW r \in Runs, Interrupt(r) PROVE TableKept
  BY <1>5 DEF Interrupt, Stop, Drained
<1>6. ASSUME NEW r \in Runs, Crash(r) PROVE TableKept
  BY <1>6 DEF Crash, Gone, Torn
<1>7. ASSUME NEW r \in Runs, OpenStep(r) PROVE TableKept
  BY <1>7 DEF OpenStep
<1>8. ASSUME NEW r \in Runs, NEW d \in Runs, Probe(r, d) PROVE TableKept
  BY <1>8 DEF Probe
<1>9. ASSUME NEW r \in Runs, NEW d \in Runs, NEW i \in Records, HoldDelivery(r, d, i)
      PROVE  TableKept
  BY <1>9 DEF HoldDelivery, HoldRow
<1>10. ASSUME NEW r \in Runs, StepFails(r) PROVE TableKept
  BY <1>10 DEF StepFails, Stop, Drained
<1>11. ASSUME NEW r \in Runs, Finish(r) PROVE TableKept
  BY <1>11 DEF Finish, Gone, AtWork
<1>12. ASSUME NEW r \in Runs, NEW i \in Records, PrepareFails(r, i) PROVE TableKept
  BY <1>12 DEF PrepareFails, Preparing, SetItem, Answer, Erased, PreparedFrame
<1>13. ASSUME NEW r \in Runs, NEW i \in Records, PrepareHeld(r, i) PROVE TableKept
  BY <1>13 DEF PrepareHeld, Preparing, SetItem, PreparedFrame
<1>14. ASSUME NEW r \in Runs, NEW i \in Records, PrepareSkip(r, i) PROVE TableKept
  BY <1>14 DEF PrepareSkip, Preparing, SetItem, SetState, PreparedFrame
<1>15. ASSUME NEW r \in Runs, NEW i \in Records, PrepareWithhold(r, i) PROVE TableKept
  BY <1>15 DEF PrepareWithhold, Preparing, SetItem, SetState, Answer, Erased, PreparedFrame
<1>16. ASSUME NEW r \in Runs, NEW i \in Records, DryDeliver(r, i) PROVE TableKept
  BY <1>16 DEF DryDeliver, Preparing, SetItem, SetState, PreparedFrame
<1>17. ASSUME NEW r \in Runs, NEW i \in Records, Queue(r, i) PROVE TableKept
  BY <1>17 DEF Queue, Preparing, SetItem, PreparedFrame
<1>18. ASSUME NEW r \in Runs, NEW i \in Records, Claim(r, i) PROVE TableKept
  BY <1>18 DEF Claim, SetItem
<1>19. ASSUME NEW r \in Runs, NEW i \in Records, Dispatch(r, i) PROVE TableKept
  BY <1>19 DEF Dispatch, SetItem
<1>20. ASSUME NEW r \in Runs, NEW i \in Records, OpenSession(r, i) PROVE TableKept
  BY <1>20 DEF OpenSession, SetItem
<1>21. ASSUME NEW r \in Runs, NEW i \in Records, ChunkError(r, i) PROVE TableKept
  BY <1>21 DEF ChunkError, Stop, Drained, Torn
<1>22. ASSUME NEW r \in Runs, NEW i \in Records, Acknowledge(r, i) PROVE TableKept
  BY <1>22 DEF Acknowledge, InSession, SetItem, Answer, Onward, SessionFrame
<1>23. ASSUME NEW r \in Runs, NEW i \in Records, AdvanceState(r, i) PROVE TableKept
  BY <1>23 DEF AdvanceState, SetItem, SetState, Onward, SessionFrame
<1>24. ASSUME NEW r \in Runs, NEW i \in Records, Contradict(r, i) PROVE TableKept
  BY <1>24 DEF Contradict, InSession, SetItem, Onward, SessionFrame
<1>25. ASSUME NEW r \in Runs, NEW i \in Records, FailContradicted(r, i) PROVE TableKept
  BY <1>25 DEF FailContradicted, EndSession, SetItem, Failing, Answer, Onward, SessionFrame
<1>26. ASSUME NEW r \in Runs, NEW i \in Records, FailRecord(r, i) PROVE TableKept
  BY <1>26 DEF FailRecord, InSession, EndSession, SetItem, Failing, Answer, Onward,
     SessionFrame, NotDelivered
<1>27. ASSUME NEW r \in Runs, NEW i \in Records, SkipRecord(r, i) PROVE TableKept
  BY <1>27 DEF SkipRecord, InSession, EndSession, SetItem, SetState, Failing, Answer,
     Onward, SessionFrame, NotDelivered
<1>28. ASSUME NEW r \in Runs, NEW i \in Records, RejectAck(r, i) PROVE TableKept
  BY <1>28 DEF RejectAck, InSession, EndSession, SetItem, Failing, Answer, Erased, Onward,
     SessionFrame
<1>29. ASSUME NEW r \in Runs, NEW i \in Records, StopStep(r, i) PROVE TableKept
  BY <1>29 DEF StopStep, InSession, Stop, Drained, Answer, NotDelivered, SessionFrame
<1>30. ASSUME NEW r \in Runs, NEW i \in Records, SessionFails(r, i) PROVE TableKept
  BY <1>30 DEF SessionFails, InSession, SetItem, Failing, Answer, Erased, NotDelivered,
     SessionFrame
<1>31. ASSUME NEW r \in Runs, NEW i \in Records, HoldInterrupted(r, i) PROVE TableKept
  BY <1>31 DEF HoldInterrupted, InSession, SetItem, HoldRow, Onward, SessionFrame
<1>32. CASE UNCHANGED vars
  BY <1>32 DEF vars
<1> QED
  BY <1>1, <1>2, <1>3, <1>4, <1>5, <1>6, <1>7, <1>8, <1>9, <1>10, <1>11, <1>12, <1>13,
     <1>14, <1>15, <1>16, <1>17, <1>18, <1>19, <1>20, <1>21, <1>22, <1>23, <1>24, <1>25,
     <1>26, <1>27, <1>28, <1>29, <1>30, <1>31, <1>32 DEF Next, Operate, Hold, Prepare,
     Process

(* A record moves past the step with its row to follow, or with a reason.  *)
LEMMA PassedStep == TypeOK /\ PassedMeansHandled /\ [Next]_vars => PassedMeansHandled'
<1> SUFFICES ASSUME TypeOK, PassedMeansHandled, [Next]_vars PROVE PassedMeansHandled'
  OBVIOUS
<1>1. ASSUME NEW r \in Runs, NEW i \in Records, ChunkError(r, i) PROVE PassedMeansHandled'
  <2>1. /\ UNCHANGED <<recState, deliveries, withheld, rehearsed>>
        /\ item' = [item EXCEPT ![r] = [Drained(r) EXCEPT ![i] = "over"]]
        /\ torn' = torn \cup Torn(r, {i})
    BY <1>1 DEF ChunkError, ledgerVars
  <2>2. /\ \A q \in Runs \ {r} : item'[q] = item[q]
        /\ \A j \in Records \ {i} :
             item[r][j] \in {"logged", "moved"} => item'[r][j] = item[r][j]
    BY <2>1, DrainedKeeps DEF TypeOK
  <2>3. item[r][i] = "moved" => (HasRow(KeyOf[i]) /\ ~IsHeld(KeyOf[i])) \/ KeyOf[i] \in torn'
    BY <2>1 DEF TypeOK, Torn, HasRow, IsHeld
  <2> QED
    BY <2>1, <2>2, <2>3 DEF TypeOK, PassedMeansHandled, HasRow
<1>2. ASSUME NEW r \in Runs, NEW i \in Records, RecordDelivery(r, i)
      PROVE  PassedMeansHandled'
  <2>1. /\ item[r][i] = "moved" /\ UNCHANGED <<recState, open, copies, torn, denied, raced,
                                                 withheld, rehearsed>>
        /\ \E s \in {"recorded", "over"} : item' = [item EXCEPT ![r][i] = s]
        /\ deliveries' = [deliveries EXCEPT ![KeyOf[i]] = Row("accepted")]
    BY <1>2 DEF RecordDelivery, EndSession, SetItem, SessionFrame
  <2> QED
    BY <2>1, RowShape DEF TypeOK, PassedMeansHandled, HasRow
<1>3. ASSUME NEW r \in Runs, NEW i \in Records, Attested(r, i) PROVE PassedMeansHandled'
  <2>1. /\ item[r][i] = "recorded" /\ item' = [item EXCEPT ![r][i] = "over"]
        /\ UNCHANGED <<recState, open, copies, torn, denied, raced, withheld, rehearsed>>
        /\ deliveries' = deliveries \/ deliveries' = [deliveries EXCEPT ![KeyOf[i]] = Row("confirmed")]
    BY <1>3 DEF Attested, EndSession, SetItem, SessionFrame
  <2> QED
    BY <2>1, TableStep DEF TypeOK, PassedMeansHandled, TableKept
<1>4. ASSUME NEW r \in Runs, NEW i \in Records, StopStep(r, i) PROVE PassedMeansHandled'
  <2>1. /\ UNCHANGED <<recState, deliveries, torn, withheld, rehearsed>>
        /\ item' = [item EXCEPT ![r] = [Drained(r) EXCEPT ![i] = "over"]]
        /\ item[r][i] = "session"
    BY <1>4 DEF StopStep, SessionFrame, InSession
  <2>2. /\ \A q \in Runs \ {r} : item'[q] = item[q]
        /\ \A j \in Records \ {i} :
             item[r][j] \in {"logged", "moved"} => item'[r][j] = item[r][j]
    BY <2>1, DrainedKeeps DEF TypeOK
  <2> QED
    BY <2>1, <2>2 DEF TypeOK, PassedMeansHandled, HasRow
<1> USE DEF TypeOK, PassedMeansHandled, HasRow, IsHeld, Row, HeldRow, Clear, AtWorker, Waiting,
            ledgerVars, processVars, historyVars
<1>5. ASSUME NEW r \in Runs, NEW d \in DryModes, CreateRun(r, d) PROVE PassedMeansHandled'
  BY <1>5 DEF CreateRun, Start
<1>6. ASSUME NEW r \in Runs, NEW d \in DryModes, NEW rel \in SUBSET Records, NEW settle
         \in SUBSET Records, Resume(r, d, rel, settle)
      PROVE  PassedMeansHandled'
  BY <1>6 DEF Resume, Start
<1>7. ASSUME NEW r \in Runs, Interrupt(r) PROVE PassedMeansHandled'
  BY <1>7 DEF Interrupt, Stop, Drained
<1>8. ASSUME NEW r \in Runs, Crash(r) PROVE PassedMeansHandled'
  BY <1>8 DEF Crash, Gone, Torn
<1>9. ASSUME NEW r \in Runs, OpenStep(r) PROVE PassedMeansHandled'
  BY <1>9 DEF OpenStep
<1>10. ASSUME NEW r \in Runs, NEW d \in Runs, Probe(r, d) PROVE PassedMeansHandled'
  BY <1>10 DEF Probe
<1>11. ASSUME NEW r \in Runs, NEW d \in Runs, NEW i \in Records, HoldDelivery(r, d, i)
      PROVE  PassedMeansHandled'
  BY <1>11 DEF HoldDelivery, HoldRow
<1>12. ASSUME NEW r \in Runs, StepFails(r) PROVE PassedMeansHandled'
  BY <1>12 DEF StepFails, Stop, Drained
<1>13. ASSUME NEW r \in Runs, Finish(r) PROVE PassedMeansHandled'
  BY <1>13 DEF Finish, Gone, AtWork
<1>14. ASSUME NEW r \in Runs, NEW i \in Records, PrepareFails(r, i)
      PROVE  PassedMeansHandled'
  BY <1>14 DEF PrepareFails, Preparing, SetItem, Answer, Erased, PreparedFrame
<1>15. ASSUME NEW r \in Runs, NEW i \in Records, PrepareHeld(r, i)
      PROVE  PassedMeansHandled'
  BY <1>15 DEF PrepareHeld, Preparing, SetItem, PreparedFrame
<1>16. ASSUME NEW r \in Runs, NEW i \in Records, PrepareSkip(r, i)
      PROVE  PassedMeansHandled'
  BY <1>16 DEF PrepareSkip, Preparing, SetItem, SetState, PreparedFrame
<1>17. ASSUME NEW r \in Runs, NEW i \in Records, PrepareWithhold(r, i)
      PROVE  PassedMeansHandled'
  BY <1>17 DEF PrepareWithhold, Preparing, SetItem, SetState, Answer, Erased, PreparedFrame
<1>18. ASSUME NEW r \in Runs, NEW i \in Records, DryDeliver(r, i)
      PROVE  PassedMeansHandled'
  BY <1>18 DEF DryDeliver, Preparing, SetItem, SetState, PreparedFrame
<1>19. ASSUME NEW r \in Runs, NEW i \in Records, Queue(r, i) PROVE PassedMeansHandled'
  BY <1>19 DEF Queue, Preparing, SetItem, PreparedFrame
<1>20. ASSUME NEW r \in Runs, NEW i \in Records, Claim(r, i) PROVE PassedMeansHandled'
  BY <1>20 DEF Claim, SetItem
<1>21. ASSUME NEW r \in Runs, NEW i \in Records, Dispatch(r, i) PROVE PassedMeansHandled'
  BY <1>21 DEF Dispatch, SetItem
<1>22. ASSUME NEW r \in Runs, NEW i \in Records, OpenSession(r, i)
      PROVE  PassedMeansHandled'
  BY <1>22 DEF OpenSession, SetItem
<1>23. ASSUME NEW r \in Runs, NEW i \in Records, Acknowledge(r, i)
      PROVE  PassedMeansHandled'
  BY <1>23 DEF Acknowledge, InSession, SetItem, Answer, Onward, SessionFrame
<1>24. ASSUME NEW r \in Runs, NEW i \in Records, AdvanceState(r, i)
      PROVE  PassedMeansHandled'
  BY <1>24 DEF AdvanceState, SetItem, SetState, Onward, SessionFrame
<1>25. ASSUME NEW r \in Runs, NEW i \in Records, Contradict(r, i)
      PROVE  PassedMeansHandled'
  BY <1>25 DEF Contradict, InSession, SetItem, Onward, SessionFrame
<1>26. ASSUME NEW r \in Runs, NEW i \in Records, FailContradicted(r, i)
      PROVE  PassedMeansHandled'
  BY <1>26 DEF FailContradicted, EndSession, SetItem, Failing, Answer, Onward, SessionFrame
<1>27. ASSUME NEW r \in Runs, NEW i \in Records, FailRecord(r, i)
      PROVE  PassedMeansHandled'
  BY <1>27 DEF FailRecord, InSession, EndSession, SetItem, Failing, Answer, Onward,
     SessionFrame, NotDelivered
<1>28. ASSUME NEW r \in Runs, NEW i \in Records, SkipRecord(r, i)
      PROVE  PassedMeansHandled'
  BY <1>28 DEF SkipRecord, InSession, EndSession, SetItem, SetState, Failing, Answer,
     Onward, SessionFrame, NotDelivered
<1>29. ASSUME NEW r \in Runs, NEW i \in Records, RejectAck(r, i) PROVE PassedMeansHandled'
  BY <1>29 DEF RejectAck, InSession, EndSession, SetItem, Failing, Answer, Erased, Onward,
     SessionFrame
<1>30. ASSUME NEW r \in Runs, NEW i \in Records, SessionFails(r, i)
      PROVE  PassedMeansHandled'
  BY <1>30 DEF SessionFails, InSession, SetItem, Failing, Answer, Erased, NotDelivered,
     SessionFrame
<1>31. ASSUME NEW r \in Runs, NEW i \in Records, HoldInterrupted(r, i)
      PROVE  PassedMeansHandled'
  BY <1>31 DEF HoldInterrupted, InSession, SetItem, HoldRow, Onward, SessionFrame
<1>32. CASE UNCHANGED vars
  BY <1>32 DEF vars
<1> QED
  BY <1>1, <1>2, <1>3, <1>4, <1>5, <1>6, <1>7, <1>8, <1>9, <1>10, <1>11, <1>12, <1>13,
     <1>14, <1>15, <1>16, <1>17, <1>18, <1>19, <1>20, <1>21, <1>22, <1>23, <1>24, <1>25,
     <1>26, <1>27, <1>28, <1>29, <1>30, <1>31, <1>32 DEF Next, Operate, Hold, Prepare,
     Process

(* A record whose run will prepare it again goes on being one, until its   *)
(* key has its row for good or the evidence is torn.                       *)
LEMMA ReturnsStep == TypeOK /\ [Next]_vars => ReturnsKept
<1> SUFFICES ASSUME TypeOK, [Next]_vars PROVE ReturnsKept
  OBVIOUS
<1>1. ASSUME NEW r \in Runs, NEW i \in Records, ChunkError(r, i) PROVE ReturnsKept
  <2>1. /\ UNCHANGED <<recState, deliveries, withheld, rehearsed>>
        /\ item' = [item EXCEPT ![r] = [Drained(r) EXCEPT ![i] = "over"]]
        /\ torn' = torn \cup Torn(r, {i})
    BY <1>1 DEF ChunkError, ledgerVars
  <2>2. /\ \A q \in Runs \ {r} : item'[q] = item[q]
        /\ \A j \in Records \ {i} :
             item[r][j] \in {"logged", "moved"} => item'[r][j] = item[r][j]
    BY <2>1, DrainedKeeps DEF TypeOK
  <2>3. item[r][i] = "moved" => (HasRow(KeyOf[i]) /\ ~IsHeld(KeyOf[i])) \/ KeyOf[i] \in torn'
    BY <2>1, SMTT(30) DEF TypeOK, Torn, HasRow, IsHeld
  <2> QED
    BY <2>1, <2>2, <2>3 DEF TypeOK, ReturnsKept, Returns, HasRow, IsHeld
<1>2. ASSUME NEW r \in Runs, NEW i \in Records, RecordDelivery(r, i) PROVE ReturnsKept
  <2>1. /\ item[r][i] = "moved" /\ UNCHANGED <<recState, open, copies, torn, denied, raced,
                                                 withheld, rehearsed>>
        /\ \E s \in {"recorded", "over"} : item' = [item EXCEPT ![r][i] = s]
        /\ deliveries' = [deliveries EXCEPT ![KeyOf[i]] = Row("accepted")]
    BY <1>2 DEF RecordDelivery, EndSession, SetItem, SessionFrame
  <2> QED
    BY <2>1 DEF TypeOK, ReturnsKept, Returns, HasRow, IsHeld, Row
<1>3. ASSUME NEW r \in Runs, NEW i \in Records, Attested(r, i) PROVE ReturnsKept
  <2>1. /\ item[r][i] = "recorded" /\ item' = [item EXCEPT ![r][i] = "over"]
        /\ UNCHANGED <<recState, open, copies, torn, denied, raced, withheld, rehearsed>>
        /\ deliveries' = deliveries \/ deliveries' = [deliveries EXCEPT ![KeyOf[i]] = Row("confirmed")]
    BY <1>3 DEF Attested, EndSession, SetItem, SessionFrame
  <2> QED
    BY <2>1 DEF TypeOK, ReturnsKept, Returns, HasRow, IsHeld, Row
<1>4. ASSUME NEW r \in Runs, NEW i \in Records, StopStep(r, i) PROVE ReturnsKept
  <2>1. /\ UNCHANGED <<recState, deliveries, torn, withheld, rehearsed>>
        /\ item' = [item EXCEPT ![r] = [Drained(r) EXCEPT ![i] = "over"]]
        /\ item[r][i] = "session"
    BY <1>4 DEF StopStep, SessionFrame, InSession
  <2>2. /\ \A q \in Runs \ {r} : item'[q] = item[q]
        /\ \A j \in Records \ {i} :
             item[r][j] \in {"logged", "moved"} => item'[r][j] = item[r][j]
    BY <2>1, DrainedKeeps DEF TypeOK
  <2> QED
    BY <2>1, <2>2 DEF TypeOK, ReturnsKept, Returns, HasRow
<1> USE DEF TypeOK, ReturnsKept, Returns, HasRow, IsHeld, Row, HeldRow, Clear, AtWorker, Waiting,
            ledgerVars, processVars, historyVars
<1>5. ASSUME NEW r \in Runs, NEW d \in DryModes, CreateRun(r, d) PROVE ReturnsKept
  BY <1>5 DEF CreateRun, Start
<1>6. ASSUME NEW r \in Runs, NEW d \in DryModes, NEW rel \in SUBSET Records, NEW settle
         \in SUBSET Records, Resume(r, d, rel, settle)
      PROVE  ReturnsKept
  BY <1>6 DEF Resume, Start
<1>7. ASSUME NEW r \in Runs, Interrupt(r) PROVE ReturnsKept
  BY <1>7 DEF Interrupt, Stop, Drained
<1>8. ASSUME NEW r \in Runs, Crash(r) PROVE ReturnsKept
  BY <1>8 DEF Crash, Gone, Torn
<1>9. ASSUME NEW r \in Runs, OpenStep(r) PROVE ReturnsKept
  BY <1>9 DEF OpenStep
<1>10. ASSUME NEW r \in Runs, NEW d \in Runs, Probe(r, d) PROVE ReturnsKept
  BY <1>10 DEF Probe
<1>11. ASSUME NEW r \in Runs, NEW d \in Runs, NEW i \in Records, HoldDelivery(r, d, i)
      PROVE  ReturnsKept
  BY <1>11 DEF HoldDelivery, HoldRow
<1>12. ASSUME NEW r \in Runs, StepFails(r) PROVE ReturnsKept
  BY <1>12 DEF StepFails, Stop, Drained
<1>13. ASSUME NEW r \in Runs, Finish(r) PROVE ReturnsKept
  BY <1>13 DEF Finish, Gone, AtWork
<1>14. ASSUME NEW r \in Runs, NEW i \in Records, PrepareFails(r, i) PROVE ReturnsKept
  BY <1>14 DEF PrepareFails, Preparing, SetItem, Answer, Erased, PreparedFrame
<1>15. ASSUME NEW r \in Runs, NEW i \in Records, PrepareHeld(r, i) PROVE ReturnsKept
  BY <1>15 DEF PrepareHeld, Preparing, SetItem, PreparedFrame
<1>16. ASSUME NEW r \in Runs, NEW i \in Records, PrepareSkip(r, i) PROVE ReturnsKept
  BY <1>16 DEF PrepareSkip, Preparing, SetItem, SetState, PreparedFrame
<1>17. ASSUME NEW r \in Runs, NEW i \in Records, PrepareWithhold(r, i) PROVE ReturnsKept
  BY <1>17 DEF PrepareWithhold, Preparing, SetItem, SetState, Answer, Erased, PreparedFrame
<1>18. ASSUME NEW r \in Runs, NEW i \in Records, DryDeliver(r, i) PROVE ReturnsKept
  BY <1>18 DEF DryDeliver, Preparing, SetItem, SetState, PreparedFrame
<1>19. ASSUME NEW r \in Runs, NEW i \in Records, Queue(r, i) PROVE ReturnsKept
  BY <1>19 DEF Queue, Preparing, SetItem, PreparedFrame
<1>20. ASSUME NEW r \in Runs, NEW i \in Records, Claim(r, i) PROVE ReturnsKept
  BY <1>20 DEF Claim, SetItem
<1>21. ASSUME NEW r \in Runs, NEW i \in Records, Dispatch(r, i) PROVE ReturnsKept
  BY <1>21 DEF Dispatch, SetItem
<1>22. ASSUME NEW r \in Runs, NEW i \in Records, OpenSession(r, i) PROVE ReturnsKept
  BY <1>22 DEF OpenSession, SetItem
<1>23. ASSUME NEW r \in Runs, NEW i \in Records, Acknowledge(r, i) PROVE ReturnsKept
  BY <1>23 DEF Acknowledge, InSession, SetItem, Answer, Onward, SessionFrame
<1>24. ASSUME NEW r \in Runs, NEW i \in Records, AdvanceState(r, i) PROVE ReturnsKept
  BY <1>24 DEF AdvanceState, SetItem, SetState, Onward, SessionFrame
<1>25. ASSUME NEW r \in Runs, NEW i \in Records, Contradict(r, i) PROVE ReturnsKept
  BY <1>25 DEF Contradict, InSession, SetItem, Onward, SessionFrame
<1>26. ASSUME NEW r \in Runs, NEW i \in Records, FailContradicted(r, i) PROVE ReturnsKept
  BY <1>26 DEF FailContradicted, EndSession, SetItem, Failing, Answer, Onward, SessionFrame
<1>27. ASSUME NEW r \in Runs, NEW i \in Records, FailRecord(r, i) PROVE ReturnsKept
  BY <1>27 DEF FailRecord, InSession, EndSession, SetItem, Failing, Answer, Onward,
     SessionFrame, NotDelivered
<1>28. ASSUME NEW r \in Runs, NEW i \in Records, SkipRecord(r, i) PROVE ReturnsKept
  BY <1>28 DEF SkipRecord, InSession, EndSession, SetItem, SetState, Failing, Answer,
     Onward, SessionFrame, NotDelivered
<1>29. ASSUME NEW r \in Runs, NEW i \in Records, RejectAck(r, i) PROVE ReturnsKept
  BY <1>29 DEF RejectAck, InSession, EndSession, SetItem, Failing, Answer, Erased, Onward,
     SessionFrame
<1>30. ASSUME NEW r \in Runs, NEW i \in Records, SessionFails(r, i) PROVE ReturnsKept
  BY <1>30 DEF SessionFails, InSession, SetItem, Failing, Answer, Erased, NotDelivered,
     SessionFrame
<1>31. ASSUME NEW r \in Runs, NEW i \in Records, HoldInterrupted(r, i) PROVE ReturnsKept
  BY <1>31 DEF HoldInterrupted, InSession, SetItem, HoldRow, Onward, SessionFrame
<1>32. CASE UNCHANGED vars
  BY <1>32 DEF vars
<1> QED
  BY <1>1, <1>2, <1>3, <1>4, <1>5, <1>6, <1>7, <1>8, <1>9, <1>10, <1>11, <1>12, <1>13,
     <1>14, <1>15, <1>16, <1>17, <1>18, <1>19, <1>20, <1>21, <1>22, <1>23, <1>24, <1>25,
     <1>26, <1>27, <1>28, <1>29, <1>30, <1>31, <1>32 DEF Next, Operate, Hold, Prepare,
     Process

(* A row that becomes held is of a record that has not passed the step, or *)
(* that something accounts for: PassedMeansHandled says so while there is  *)
(* no row, and the row stays with that record.                             *)
LEMMA ReleasableStep ==
  TypeOK /\ PassedMeansHandled /\ HeldIsReleasable /\ [Next]_vars => HeldIsReleasable'
<1> SUFFICES ASSUME TypeOK, PassedMeansHandled, HeldIsReleasable, [Next]_vars
             PROVE  HeldIsReleasable'
  OBVIOUS
<1>1. ASSUME NEW k \in Keys \ torn', IsHeld(k)', NEW r, NEW i,
             r = deliveries'[k].run, i = deliveries'[k].id
      PROVE  Returns(r, i)'
  <2>1. r \in Runs /\ i \in Records /\ KeyOf[i] = k
    BY <1>1, TypeStep DEF TypeOK
  <2>2. k \notin torn
    BY <1>1, ReturnsStep DEF ReturnsKept
  <2>3. CASE HasRow(k)
    <3>1. deliveries'[k] = deliveries[k] /\ IsHeld(k)
      BY <1>1, <2>3, TableStep DEF TableKept, IsHeld
    <3>2. Returns(r, i)
      BY <1>1, <2>2, <3>1 DEF HeldIsReleasable, Returns
    <3> QED
      BY <1>1, <2>1, <3>2, ReturnsStep DEF ReturnsKept
  <2>4. CASE ~HasRow(k)
    <3>1. Returns(r, i)
      BY <2>1, <2>2, <2>4 DEF PassedMeansHandled, Returns, TypeOK
    <3> QED
      BY <1>1, <2>1, <3>1, ReturnsStep DEF ReturnsKept
  <2> QED
    BY <2>3, <2>4
<1> QED
  BY <1>1 DEF HeldIsReleasable, IsHeld, Returns

(* The request of a session counts until the adapter denies it.            *)
LEMMA CountStep == TypeOK /\ PeersKnown /\ OneAtATime /\ FreshStart /\ NoDoubleSend /\
  SentCounts /\ [Next]_vars => SentCounts'
<1> SUFFICES ASSUME TypeOK, PeersKnown, OneAtATime, FreshStart, NoDoubleSend, SentCounts, [Next]_vars PROVE SentCounts'
  OBVIOUS
<1>1. ASSUME NEW r \in Runs, NEW i \in Records, Queue(r, i) PROVE SentCounts'
  <2>1. /\ item[r][i] = "todo" /\ item' = [item EXCEPT ![r][i] = "queued"]
        /\ copies' = [copies EXCEPT ![KeyOf[i]] = 0] \/ copies' = copies
        /\ UNCHANGED <<torn, denied>> /\ raced \subseteq raced'
    BY <1>1 DEF Queue, Preparing, SetItem
  <2>2. ASSUME NEW d \in Runs, NEW j \in Records, item'[d][j] \in {"session", "logged", "moved"},
               KeyOf[j] = KeyOf[i], KeyOf[i] \notin raced'
        PROVE  FALSE
    <3>1. OneAtATime'
      BY OneAtATimeStep
    <3>2. item'[r][i] = "queued"
      BY <2>1 DEF TypeOK
    <3> QED
      BY <2>2, <3>1, <3>2 DEF OneAtATime, Unresolved
  <2> QED
    BY <2>1, <2>2 DEF TypeOK, SentCounts, Waived
<1>2. ASSUME NEW r \in Runs, NEW i \in Records, RecordDelivery(r, i) PROVE SentCounts'
  <2>1. /\ item[r][i] = "moved" /\ UNCHANGED <<recState, open, copies, torn, denied, raced,
                                                 withheld, rehearsed>>
        /\ \E s \in {"recorded", "over"} : item' = [item EXCEPT ![r][i] = s]
        /\ deliveries' = [deliveries EXCEPT ![KeyOf[i]] = Row("accepted")]
    BY <1>2 DEF RecordDelivery, EndSession, SetItem, SessionFrame
  <2> QED
    BY <2>1 DEF TypeOK, SentCounts, Waived
<1> USE DEF TypeOK, OneAtATime, FreshStart, BeforeSending, NoDoubleSend, SentCounts, Waived,
            Unresolved, Waiting, AtWorker, ledgerVars, processVars, historyVars
<1>3. ASSUME NEW r \in Runs, NEW d \in DryModes, CreateRun(r, d) PROVE SentCounts'
  BY <1>3 DEF CreateRun, Start
<1>4. ASSUME NEW r \in Runs, NEW d \in DryModes, NEW rel \in SUBSET Records, NEW settle
         \in SUBSET Records, Resume(r, d, rel, settle)
      PROVE  SentCounts'
  BY <1>4 DEF Resume, Start
<1>5. ASSUME NEW r \in Runs, Interrupt(r) PROVE SentCounts'
  BY <1>5 DEF Interrupt, Stop, Drained
<1>6. ASSUME NEW r \in Runs, Crash(r) PROVE SentCounts'
  BY <1>6 DEF Crash, Gone, Torn
<1>7. ASSUME NEW r \in Runs, OpenStep(r) PROVE SentCounts'
  BY <1>7 DEF OpenStep
<1>8. ASSUME NEW r \in Runs, NEW d \in Runs, Probe(r, d) PROVE SentCounts'
  BY <1>8 DEF Probe
<1>9. ASSUME NEW r \in Runs, NEW d \in Runs, NEW i \in Records, HoldDelivery(r, d, i)
      PROVE  SentCounts'
  BY <1>9 DEF HoldDelivery, HoldRow
<1>10. ASSUME NEW r \in Runs, StepFails(r) PROVE SentCounts'
  BY <1>10 DEF StepFails, Stop, Drained
<1>11. ASSUME NEW r \in Runs, Finish(r) PROVE SentCounts'
  BY <1>11 DEF Finish, Gone, AtWork
<1>12. ASSUME NEW r \in Runs, NEW i \in Records, PrepareFails(r, i) PROVE SentCounts'
  BY <1>12 DEF PrepareFails, Preparing, SetItem, Answer, Erased, PreparedFrame
<1>13. ASSUME NEW r \in Runs, NEW i \in Records, PrepareHeld(r, i) PROVE SentCounts'
  BY <1>13 DEF PrepareHeld, Preparing, SetItem, PreparedFrame
<1>14. ASSUME NEW r \in Runs, NEW i \in Records, PrepareSkip(r, i) PROVE SentCounts'
  BY <1>14 DEF PrepareSkip, Preparing, SetItem, SetState, PreparedFrame
<1>15. ASSUME NEW r \in Runs, NEW i \in Records, PrepareWithhold(r, i) PROVE SentCounts'
  BY <1>15 DEF PrepareWithhold, Preparing, SetItem, SetState, Answer, Erased, PreparedFrame
<1>16. ASSUME NEW r \in Runs, NEW i \in Records, DryDeliver(r, i) PROVE SentCounts'
  BY <1>16 DEF DryDeliver, Preparing, SetItem, SetState, PreparedFrame
<1>17. ASSUME NEW r \in Runs, NEW i \in Records, Claim(r, i) PROVE SentCounts'
  BY <1>17 DEF Claim, SetItem
<1>18. ASSUME NEW r \in Runs, NEW i \in Records, Dispatch(r, i) PROVE SentCounts'
  BY <1>18 DEF Dispatch, SetItem
<1>19. ASSUME NEW r \in Runs, NEW i \in Records, OpenSession(r, i) PROVE SentCounts'
  BY <1>19 DEF OpenSession, SetItem
<1>20. ASSUME NEW r \in Runs, NEW i \in Records, ChunkError(r, i) PROVE SentCounts'
  BY <1>20 DEF ChunkError, Stop, Drained, Torn
<1>21. ASSUME NEW r \in Runs, NEW i \in Records, Acknowledge(r, i) PROVE SentCounts'
  BY <1>21 DEF Acknowledge, InSession, SetItem, Answer, Onward, SessionFrame
<1>22. ASSUME NEW r \in Runs, NEW i \in Records, AdvanceState(r, i) PROVE SentCounts'
  BY <1>22 DEF AdvanceState, SetItem, SetState, Onward, SessionFrame
<1>23. ASSUME NEW r \in Runs, NEW i \in Records, Attested(r, i) PROVE SentCounts'
  BY <1>23 DEF Attested, SetItem, EndSession, Failing, Onward, SessionFrame
<1>24. ASSUME NEW r \in Runs, NEW i \in Records, Contradict(r, i) PROVE SentCounts'
  BY <1>24 DEF Contradict, InSession, SetItem, Onward, SessionFrame
<1>25. ASSUME NEW r \in Runs, NEW i \in Records, FailContradicted(r, i) PROVE SentCounts'
  BY <1>25 DEF FailContradicted, EndSession, SetItem, Failing, Answer, Onward, SessionFrame
<1>26. ASSUME NEW r \in Runs, NEW i \in Records, FailRecord(r, i) PROVE SentCounts'
  BY <1>26 DEF FailRecord, InSession, EndSession, SetItem, Failing, Answer, Onward,
     SessionFrame, NotDelivered
<1>27. ASSUME NEW r \in Runs, NEW i \in Records, SkipRecord(r, i) PROVE SentCounts'
  BY <1>27 DEF SkipRecord, InSession, EndSession, SetItem, SetState, Failing, Answer,
     Onward, SessionFrame, NotDelivered
<1>28. ASSUME NEW r \in Runs, NEW i \in Records, RejectAck(r, i) PROVE SentCounts'
  BY <1>28 DEF RejectAck, InSession, EndSession, SetItem, Failing, Answer, Erased, Onward,
     SessionFrame
<1>29. ASSUME NEW r \in Runs, NEW i \in Records, StopStep(r, i) PROVE SentCounts'
  BY <1>29 DEF StopStep, InSession, Stop, Drained, Answer, NotDelivered, SessionFrame
<1>30. ASSUME NEW r \in Runs, NEW i \in Records, SessionFails(r, i) PROVE SentCounts'
  BY <1>30 DEF SessionFails, InSession, SetItem, Failing, Answer, Erased, NotDelivered,
     SessionFrame
<1>31. ASSUME NEW r \in Runs, NEW i \in Records, HoldInterrupted(r, i) PROVE SentCounts'
  BY <1>31 DEF HoldInterrupted, InSession, SetItem, HoldRow, Onward, SessionFrame
<1>32. CASE UNCHANGED vars
  BY <1>32 DEF vars
<1> QED
  BY <1>1, <1>2, <1>3, <1>4, <1>5, <1>6, <1>7, <1>8, <1>9, <1>10, <1>11, <1>12, <1>13,
     <1>14, <1>15, <1>16, <1>17, <1>18, <1>19, <1>20, <1>21, <1>22, <1>23, <1>24, <1>25,
     <1>26, <1>27, <1>28, <1>29, <1>30, <1>31, <1>32 DEF Next, Operate, Hold, Prepare,
     Process

(* A worker attests only what has its row.                                 *)
LEMMA RowStep == TypeOK /\ RowWritten /\ [Next]_vars => RowWritten'
<1> SUFFICES ASSUME TypeOK, RowWritten, [Next]_vars PROVE RowWritten'
  OBVIOUS
<1>1. ASSUME NEW r \in Runs, NEW i \in Records, RecordDelivery(r, i) PROVE RowWritten'
  <2>1. /\ item[r][i] = "moved" /\ UNCHANGED <<recState, open, copies, torn, denied, raced,
                                                 withheld, rehearsed>>
        /\ \E s \in {"recorded", "over"} : item' = [item EXCEPT ![r][i] = s]
        /\ deliveries' = [deliveries EXCEPT ![KeyOf[i]] = Row("accepted")]
    BY <1>1 DEF RecordDelivery, EndSession, SetItem, SessionFrame
  <2> QED
    BY <2>1, RowShape DEF TypeOK, RowWritten, HasRow, IsHeld
<1>2. ASSUME NEW r \in Runs, NEW i \in Records, Attested(r, i) PROVE RowWritten'
  <2>1. /\ item[r][i] = "recorded" /\ item' = [item EXCEPT ![r][i] = "over"]
        /\ UNCHANGED <<recState, open, copies, torn, denied, raced, withheld, rehearsed>>
        /\ deliveries' = deliveries \/ deliveries' = [deliveries EXCEPT ![KeyOf[i]] = Row("confirmed")]
    BY <1>2 DEF Attested, EndSession, SetItem, SessionFrame
  <2> QED
    BY <2>1, TableStep DEF TypeOK, RowWritten, TableKept, IsHeld
<1> USE DEF TypeOK, RowWritten, HasRow, IsHeld, Row, HeldRow, Waiting, AtWorker, ledgerVars,
            processVars, historyVars
<1>3. ASSUME NEW r \in Runs, NEW d \in DryModes, CreateRun(r, d) PROVE RowWritten'
  BY <1>3 DEF CreateRun, Start
<1>4. ASSUME NEW r \in Runs, NEW d \in DryModes, NEW rel \in SUBSET Records, NEW settle
         \in SUBSET Records, Resume(r, d, rel, settle)
      PROVE  RowWritten'
  BY <1>4 DEF Resume, Start
<1>5. ASSUME NEW r \in Runs, Interrupt(r) PROVE RowWritten'
  BY <1>5 DEF Interrupt, Stop, Drained
<1>6. ASSUME NEW r \in Runs, Crash(r) PROVE RowWritten'
  BY <1>6 DEF Crash, Gone, Torn
<1>7. ASSUME NEW r \in Runs, OpenStep(r) PROVE RowWritten'
  BY <1>7 DEF OpenStep
<1>8. ASSUME NEW r \in Runs, NEW d \in Runs, Probe(r, d) PROVE RowWritten'
  BY <1>8 DEF Probe
<1>9. ASSUME NEW r \in Runs, NEW d \in Runs, NEW i \in Records, HoldDelivery(r, d, i)
      PROVE  RowWritten'
  BY <1>9 DEF HoldDelivery, HoldRow
<1>10. ASSUME NEW r \in Runs, StepFails(r) PROVE RowWritten'
  BY <1>10 DEF StepFails, Stop, Drained
<1>11. ASSUME NEW r \in Runs, Finish(r) PROVE RowWritten'
  BY <1>11 DEF Finish, Gone, AtWork
<1>12. ASSUME NEW r \in Runs, NEW i \in Records, PrepareFails(r, i) PROVE RowWritten'
  BY <1>12 DEF PrepareFails, Preparing, SetItem, Answer, Erased, PreparedFrame
<1>13. ASSUME NEW r \in Runs, NEW i \in Records, PrepareHeld(r, i) PROVE RowWritten'
  BY <1>13 DEF PrepareHeld, Preparing, SetItem, PreparedFrame
<1>14. ASSUME NEW r \in Runs, NEW i \in Records, PrepareSkip(r, i) PROVE RowWritten'
  BY <1>14 DEF PrepareSkip, Preparing, SetItem, SetState, PreparedFrame
<1>15. ASSUME NEW r \in Runs, NEW i \in Records, PrepareWithhold(r, i) PROVE RowWritten'
  BY <1>15 DEF PrepareWithhold, Preparing, SetItem, SetState, Answer, Erased, PreparedFrame
<1>16. ASSUME NEW r \in Runs, NEW i \in Records, DryDeliver(r, i) PROVE RowWritten'
  BY <1>16 DEF DryDeliver, Preparing, SetItem, SetState, PreparedFrame
<1>17. ASSUME NEW r \in Runs, NEW i \in Records, Queue(r, i) PROVE RowWritten'
  BY <1>17 DEF Queue, Preparing, SetItem, PreparedFrame
<1>18. ASSUME NEW r \in Runs, NEW i \in Records, Claim(r, i) PROVE RowWritten'
  BY <1>18 DEF Claim, SetItem
<1>19. ASSUME NEW r \in Runs, NEW i \in Records, Dispatch(r, i) PROVE RowWritten'
  BY <1>19 DEF Dispatch, SetItem
<1>20. ASSUME NEW r \in Runs, NEW i \in Records, OpenSession(r, i) PROVE RowWritten'
  BY <1>20 DEF OpenSession, SetItem
<1>21. ASSUME NEW r \in Runs, NEW i \in Records, ChunkError(r, i) PROVE RowWritten'
  BY <1>21 DEF ChunkError, Stop, Drained, Torn
<1>22. ASSUME NEW r \in Runs, NEW i \in Records, Acknowledge(r, i) PROVE RowWritten'
  BY <1>22 DEF Acknowledge, InSession, SetItem, Answer, Onward, SessionFrame
<1>23. ASSUME NEW r \in Runs, NEW i \in Records, AdvanceState(r, i) PROVE RowWritten'
  BY <1>23 DEF AdvanceState, SetItem, SetState, Onward, SessionFrame
<1>24. ASSUME NEW r \in Runs, NEW i \in Records, Contradict(r, i) PROVE RowWritten'
  BY <1>24 DEF Contradict, InSession, SetItem, Onward, SessionFrame
<1>25. ASSUME NEW r \in Runs, NEW i \in Records, FailContradicted(r, i) PROVE RowWritten'
  BY <1>25 DEF FailContradicted, EndSession, SetItem, Failing, Answer, Onward, SessionFrame
<1>26. ASSUME NEW r \in Runs, NEW i \in Records, FailRecord(r, i) PROVE RowWritten'
  BY <1>26 DEF FailRecord, InSession, EndSession, SetItem, Failing, Answer, Onward,
     SessionFrame, NotDelivered
<1>27. ASSUME NEW r \in Runs, NEW i \in Records, SkipRecord(r, i) PROVE RowWritten'
  BY <1>27 DEF SkipRecord, InSession, EndSession, SetItem, SetState, Failing, Answer,
     Onward, SessionFrame, NotDelivered
<1>28. ASSUME NEW r \in Runs, NEW i \in Records, RejectAck(r, i) PROVE RowWritten'
  BY <1>28 DEF RejectAck, InSession, EndSession, SetItem, Failing, Answer, Erased, Onward,
     SessionFrame
<1>29. ASSUME NEW r \in Runs, NEW i \in Records, StopStep(r, i) PROVE RowWritten'
  BY <1>29 DEF StopStep, InSession, Stop, Drained, Answer, NotDelivered, SessionFrame
<1>30. ASSUME NEW r \in Runs, NEW i \in Records, SessionFails(r, i) PROVE RowWritten'
  BY <1>30 DEF SessionFails, InSession, SetItem, Failing, Answer, Erased, NotDelivered,
     SessionFrame
<1>31. ASSUME NEW r \in Runs, NEW i \in Records, HoldInterrupted(r, i) PROVE RowWritten'
  BY <1>31 DEF HoldInterrupted, InSession, SetItem, HoldRow, Onward, SessionFrame
<1>32. CASE UNCHANGED vars
  BY <1>32 DEF vars
<1> QED
  BY <1>1, <1>2, <1>3, <1>4, <1>5, <1>6, <1>7, <1>8, <1>9, <1>10, <1>11, <1>12, <1>13,
     <1>14, <1>15, <1>16, <1>17, <1>18, <1>19, <1>20, <1>21, <1>22, <1>23, <1>24, <1>25,
     <1>26, <1>27, <1>28, <1>29, <1>30, <1>31, <1>32 DEF Next, Operate, Hold, Prepare,
     Process

(* What a step does to a key it does not act on: the request count stands,  *)
(* nobody takes the key in hand, and a new row is a held one.              *)
HandsKept(k) ==
  \A r \in Runs, i \in Records : KeyOf[i] = k /\ item'[r][i] \in Unresolved => item[r][i] \in Unresolved
Onlooks(k) ==
  /\ copies'[k] = copies[k]
  /\ HandsKept(k)
  /\ HasRow(k)' => HasRow(k) \/ IsHeld(k)'

(* The actions that send a key, settle its fate or take it in hand.        *)
Acts(r, i) ==
  \/ Queue(r, i) \/ OpenSession(r, i) \/ RecordDelivery(r, i) \/ Contradict(r, i)
  \/ FailRecord(r, i) \/ SkipRecord(r, i) \/ StopStep(r, i) \/ SessionFails(r, i)

OnlookersKept ==
  \A k \in Keys : Onlooks(k) \/ \E r \in Runs, i \in Records : KeyOf[i] = k /\ Acts(r, i)

(* Whatever the step, a key it does not act on is only looked on.          *)
LEMMA OnlookStep == TypeOK /\ RowWritten /\ [Next]_vars => OnlookersKept
<1> SUFFICES ASSUME TypeOK, RowWritten, [Next]_vars PROVE OnlookersKept
  OBVIOUS
<1>1. ASSUME NEW r \in Runs, NEW i \in Records, Queue(r, i) PROVE OnlookersKept
  <2>1. ASSUME NEW k \in Keys, k # KeyOf[i] PROVE Onlooks(k)
    BY <1>1, <2>1 DEF Queue, Preparing, SetItem, PreparedFrame, TypeOK, Onlooks, HandsKept,
       Unresolved, HasRow, IsHeld, Row, Waiting, ledgerVars, processVars, historyVars
  <2> QED
    BY <1>1, <2>1 DEF OnlookersKept, Acts
<1>2. ASSUME NEW r \in Runs, NEW i \in Records, OpenSession(r, i) PROVE OnlookersKept
  <2>1. ASSUME NEW k \in Keys, k # KeyOf[i] PROVE Onlooks(k)
    BY <1>2, <2>1 DEF OpenSession, SetItem, TypeOK, Onlooks, HandsKept, Unresolved, HasRow,
       IsHeld, Row, Waiting, ledgerVars, processVars, historyVars
  <2> QED
    BY <1>2, <2>1 DEF OnlookersKept, Acts
<1>3. ASSUME NEW r \in Runs, NEW i \in Records, RecordDelivery(r, i) PROVE OnlookersKept
  <2>1. /\ item[r][i] = "moved" /\ UNCHANGED <<recState, open, copies, torn, denied, raced,
                                                 withheld, rehearsed>>
        /\ \E s \in {"recorded", "over"} : item' = [item EXCEPT ![r][i] = s]
        /\ deliveries' = [deliveries EXCEPT ![KeyOf[i]] = Row("accepted")]
    BY <1>3 DEF RecordDelivery, EndSession, SetItem, SessionFrame
  <2>2. ASSUME NEW k \in Keys, k # KeyOf[i] PROVE Onlooks(k)
    BY <2>1, <2>2 DEF TypeOK, Onlooks, HandsKept, HasRow, IsHeld, Unresolved
  <2> QED
    BY <1>3, <2>2 DEF OnlookersKept, Acts
<1>4. ASSUME NEW r \in Runs, NEW i \in Records, Attested(r, i) PROVE OnlookersKept
  <2>1. /\ item[r][i] = "recorded" /\ item' = [item EXCEPT ![r][i] = "over"]
        /\ UNCHANGED <<recState, open, copies, torn, denied, raced, withheld, rehearsed>>
        /\ deliveries' = deliveries \/ deliveries' = [deliveries EXCEPT ![KeyOf[i]] = Row("confirmed")]
    BY <1>4 DEF Attested, EndSession, SetItem, SessionFrame
  <2>2. \A k \in Keys : HandsKept(k)
    BY <2>1 DEF TypeOK, HandsKept, Unresolved
  <2>3. \A k \in Keys : HasRow(k)' => HasRow(k)
    <3>1. HasRow(KeyOf[i])
      BY <2>1 DEF RowWritten
    <3>2. \A k \in Keys \ {KeyOf[i]} : deliveries'[k] = deliveries[k]
      BY <2>1 DEF TypeOK
    <3> QED
      BY <3>1, <3>2 DEF HasRow
  <2> QED
    BY <2>1, <2>2, <2>3 DEF OnlookersKept, Onlooks
<1>5. ASSUME NEW r \in Runs, NEW i \in Records, Contradict(r, i) PROVE OnlookersKept
  <2>1. ASSUME NEW k \in Keys, k # KeyOf[i] PROVE Onlooks(k)
    BY <1>5, <2>1 DEF Contradict, InSession, SetItem, Onward, SessionFrame, TypeOK, Onlooks,
       HandsKept, Unresolved, HasRow, IsHeld, Row, Waiting, ledgerVars, processVars,
       historyVars
  <2> QED
    BY <1>5, <2>1 DEF OnlookersKept, Acts
<1>6. ASSUME NEW r \in Runs, NEW i \in Records, FailRecord(r, i) PROVE OnlookersKept
  <2>1. ASSUME NEW k \in Keys, k # KeyOf[i] PROVE Onlooks(k)
    BY <1>6, <2>1 DEF FailRecord, InSession, EndSession, SetItem, Failing, Answer, Onward,
       SessionFrame, NotDelivered, TypeOK, Onlooks, HandsKept, Unresolved, HasRow, IsHeld,
       Row, Waiting, ledgerVars, processVars, historyVars
  <2> QED
    BY <1>6, <2>1 DEF OnlookersKept, Acts
<1>7. ASSUME NEW r \in Runs, NEW i \in Records, SkipRecord(r, i) PROVE OnlookersKept
  <2>1. ASSUME NEW k \in Keys, k # KeyOf[i] PROVE Onlooks(k)
    BY <1>7, <2>1 DEF SkipRecord, InSession, EndSession, SetItem, SetState, Failing, Answer,
       Onward, SessionFrame, NotDelivered, TypeOK, Onlooks, HandsKept, Unresolved, HasRow,
       IsHeld, Row, Waiting, ledgerVars, processVars, historyVars
  <2> QED
    BY <1>7, <2>1 DEF OnlookersKept, Acts
<1>8. ASSUME NEW r \in Runs, NEW i \in Records, StopStep(r, i) PROVE OnlookersKept
  <2>1. ASSUME NEW k \in Keys, k # KeyOf[i] PROVE Onlooks(k)
    BY <1>8, <2>1 DEF StopStep, InSession, Stop, Drained, Answer, NotDelivered, SessionFrame,
       TypeOK, Onlooks, HandsKept, Unresolved, HasRow, IsHeld, Row, Waiting, ledgerVars,
       processVars, historyVars
  <2> QED
    BY <1>8, <2>1 DEF OnlookersKept, Acts
<1>9. ASSUME NEW r \in Runs, NEW i \in Records, SessionFails(r, i) PROVE OnlookersKept
  <2>1. ASSUME NEW k \in Keys, k # KeyOf[i] PROVE Onlooks(k)
    BY <1>9, <2>1 DEF SessionFails, InSession, SetItem, Failing, Answer, Erased, NotDelivered,
       SessionFrame, TypeOK, Onlooks, HandsKept, Unresolved, HasRow, IsHeld, Row, Waiting,
       ledgerVars, processVars, historyVars
  <2> QED
    BY <1>9, <2>1 DEF OnlookersKept, Acts
<1> USE DEF TypeOK, RowWritten, Onlooks, HandsKept, Unresolved, HasRow, IsHeld, Row, HeldRow,
            AtWorker, Waiting, ledgerVars, processVars, historyVars, OnlookersKept
<1>10. ASSUME NEW r \in Runs, NEW d \in DryModes, CreateRun(r, d) PROVE OnlookersKept
  BY <1>10 DEF CreateRun, Start
<1>11. ASSUME NEW r \in Runs, NEW d \in DryModes, NEW rel \in SUBSET Records, NEW settle
         \in SUBSET Records, Resume(r, d, rel, settle)
      PROVE  OnlookersKept
  BY <1>11 DEF Resume, Start
<1>12. ASSUME NEW r \in Runs, Interrupt(r) PROVE OnlookersKept
  BY <1>12 DEF Interrupt, Stop, Drained
<1>13. ASSUME NEW r \in Runs, Crash(r) PROVE OnlookersKept
  BY <1>13 DEF Crash, Gone, Torn
<1>14. ASSUME NEW r \in Runs, OpenStep(r) PROVE OnlookersKept
  BY <1>14 DEF OpenStep
<1>15. ASSUME NEW r \in Runs, NEW d \in Runs, Probe(r, d) PROVE OnlookersKept
  BY <1>15 DEF Probe
<1>16. ASSUME NEW r \in Runs, NEW d \in Runs, NEW i \in Records, HoldDelivery(r, d, i)
      PROVE  OnlookersKept
  BY <1>16 DEF HoldDelivery, HoldRow
<1>17. ASSUME NEW r \in Runs, StepFails(r) PROVE OnlookersKept
  BY <1>17 DEF StepFails, Stop, Drained
<1>18. ASSUME NEW r \in Runs, Finish(r) PROVE OnlookersKept
  BY <1>18 DEF Finish, Gone, AtWork
<1>19. ASSUME NEW r \in Runs, NEW i \in Records, PrepareFails(r, i) PROVE OnlookersKept
  BY <1>19 DEF PrepareFails, Preparing, SetItem, Answer, Erased, PreparedFrame
<1>20. ASSUME NEW r \in Runs, NEW i \in Records, PrepareHeld(r, i) PROVE OnlookersKept
  BY <1>20 DEF PrepareHeld, Preparing, SetItem, PreparedFrame
<1>21. ASSUME NEW r \in Runs, NEW i \in Records, PrepareSkip(r, i) PROVE OnlookersKept
  BY <1>21 DEF PrepareSkip, Preparing, SetItem, SetState, PreparedFrame
<1>22. ASSUME NEW r \in Runs, NEW i \in Records, PrepareWithhold(r, i) PROVE OnlookersKept
  BY <1>22 DEF PrepareWithhold, Preparing, SetItem, SetState, Answer, Erased, PreparedFrame
<1>23. ASSUME NEW r \in Runs, NEW i \in Records, DryDeliver(r, i) PROVE OnlookersKept
  BY <1>23 DEF DryDeliver, Preparing, SetItem, SetState, PreparedFrame
<1>24. ASSUME NEW r \in Runs, NEW i \in Records, Claim(r, i) PROVE OnlookersKept
  BY <1>24 DEF Claim, SetItem
<1>25. ASSUME NEW r \in Runs, NEW i \in Records, Dispatch(r, i) PROVE OnlookersKept
  BY <1>25 DEF Dispatch, SetItem
<1>26. ASSUME NEW r \in Runs, NEW i \in Records, ChunkError(r, i) PROVE OnlookersKept
  BY <1>26 DEF ChunkError, Stop, Drained, Torn
<1>27. ASSUME NEW r \in Runs, NEW i \in Records, Acknowledge(r, i) PROVE OnlookersKept
  BY <1>27 DEF Acknowledge, InSession, SetItem, Answer, Onward, SessionFrame
<1>28. ASSUME NEW r \in Runs, NEW i \in Records, AdvanceState(r, i) PROVE OnlookersKept
  BY <1>28 DEF AdvanceState, SetItem, SetState, Onward, SessionFrame
<1>29. ASSUME NEW r \in Runs, NEW i \in Records, FailContradicted(r, i)
      PROVE  OnlookersKept
  BY <1>29 DEF FailContradicted, EndSession, SetItem, Failing, Answer, Onward, SessionFrame
<1>30. ASSUME NEW r \in Runs, NEW i \in Records, RejectAck(r, i) PROVE OnlookersKept
  BY <1>30 DEF RejectAck, InSession, EndSession, SetItem, Failing, Answer, Erased, Onward,
     SessionFrame
<1>31. ASSUME NEW r \in Runs, NEW i \in Records, HoldInterrupted(r, i) PROVE OnlookersKept
  BY <1>31 DEF HoldInterrupted, InSession, SetItem, HoldRow, Onward, SessionFrame
<1>32. CASE UNCHANGED vars
  BY <1>32 DEF vars
<1> QED
  BY <1>1, <1>2, <1>3, <1>4, <1>5, <1>6, <1>7, <1>8, <1>9, <1>10, <1>11, <1>12, <1>13,
     <1>14, <1>15, <1>16, <1>17, <1>18, <1>19, <1>20, <1>21, <1>22, <1>23, <1>24, <1>25,
     <1>26, <1>27, <1>28, <1>29, <1>30, <1>31, <1>32 DEF Next, Operate, Hold, Prepare,
     Process

(* The claim of one key, and what the promise allows a step to do to it.   *)
ClaimOf(k) == IF ~HasRow(k) THEN "free"
              ELSE IF InHands(k) THEN "released"
              ELSE IF IsHeld(k) THEN "held" ELSE "delivered"
KeyPromise(k) ==
  \/ Abstract!Stay(k) \/ Abstract!Send(k) \/ Abstract!Refuse(k) \/ Abstract!Deliver(k)
  \/ Abstract!Hold(k) \/ Abstract!Release(k) \/ Abstract!Settle(k) \/ Abstract!Waived(k)

(* The refinement mapping, key by key.                                     *)
LEMMA ClaimShape ==
  ASSUME NEW k \in Keys
  PROVE  Claim_[k] = ClaimOf(k) /\ Claim_'[k] = ClaimOf(k)'
  BY DEF Claim_, ClaimOf

(* Nobody has a key in hand who did not have it before.                    *)
LEMMA HandsShape ==
  ASSUME NEW k \in Keys, HandsKept(k), InHands(k)'
  PROVE  InHands(k)
  BY DEF HandsKept, InHands

(* A key that is only looked on stays, is held, or is settled.             *)
LEMMA OnlookerPromise ==
  ASSUME TableKept, NEW k \in Keys, Onlooks(k)
  PROVE  KeyPromise(k)
<1>1. InHands(k)' => InHands(k)
  BY HandsShape DEF Onlooks
<1>2. /\ HasRow(k) => HasRow(k)'
      /\ HasRow(k) /\ IsHeld(k)' => IsHeld(k)
  BY DEF TableKept, IsHeld
<1>3. /\ copies'[k] = copies[k]
      /\ HasRow(k)' => HasRow(k) \/ IsHeld(k)'
  BY DEF Onlooks
<1>4. Abstract!Stay(k) \/ Abstract!Hold(k) \/ Abstract!Settle(k)
  BY <1>1, <1>2, <1>3, ClaimShape DEF ClaimOf, Abstract!Stay, Abstract!Hold, Abstract!Settle
<1> QED
  BY <1>4 DEF KeyPromise

(* An item of a key that is not waived is the only one; when it is over,   *)
(* nobody has the key in hand.                                             *)
LEMMA LastInHand ==
  ASSUME TypeOK, OneAtATime, NEW r \in Runs, NEW i \in Records, KeyOf[i] \notin raced,
         item[r][i] \in Unresolved, item'[r][i] \notin Unresolved, HandsKept(KeyOf[i])
  PROVE  ~InHands(KeyOf[i])'
  BY DEF OneAtATime, HandsKept, InHands

(* Joining the work releases a held key, or overtakes another record of it. *)
LEMMA QueuePromise ==
  ASSUME TypeOK, PeersKnown, NEW r \in Runs, NEW i \in Records, Queue(r, i)
  PROVE  KeyPromise(KeyOf[i])
<1> DEFINE k == KeyOf[i]
<1>1. /\ InStep(r) /\ item[r][i] = "todo" /\ item' = [item EXCEPT ![r][i] = "queued"]
      /\ Clear(r, i) /\ UNCHANGED deliveries
      /\ raced' = IF InFlight(r, i) THEN raced \cup {k} ELSE raced
      /\ copies' = IF HasRow(k) THEN [copies EXCEPT ![k] = 0] ELSE copies
  BY DEF Queue, Preparing, Scanned, SetItem, PreparedFrame
<1>2. k \in Keys /\ HasRow(k)' = HasRow(k) /\ IsHeld(k)' = IsHeld(k)
  BY <1>1 DEF HasRow, IsHeld
<1>3. CASE ~HasRow(k)
  BY <1>1, <1>2, <1>3, ClaimShape DEF ClaimOf, KeyPromise, Abstract!Stay
<1>4. CASE HasRow(k) /\ InHands(k)
  <2>1. PICK d \in Runs, j \in Records : KeyOf[j] = k /\ item[d][j] \in Unresolved
    BY <1>4 DEF InHands
  <2>2. Alive(d) /\ Alive(r) /\ <<d, j>> # <<r, i>>
    BY <1>1, <2>1 DEF TypeOK, Unresolved, Alive, InStep
  <2>3. InFlight(r, i)
    BY <2>1, <2>2 DEF PeersKnown, InFlight
  <2>4. k \in Waived' /\ ClaimOf(k) # "delivered"
    BY <1>1, <1>4, <2>3 DEF Waived, ClaimOf
  <2> QED
    BY <1>2, <2>4, ClaimShape DEF KeyPromise, Abstract!Waived
<1>5. CASE HasRow(k) /\ ~InHands(k)
  <2>1. IsHeld(k)
    BY <1>1, <1>5 DEF Clear
  <2>2. InHands(k)'
    BY <1>1 DEF TypeOK, InHands, Unresolved
  <2>3. copies'[k] = 0
    BY <1>1, <1>5 DEF TypeOK
  <2>4. ClaimOf(k) = "held" /\ ClaimOf(k)' = "released"
    BY <1>2, <1>5, <2>1, <2>2 DEF ClaimOf
  <2> QED
    BY <1>2, <2>3, <2>4, ClaimShape DEF KeyPromise, Abstract!Release
<1> QED
  BY <1>3, <1>4, <1>5

(* Opening the session sends the key's one request.                        *)
LEMMA SendPromise ==
  ASSUME TypeOK, FreshStart, NEW r \in Runs, NEW i \in Records, OpenSession(r, i)
  PROVE  KeyPromise(KeyOf[i])
<1> DEFINE k == KeyOf[i]
<1>1. /\ item[r][i] = "dispatched" /\ item' = [item EXCEPT ![r][i] = "session"]
      /\ copies' = [copies EXCEPT ![k] = IF @ = 0 THEN 1 ELSE 2]
      /\ UNCHANGED <<deliveries, torn, denied, raced>>
  BY DEF OpenSession, SetItem, ledgerVars
<1>2. k \in Keys /\ InHands(k) /\ InHands(k)'
  BY <1>1 DEF TypeOK, InHands, Unresolved
<1>3. HasRow(k)' = HasRow(k)
  BY <1>1 DEF HasRow
<1>4. ClaimOf(k) \in {"free", "released"} /\ ClaimOf(k)' = ClaimOf(k)
  BY <1>2, <1>3 DEF ClaimOf
<1>5. CASE k \in Waived
  <2>1. k \in Waived'
    BY <1>1, <1>5 DEF Waived
  <2> QED
    BY <1>2, <1>4, <2>1, ClaimShape DEF KeyPromise, Abstract!Waived
<1>6. CASE k \notin Waived
  <2>1. copies[k] = 0 /\ copies'[k] = 1
    BY <1>1, <1>2, <1>6 DEF TypeOK, FreshStart, BeforeSending
  <2> QED
    BY <1>2, <1>4, <2>1, ClaimShape DEF KeyPromise, Abstract!Send
<1> QED
  BY <1>5, <1>6

(* The end of a session: the key was in hand, and the request it sent is   *)
(* the one that counts.                                                    *)
LEMMA EndPromise ==
  ASSUME TypeOK, OneAtATime, NoDoubleSend, SentCounts, TableKept, Waived \subseteq Waived',
         NEW r \in Runs, NEW i \in Records,
         item[r][i] \in {"session", "moved"}, item'[r][i] \notin Unresolved, HandsKept(KeyOf[i]),
         \/ /\ HasRow(KeyOf[i])' /\ ~IsHeld(KeyOf[i])'
            /\ copies'[KeyOf[i]] = copies[KeyOf[i]]
         \/ /\ UNCHANGED deliveries
            /\ copies'[KeyOf[i]] = IF copies[KeyOf[i]] = 1 THEN 0 ELSE copies[KeyOf[i]]
         \/ /\ UNCHANGED deliveries /\ copies'[KeyOf[i]] = copies[KeyOf[i]]
            /\ HasRow(KeyOf[i]) \/ KeyOf[i] \in Waived'
  PROVE  KeyPromise(KeyOf[i])
<1> DEFINE k == KeyOf[i]
<1>1. k \in Keys /\ ClaimOf(k) \in {"free", "released"}
  BY DEF ClaimOf, InHands, Unresolved
<1>2. CASE k \in Waived'
  BY <1>1, <1>2, ClaimShape DEF KeyPromise, Abstract!Waived
<1>3. CASE k \notin Waived'
  <2>1. copies[k] = 1
    <3>1. copies[k] \in 0..2 /\ copies[k] # 0
      BY <1>1, <1>3 DEF TypeOK, SentCounts
    <3>2. ~(copies[k] > 1)
      BY <1>1, <1>3 DEF NoDoubleSend
    <3> QED
      BY <3>1, <3>2
  <2>2. ~InHands(k)'
    BY <1>3, LastInHand DEF Waived, Unresolved
  <2>3. CASE HasRow(k)' /\ ~IsHeld(k)' /\ copies'[k] = copies[k]
    BY <1>1, <2>1, <2>2, <2>3, ClaimShape DEF ClaimOf, KeyPromise, Abstract!Deliver
  <2>4. CASE UNCHANGED deliveries /\ copies'[k] = 0
    BY <1>1, <2>2, <2>4, ClaimShape DEF ClaimOf, HasRow, IsHeld, KeyPromise, Abstract!Refuse
  <2>5. CASE UNCHANGED deliveries /\ copies'[k] = copies[k] /\ HasRow(k)
    BY <1>1, <2>2, <2>5, ClaimShape DEF ClaimOf, HasRow, IsHeld, KeyPromise, Abstract!Hold, Abstract!Settle
  <2> QED
    BY <1>3, <2>1, <2>3, <2>4, <2>5
<1> QED
  BY <1>2, <1>3

(* What an action does to its own key, the promise allows.                 *)
LEMMA ActPromise ==
  ASSUME TypeOK, PeersKnown, DispatchedFirst, OneAtATime, FreshStart, NoDoubleSend, SentCounts,
         TableKept, Waived \subseteq Waived', NEW r \in Runs, NEW i \in Records, Acts(r, i)
  PROVE  KeyPromise(KeyOf[i])
<1>1. CASE Queue(r, i)
  BY <1>1, QueuePromise
<1>2. CASE OpenSession(r, i)
  BY <1>2, SendPromise
<1>3. CASE RecordDelivery(r, i)
  <2>1. /\ item[r][i] = "moved" /\ UNCHANGED copies
        /\ \E s \in {"recorded", "over"} : item' = [item EXCEPT ![r][i] = s]
        /\ deliveries' = [deliveries EXCEPT ![KeyOf[i]] = Row("accepted")]
    BY <1>3 DEF RecordDelivery, EndSession, SetItem, SessionFrame
  <2>2. item'[r][i] \notin Unresolved /\ HandsKept(KeyOf[i])
    BY <2>1 DEF TypeOK, HandsKept, Unresolved
  <2>3. HasRow(KeyOf[i])' /\ ~IsHeld(KeyOf[i])'
    BY <2>1, RowShape DEF TypeOK, HasRow, IsHeld
  <2> QED
    BY <2>1, <2>2, <2>3, EndPromise
<1>4. CASE Contradict(r, i)
  <2>1. /\ item[r][i] = "session" /\ UNCHANGED copies
        /\ item' = [item EXCEPT ![r][i] = "contra"]
        /\ deliveries' = [deliveries EXCEPT ![KeyOf[i]] = Row("accepted")]
    BY <1>4 DEF Contradict, InSession, SetItem
  <2>2. item'[r][i] \notin Unresolved /\ HandsKept(KeyOf[i])
    BY <2>1 DEF TypeOK, HandsKept, Unresolved
  <2>3. HasRow(KeyOf[i])' /\ ~IsHeld(KeyOf[i])'
    BY <2>1, RowShape DEF TypeOK, HasRow, IsHeld
  <2> QED
    BY <2>1, <2>2, <2>3, EndPromise
<1>5. CASE FailRecord(r, i) \/ SkipRecord(r, i)
  <2>1. /\ item[r][i] = "session" /\ UNCHANGED deliveries
        /\ item' = [item EXCEPT ![r][i] = "over"]
        /\ copies' = [copies EXCEPT ![KeyOf[i]] = IF @ = 1 THEN 0 ELSE @]
    BY <1>5 DEF FailRecord, SkipRecord, InSession, EndSession, SetItem, NotDelivered
  <2>2. item'[r][i] \notin Unresolved /\ HandsKept(KeyOf[i])
    BY <2>1 DEF TypeOK, HandsKept, Unresolved
  <2>3. copies'[KeyOf[i]] = IF copies[KeyOf[i]] = 1 THEN 0 ELSE copies[KeyOf[i]]
    BY <2>1 DEF TypeOK
  <2> QED
    BY <2>1, <2>2, <2>3, EndPromise
<1>6. CASE StopStep(r, i)
  <2>1. /\ item[r][i] = "session" /\ UNCHANGED deliveries
        /\ item' = [item EXCEPT ![r] = [Drained(r) EXCEPT ![i] = "over"]]
        /\ copies' = [copies EXCEPT ![KeyOf[i]] = IF @ = 1 THEN 0 ELSE @]
    BY <1>6 DEF StopStep, InSession, NotDelivered
  <2>2. item'[r][i] \notin Unresolved /\ HandsKept(KeyOf[i])
    BY <2>1 DEF TypeOK, HandsKept, Unresolved, Drained, Waiting
  <2>3. copies'[KeyOf[i]] = IF copies[KeyOf[i]] = 1 THEN 0 ELSE copies[KeyOf[i]]
    BY <2>1 DEF TypeOK
  <2> QED
    BY <2>1, <2>2, <2>3, EndPromise
<1>7. CASE SessionFails(r, i)
  <2>1. /\ item[r][i] = "session" /\ UNCHANGED <<deliveries, torn, raced>>
        /\ item' = [item EXCEPT ![r][i] = "over"]
        /\ \/ copies' = [copies EXCEPT ![KeyOf[i]] = IF @ = 1 THEN 0 ELSE @]
           \/ denied' = denied \cup Erased(r, i) /\ UNCHANGED copies
    BY <1>7 DEF SessionFails, InSession, SetItem, NotDelivered, SessionFrame
  <2>2. item'[r][i] \notin Unresolved /\ HandsKept(KeyOf[i])
    BY <2>1 DEF TypeOK, HandsKept, Unresolved
  <2>3. CASE copies' = [copies EXCEPT ![KeyOf[i]] = IF @ = 1 THEN 0 ELSE @]
    <3>1. copies'[KeyOf[i]] = IF copies[KeyOf[i]] = 1 THEN 0 ELSE copies[KeyOf[i]]
      BY <2>3 DEF TypeOK
    <3> QED
      BY <2>1, <2>2, <3>1, EndPromise
  <2>4. CASE denied' = denied \cup Erased(r, i) /\ UNCHANGED copies
    <3>1. HasRow(KeyOf[i]) \/ KeyOf[i] \in Waived'
      BY <2>1, <2>4 DEF DispatchedFirst, Erased, Waived
    <3> QED
      BY <2>1, <2>2, <2>4, <3>1, EndPromise
  <2> QED
    BY <2>1, <2>3, <2>4
<1> QED
  BY <1>1, <1>2, <1>3, <1>4, <1>5, <1>6, <1>7 DEF Acts

-----------------------------------------------------------------------------
(* The inductive invariant with what the refinement needs beside it.       *)
RInv == IInv /\ PassedMeansHandled /\ HeldIsReleasable /\ SentCounts /\ RowWritten

(* Every reachable state satisfies that too.                               *)
THEOREM FullInvariance == Spec => []RInv
<1>1. Init => RInv
  BY InitInv DEF Init, RInv, PassedMeansHandled, HeldIsReleasable, IsHeld, Row, SentCounts, RowWritten
<1>2. RInv /\ [Next]_vars => RInv'
  <2> SUFFICES ASSUME RInv, [Next]_vars PROVE RInv'
    OBVIOUS
  <2>1. TypeOK /\ PeersKnown /\ OneAtATime /\ FreshStart /\ NoDoubleSend
    BY DEF RInv, IInv
  <2>2. PassedMeansHandled' /\ HeldIsReleasable'
    BY <2>1, PassedStep, ReleasableStep DEF RInv
  <2>3. SentCounts' /\ RowWritten'
    BY <2>1, CountStep, RowStep DEF RInv
  <2>4. IInv'
    BY InvStep DEF RInv
  <2> QED
    BY <2>2, <2>3, <2>4 DEF RInv
<1> QED
  BY <1>1, <1>2, PTL DEF Spec

(* No record is past the step without its row, a verdict or a rehearsal    *)
(* that accounts for it, outside the torn window.                          *)
THEOREM PassedSound == Spec => []PassedMeansHandled
<1>1. RInv => PassedMeansHandled
  BY DEF RInv
<1> QED
  BY FullInvariance, <1>1, PTL

(* ADR-060: the record of a held delivery is still before the step in the  *)
(* run that holds it, so that run's resume can release it.                 *)
THEOREM HeldSound == Spec => []HeldIsReleasable
<1>1. RInv => HeldIsReleasable
  BY DEF RInv
<1> QED
  BY FullInvariance, <1>1, PTL

(* ADR-060: delivered stays delivered, a held key is sent again only after *)
(* an operator released it or by a process that already had it, and one    *)
(* copy at most is at the target; torn, denied and raced keys excepted.    *)
THEOREM ImplementsPromise == Spec => Promise
<1>1. Init => Abstract!Init
  BY DEF Init, Abstract!Init, Claim_, HasRow, Row, Waived
<1>2. RInv /\ [Next]_vars => [Abstract!Next]_(Abstract!promiseVars)
  <2> SUFFICES ASSUME RInv, [Next]_vars PROVE Abstract!Next
    OBVIOUS
  <2>1. /\ TypeOK /\ PeersKnown /\ DispatchedFirst /\ OneAtATime /\ FreshStart
        /\ NoDoubleSend /\ SentCounts /\ RowWritten
    BY DEF RInv, IInv
  <2>2. Waived \subseteq Waived' /\ TableKept /\ OnlookersKept
    BY <2>1, EvidenceLemma, TableStep, OnlookStep DEF EvidenceKept
  <2>3. ASSUME NEW k \in Keys PROVE KeyPromise(k)
    <3>1. CASE Onlooks(k)
      BY <2>2, <3>1, OnlookerPromise
    <3>2. CASE \E r \in Runs, i \in Records : KeyOf[i] = k /\ Acts(r, i)
      BY <2>1, <2>2, <3>2, ActPromise
    <3> QED
      BY <2>2, <3>1, <3>2 DEF OnlookersKept
  <2> QED
    BY <2>2, <2>3 DEF Abstract!Next, KeyPromise
<1> QED
  BY FullInvariance, <1>1, <1>2, PTL DEF Spec, Promise, Abstract!Spec

=============================================================================
