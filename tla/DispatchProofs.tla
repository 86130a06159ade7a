---------------------------- MODULE DispatchProofs ----------------------------
(***************************************************************************)
(* Proofs about Dispatch, for any number of chunks and any pool: its types *)
(* and what a step reports of its chunks.                                  *)
(***************************************************************************)
EXTENDS Dispatch, FiniteSetTheorems, TLAPS

(* Where the dispatcher is tells what it has offered: the chunks before    *)
(* next were handed to a worker or skipped, no other was touched.          *)
Offered ==
  /\ dpc = "send" => next <= Chunks
  /\ \A w \in Workers : work[w] # 0 => work[w] < next
  /\ \A c \in 1..Chunks : c >= next => fate[c] = "waiting"
  /\ \A c \in 1..Chunks :
       c < next /\ fate[c] = "waiting" /\ ~stop => \E w \in Workers : work[w] = c
  /\ dpc \in {"wait", "count", "done"} => next > Chunks \/ stop \/ cancelled
  /\ cancelled => interrupted

(* Nobody is at work once the workers are joined.                          *)
Joined == dpc \in {"count", "done"} => \A w \in Workers : wpc[w] = "exited"

(* A chunk is in a session only once its worker has looked at stop.        *)
Taken == \A w \in Workers : wpc[w] = "took" => fate[work[w]] = "waiting"

(* The flags say what became of the chunks.                                *)
Flags ==
  /\ stop <=> Spent
  /\ \A c \in 1..Chunks : /\ fate[c] = "stopped" => stopped
                          /\ fate[c] \in {"crashed", "error"} => fatal
Lates == \A c \in late : fate[c] = "waiting" /\ stop

(* What dispatch returned is what it found when the pool had drained.      *)
Reported ==
  /\ dpc # "done" => result = "none"
  /\ dpc = "done" =>
       /\ result = Outcome
       /\ stopped => notSent = Cardinality({c \in 1..Chunks : fate[c] = "waiting"})

IInv == TypeOK /\ Offered /\ Joined /\ Taken /\ Flags /\ Lates /\ Reported

(* The invariant holds when dispatch is called.                            *)
LEMMA InitIInv ==
  ASSUME DispatchAssumption, Init
  PROVE  IInv
<1>1. TypeOK
  <2>1. {cancelled, interrupted, stop, stopped, fatal} \subseteq BOOLEAN
    BY DEF Init
  <2>2. /\ dpc \in {"loop", "send", "wait", "count", "done"} /\ next \in 1..Chunks + 1
        /\ notSent \in 0..Chunks /\ result \in {"none", "ok", "failed", "stopped", "interrupted"}
        /\ late \subseteq 1..Chunks
    BY DEF DispatchAssumption, Init
  <2>3. /\ wpc  \in [Workers -> {"idle", "took", "log", "session", "exited"}]
        /\ work \in [Workers -> 0..Chunks]
        /\ fate \in [1..Chunks -> {"waiting", "session"} \cup Ended]
    BY DEF DispatchAssumption, Init
  <2>4. /\ \A w \in Workers : work[w] = 0 <=> wpc[w] \in {"idle", "exited"}
        /\ \A v, w \in Workers : work[v] = work[w] /\ work[v] # 0 => v = w
        /\ \A c \in 1..Chunks : fate[c] = "session" <=>
             \E w \in Workers : work[w] = c /\ wpc[w] \in {"log", "session"}
    BY DEF Init
  <2> QED
    BY <2>1, <2>2, <2>3, <2>4 DEF TypeOK
<1>2. Offered /\ Joined /\ Taken /\ Flags /\ Lates /\ Reported
  BY DEF DispatchAssumption, Init, Offered, Joined, Taken, Flags, Spent, Lates, Reported
<1> QED
  BY <1>1, <1>2 DEF IInv

(* The chunks are counted in two parts: those that wait and the others.     *)
LEMMA WaitingCount ==
  ASSUME DispatchAssumption
  PROVE  /\ Cardinality({c \in 1..Chunks : fate[c] = "waiting"}) \in 0..Chunks
         /\ Cardinality({c \in 1..Chunks : fate[c] = "waiting"})
              + Cardinality({c \in 1..Chunks : fate[c] # "waiting"}) = Chunks
<1> DEFINE W == {c \in 1..Chunks : fate[c] = "waiting"}
           E == {c \in 1..Chunks : fate[c] # "waiting"}
<1>1. IsFiniteSet(1..Chunks) /\ Cardinality(1..Chunks) = Chunks
  BY FS_Interval DEF DispatchAssumption
<1>2. W \subseteq 1..Chunks /\ E = (1..Chunks) \ W
  OBVIOUS
<1> HIDE DEF W, E
<1>3. IsFiniteSet(W) /\ Cardinality(W) \in Nat /\ Cardinality(W) <= Chunks
  BY <1>1, <1>2, FS_Subset, FS_CardinalityType
<1>4. IsFiniteSet(E) /\ Cardinality(E) = Chunks - Cardinality(W)
  <2>1. (1..Chunks) \cap W = W
    BY <1>2, Zenon
  <2>2. /\ IsFiniteSet((1..Chunks) \ W)
        /\ Cardinality((1..Chunks) \ W)
             = Cardinality(1..Chunks) - Cardinality((1..Chunks) \cap W)
    BY <1>1, FS_Difference, Zenon
  <2> QED
    BY <1>1, <1>2, <2>1, <2>2
<1>5. Cardinality(W) \in 0..Chunks /\ Cardinality(W) + Cardinality(E) = Chunks
  BY <1>3, <1>4 DEF DispatchAssumption
<1> QED
  BY <1>5 DEF W, E

(* Every step keeps the invariant.                                         *)
LEMMA NextIInv ==
  ASSUME DispatchAssumption, IInv, [Next]_vars
  PROVE  IInv'
<1> USE DEF DispatchAssumption, IInv, TypeOK, Ended
<1>1. ASSUME Offer PROVE IInv'
  <2>1. TypeOK'
    BY <1>1 DEF Offer, Pool
  <2>2. Offered'
    BY <1>1 DEF Offer, Pool, Offered, Flags, Taken
  <2>3. Joined'
    BY <1>1 DEF Offer, Pool, Joined
  <2>4. Taken'
    BY <1>1 DEF Offer, Pool, Taken, Offered
  <2>5. Flags'
    BY <1>1 DEF Offer, Pool, Flags, Spent, Taken
  <2>6. Lates'
    BY <1>1 DEF Offer, Pool, Lates, Flags, Offered, Taken
  <2>7. Reported'
    BY <1>1 DEF Offer, Pool, Reported, Outcome, Joined
  <2> QED
    BY <2>1, <2>2, <2>3, <2>4, <2>5, <2>6, <2>7
<1>2. ASSUME NEW w \in Workers, Send(w) PROVE IInv'
  <2>1. TypeOK'
    <3>1. /\ next \in 1..Chunks /\ next' \in 1..Chunks + 1 /\ late' \subseteq 1..Chunks
          /\ \A v \in Workers : work[v] # next
      BY <1>2 DEF Send, Offered
    <3>2. fate[next] = "waiting"
      BY <1>2, <3>1 DEF Offered
    <3>3. /\ work' = [work EXCEPT ![w] = next] /\ wpc' = [wpc EXCEPT ![w] = "took"]
          /\ wpc[w] = "idle" /\ dpc' = "loop"
          /\ UNCHANGED <<cancelled, fate, interrupted, stop, stopped, fatal, notSent, result>>
      BY <1>2 DEF Send, Idle
    <3>4. /\ \A v \in Workers : work'[v] = 0 <=> wpc'[v] \in {"idle", "exited"}
          /\ \A u, v \in Workers : work'[u] = work'[v] /\ work'[u] # 0 => u = v
          /\ \A c \in 1..Chunks : fate'[c] = "session" <=>
               \E v \in Workers : work'[v] = c /\ wpc'[v] \in {"log", "session"}
      BY <3>1, <3>2, <3>3
    <3> QED
      BY <3>1, <3>3, <3>4
  <2>2. Offered'
    BY <1>2 DEF Send, Idle, Offered, Flags, Taken
  <2>3. Joined'
    BY <1>2 DEF Send, Idle, Joined
  <2>4. Taken'
    BY <1>2 DEF Send, Idle, Taken, Offered
  <2>5. Flags'
    BY <1>2 DEF Send, Idle, Flags, Spent, Taken
  <2>6. Lates'
    BY <1>2 DEF Send, Idle, Lates, Flags, Offered, Taken
  <2>7. Reported'
    BY <1>2 DEF Send, Idle, Reported, Outcome, Joined
  <2> QED
    BY <2>1, <2>2, <2>3, <2>4, <2>5, <2>6, <2>7
<1>3. ASSUME SeeStop PROVE IInv'
  <2>1. TypeOK'
    <3>1. next' \in 1..Chunks + 1
      BY <1>3 DEF SeeStop, Offered
    <3> QED
      BY <1>3, <3>1 DEF SeeStop, Pool
  <2>2. Offered'
    BY <1>3 DEF SeeStop, Pool, Offered, Flags, Taken
  <2>3. Joined'
    BY <1>3 DEF SeeStop, Pool, Joined
  <2>4. Taken'
    BY <1>3 DEF SeeStop, Pool, Taken, Offered
  <2>5. Flags'
    BY <1>3 DEF SeeStop, Pool, Flags, Spent, Taken
  <2>6. Lates'
    BY <1>3 DEF SeeStop, Pool, Lates, Flags, Offered, Taken
  <2>7. Reported'
    BY <1>3 DEF SeeStop, Pool, Reported, Outcome, Joined
  <2> QED
    BY <2>1, <2>2, <2>3, <2>4, <2>5, <2>6, <2>7
<1>4. ASSUME SeeInterrupt PROVE IInv'
  <2>1. TypeOK'
    BY <1>4 DEF SeeInterrupt, Pool
  <2>2. Offered'
    BY <1>4 DEF SeeInterrupt, Pool, Offered, Flags, Taken
  <2>3. Joined'
    BY <1>4 DEF SeeInterrupt, Pool, Joined
  <2>4. Taken'
    BY <1>4 DEF SeeInterrupt, Pool, Taken, Offered
  <2>5. Flags'
    BY <1>4 DEF SeeInterrupt, Pool, Flags, Spent, Taken
  <2>6. Lates'
    BY <1>4 DEF SeeInterrupt, Pool, Lates, Flags, Offered, Taken
  <2>7. Reported'
    BY <1>4 DEF SeeInterrupt, Pool, Reported, Outcome, Joined
  <2> QED
    BY <2>1, <2>2, <2>3, <2>4, <2>5, <2>6, <2>7
<1>5. ASSUME Join PROVE IInv'
  <2>1. TypeOK'
    BY <1>5 DEF Join, Pool
  <2>2. Offered'
    BY <1>5 DEF Join, Pool, Offered, Flags, Taken
  <2>3. Joined'
    BY <1>5 DEF Join, Pool, Joined
  <2>4. Taken'
    BY <1>5 DEF Join, Pool, Taken, Offered
  <2>5. Flags'
    BY <1>5 DEF Join, Pool, Flags, Spent, Taken
  <2>6. Lates'
    BY <1>5 DEF Join, Pool, Lates, Flags, Offered, Taken
  <2>7. Reported'
    BY <1>5 DEF Join, Pool, Reported, Outcome, Joined
  <2> QED
    BY <2>1, <2>2, <2>3, <2>4, <2>5, <2>6, <2>7
<1>6. ASSUME Finish PROVE IInv'
  <2>1. TypeOK'
    <3>1. notSent' \in 0..Chunks
      <4> DEFINE waiting == Cardinality({c \in 1..Chunks : fate[c] = "waiting"})
      <4>1. waiting \in 0..Chunks
        BY WaitingCount, Zenon
      <4>2. notSent' = waiting \/ notSent' = 0
        BY <1>6, Zenon DEF Finish
      <4>3. 0 \in 0..Chunks
        OBVIOUS
      <4> QED
        BY <4>1, <4>2, <4>3, Zenon
    <3>2. result' \in {"none", "ok", "failed", "stopped", "interrupted"}
      BY <1>6 DEF Finish, Outcome
    <3> QED
      BY <1>6, <3>1, <3>2 DEF Finish, Pool
  <2>2. Offered'
    BY <1>6 DEF Finish, Pool, Offered, Flags, Taken
  <2>3. Joined'
    BY <1>6 DEF Finish, Pool, Joined
  <2>4. Taken'
    BY <1>6 DEF Finish, Pool, Taken, Offered
  <2>5. Flags'
    BY <1>6 DEF Finish, Pool, Flags, Spent, Taken
  <2>6. Lates'
    BY <1>6 DEF Finish, Pool, Lates, Flags, Offered, Taken
  <2>7. Reported'
    BY <1>6 DEF Finish, Pool, Reported, Outcome, Joined
  <2> QED
    BY <2>1, <2>2, <2>3, <2>4, <2>5, <2>6, <2>7
<1>7. ASSUME NEW w \in Workers, Take(w) PROVE IInv'
  <2>1. TypeOK'
    <3>1. CASE stop
      <4>1. /\ wpc' = [wpc EXCEPT ![w] = "idle"] /\ work' = [work EXCEPT ![w] = 0]
            /\ wpc[w] = "took" /\ UNCHANGED <<fate, stop, stopped, fatal>> /\ Frame
        BY <1>7, <3>1 DEF Take
      <4>2. \A c \in 1..Chunks : fate'[c] = "session" <=>
               \E v \in Workers : work'[v] = c /\ wpc'[v] \in {"log", "session"}
        BY <4>1
      <4>3. \A u, v \in Workers : work'[u] = work'[v] /\ work'[u] # 0 => u = v
        BY <4>1
      <4> QED
        BY <4>1, <4>2, <4>3 DEF Frame
    <3>2. CASE ~stop
      <4>1. /\ fate' = [fate EXCEPT ![work[w]] = "session"] /\ wpc' = [wpc EXCEPT ![w] = "log"]
            /\ UNCHANGED <<work, stop, stopped, fatal>> /\ Frame
        BY <1>7, <3>2 DEF Take
      <4>2. work[w] \in 1..Chunks
        BY <1>7 DEF Take
      <4>3. \A c \in 1..Chunks : fate'[c] = "session" <=>
               \E v \in Workers : work'[v] = c /\ wpc'[v] \in {"log", "session"}
        BY <1>7, <4>1, <4>2 DEF Take
      <4> QED
        BY <1>7, <4>1, <4>2, <4>3 DEF Take, Frame
    <3> QED
      BY <3>1, <3>2
  <2>2. Offered'
    BY <1>7 DEF Take, Frame, Offered, Flags, Taken
  <2>3. Joined'
    BY <1>7 DEF Take, Frame, Joined
  <2>4. Taken'
    BY <1>7 DEF Take, Frame, Taken, Offered
  <2>5. Flags'
    BY <1>7 DEF Take, Frame, Flags, Spent, Taken
  <2>6. Lates'
    BY <1>7 DEF Take, Frame, Lates, Flags, Offered, Taken
  <2>7. Reported'
    BY <1>7 DEF Take, Frame, Reported, Outcome, Joined
  <2> QED
    BY <2>1, <2>2, <2>3, <2>4, <2>5, <2>6, <2>7
<1>8. ASSUME NEW w \in Workers, OpenSession(w) PROVE IInv'
  <2>1. TypeOK'
    BY <1>8 DEF OpenSession, Frame
  <2>2. Offered'
    BY <1>8 DEF OpenSession, Frame, Offered, Flags, Taken
  <2>3. Joined'
    BY <1>8 DEF OpenSession, Frame, Joined
  <2>4. Taken'
    BY <1>8 DEF OpenSession, Frame, Taken, Offered
  <2>5. Flags'
    BY <1>8 DEF OpenSession, Frame, Flags, Spent, Taken
  <2>6. Lates'
    BY <1>8 DEF OpenSession, Frame, Lates, Flags, Offered, Taken
  <2>7. Reported'
    BY <1>8 DEF OpenSession, Frame, Reported, Outcome, Joined
  <2> QED
    BY <2>1, <2>2, <2>3, <2>4, <2>5, <2>6, <2>7
<1>9. ASSUME NEW w \in Workers, Answered(w) PROVE IInv'
  <2>1. TypeOK'
    BY <1>9 DEF Answered, End, Frame
  <2>2. Offered'
    BY <1>9 DEF Answered, End, Frame, Offered, Flags, Taken
  <2>3. Joined'
    BY <1>9 DEF Answered, End, Frame, Joined
  <2>4. Taken'
    BY <1>9 DEF Answered, End, Frame, Taken, Offered
  <2>5. Flags'
    BY <1>9 DEF Answered, End, Frame, Flags, Spent, Taken
  <2>6. Lates'
    BY <1>9 DEF Answered, End, Frame, Lates, Flags, Offered, Taken
  <2>7. Reported'
    BY <1>9 DEF Answered, End, Frame, Reported, Outcome, Joined
  <2> QED
    BY <2>1, <2>2, <2>3, <2>4, <2>5, <2>6, <2>7
<1>10. ASSUME NEW w \in Workers, SessionCrash(w) PROVE IInv'
  <2>1. TypeOK'
    BY <1>10 DEF SessionCrash, End, Frame
  <2>2. Offered'
    BY <1>10 DEF SessionCrash, End, Frame, Offered, Flags, Taken
  <2>3. Joined'
    BY <1>10 DEF SessionCrash, End, Frame, Joined
  <2>4. Taken'
    BY <1>10 DEF SessionCrash, End, Frame, Taken, Offered
  <2>5. Flags'
    BY <1>10 DEF SessionCrash, End, Frame, Flags, Spent, Taken
  <2>6. Lates'
    BY <1>10 DEF SessionCrash, End, Frame, Lates, Flags, Offered, Taken
  <2>7. Reported'
    BY <1>10 DEF SessionCrash, End, Frame, Reported, Outcome, Joined
  <2> QED
    BY <2>1, <2>2, <2>3, <2>4, <2>5, <2>6, <2>7
<1>11. ASSUME NEW w \in Workers, StepStop(w) PROVE IInv'
  <2>1. TypeOK'
    BY <1>11 DEF StepStop, End, Frame
  <2>2. Offered'
    BY <1>11 DEF StepStop, End, Frame, Offered, Flags, Taken
  <2>3. Joined'
    BY <1>11 DEF StepStop, End, Frame, Joined
  <2>4. Taken'
    BY <1>11 DEF StepStop, End, Frame, Taken, Offered
  <2>5. Flags'
    BY <1>11 DEF StepStop, End, Frame, Flags, Spent, Taken
  <2>6. Lates'
    BY <1>11 DEF StepStop, End, Frame, Lates, Flags, Offered, Taken
  <2>7. Reported'
    BY <1>11 DEF StepStop, End, Frame, Reported, Outcome, Joined
  <2> QED
    BY <2>1, <2>2, <2>3, <2>4, <2>5, <2>6, <2>7
<1>12. ASSUME NEW w \in Workers, ChunkError(w) PROVE IInv'
  <2>1. TypeOK'
    BY <1>12 DEF ChunkError, End, Frame
  <2>2. Offered'
    BY <1>12 DEF ChunkError, End, Frame, Offered, Flags, Taken
  <2>3. Joined'
    BY <1>12 DEF ChunkError, End, Frame, Joined
  <2>4. Taken'
    BY <1>12 DEF ChunkError, End, Frame, Taken, Offered
  <2>5. Flags'
    BY <1>12 DEF ChunkError, End, Frame, Flags, Spent, Taken
  <2>6. Lates'
    BY <1>12 DEF ChunkError, End, Frame, Lates, Flags, Offered, Taken
  <2>7. Reported'
    BY <1>12 DEF ChunkError, End, Frame, Reported, Outcome, Joined
  <2> QED
    BY <2>1, <2>2, <2>3, <2>4, <2>5, <2>6, <2>7
<1>13. ASSUME NEW w \in Workers, Exit(w) PROVE IInv'
  <2>1. TypeOK'
    BY <1>13 DEF Exit, Idle, Frame
  <2>2. Offered'
    BY <1>13 DEF Exit, Idle, Frame, Offered, Flags, Taken
  <2>3. Joined'
    BY <1>13 DEF Exit, Idle, Frame, Joined
  <2>4. Taken'
    BY <1>13 DEF Exit, Idle, Frame, Taken, Offered
  <2>5. Flags'
    BY <1>13 DEF Exit, Idle, Frame, Flags, Spent, Taken
  <2>6. Lates'
    BY <1>13 DEF Exit, Idle, Frame, Lates, Flags, Offered, Taken
  <2>7. Reported'
    BY <1>13 DEF Exit, Idle, Frame, Reported, Outcome, Joined
  <2> QED
    BY <2>1, <2>2, <2>3, <2>4, <2>5, <2>6, <2>7
<1>14. ASSUME Interrupt PROVE IInv'
  <2>1. TypeOK'
    BY <1>14 DEF Interrupt, Pool
  <2>2. Offered'
    BY <1>14 DEF Interrupt, Pool, Offered, Flags, Taken
  <2>3. Joined'
    BY <1>14 DEF Interrupt, Pool, Joined
  <2>4. Taken'
    BY <1>14 DEF Interrupt, Pool, Taken, Offered
  <2>5. Flags'
    BY <1>14 DEF Interrupt, Pool, Flags, Spent, Taken
  <2>6. Lates'
    BY <1>14 DEF Interrupt, Pool, Lates, Flags, Offered, Taken
  <2>7. Reported'
    BY <1>14 DEF Interrupt, Pool, Reported, Outcome, Joined
  <2> QED
    BY <2>1, <2>2, <2>3, <2>4, <2>5, <2>6, <2>7
<1>15. CASE UNCHANGED vars
  BY <1>15 DEF vars, Offered, Joined, Taken, Flags, Spent, Lates, Reported, Outcome
<1> QED
  BY <1>1, <1>2, <1>3, <1>4, <1>5, <1>6, <1>7, <1>8, <1>9, <1>10, <1>11, <1>12, <1>13, <1>14, <1>15 DEF Next, Dispatcher, Worker, Returned

(* The invariant accounts for the chunks.                                  *)
LEMMA IInvAccounts ==
  ASSUME DispatchAssumption, IInv
  PROVE  PoolAccounts
<1> USE DEF DispatchAssumption, IInv
<1>1. StopIsFinal
  BY DEF Lates, StopIsFinal
<1>2. dpc = "done" => \A c \in 1..Chunks : fate[c] # "session" /\ fate[c] \in {"waiting"} \cup Ended
  BY DEF Joined, TypeOK
<1>3. StepLineAddsUp
  <2> SUFFICES ASSUME dpc = "done", result = "stopped"
               PROVE  notSent + Cardinality({c \in 1..Chunks : fate[c] \in Ended}) = Chunks
    BY <1>2 DEF StepLineAddsUp
  <2>1. stopped /\ notSent = Cardinality({c \in 1..Chunks : fate[c] = "waiting"})
    BY DEF Reported, Outcome
  <2>2. {c \in 1..Chunks : fate[c] \in Ended} = {c \in 1..Chunks : fate[c] # "waiting"}
    BY <1>2 DEF Ended
  <2> QED
    BY <2>1, <2>2, WaitingCount
<1>4. dpc = "done" /\ ~stop /\ ~cancelled => \A c \in 1..Chunks : fate[c] # "waiting"
  <2> SUFFICES ASSUME dpc = "done", ~stop, ~cancelled, NEW c \in 1..Chunks, fate[c] = "waiting"
               PROVE  FALSE
    OBVIOUS
  <2>1. c < next
    BY DEF Offered, TypeOK
  <2>2. PICK w \in Workers : work[w] = c
    BY <2>1 DEF Offered
  <2> QED
    BY <2>2 DEF Joined, TypeOK
<1>5. OkMeansAllAnswered
  <2> SUFFICES ASSUME result = "ok", NEW c \in 1..Chunks PROVE fate[c] = "answered"
    BY DEF OkMeansAllAnswered
  <2>1. dpc = "done" /\ ~stopped /\ ~fatal /\ ~cancelled
    BY DEF Reported, Outcome
  <2>2. ~stop
    BY <2>1 DEF Flags, Spent
  <2> QED
    BY <1>2, <1>4, <2>1, <2>2 DEF Flags, Ended
<1>6. CrashesLeaveNothing
  BY <1>2, <1>4 DEF CrashesLeaveNothing, Flags, Offered, Spent, Ended
<1> QED
  BY <1>1, <1>3, <1>5, <1>6 DEF PoolAccounts

(* Whatever its chunks and its pool: the invariant holds of every step.    *)
THEOREM Invariance == ASSUME DispatchAssumption PROVE Spec => []IInv
<1>1. Init => IInv
  BY InitIInv
<1>2. IInv /\ [Next]_vars => IInv'
  BY NextIInv
<1> QED
  BY <1>1, <1>2, PTL DEF Spec

(* A worker has the chunk it says it has, and no two have the same one.    *)
THEOREM TypeCorrect == ASSUME DispatchAssumption PROVE Spec => []TypeOK
<1>1. IInv => TypeOK
  BY DEF IInv
<1> QED
  BY <1>1, Invariance, PTL

(* What a step reports of its chunks is what became of them: a chunk taken *)
(* after a stop opens no session, the step line adds up, ok means that     *)
(* every chunk was answered, and a crash alone leaves none waiting.        *)
THEOREM Accounts == ASSUME DispatchAssumption PROVE Spec => []PoolAccounts
<1>1. IInv => PoolAccounts
  BY IInvAccounts
<1> QED
  BY <1>1, Invariance, PTL
=============================================================================
