------------------------------ MODULE Dispatch ------------------------------
(***************************************************************************)
(* The worker pool of a step (internal/runner/step.go, dispatch): one      *)
(* dispatcher hands chunks of records to workers over an unbuffered        *)
(* channel, each worker runs a session for each chunk it takes.  Sessions  *)
(* crash, stop the step, or meet an error of the runner's own, and the     *)
(* operator interrupts.                                                    *)
(*                                                                         *)
(* What a session does with its records is Delivery's subject; here a      *)
(* chunk is only waiting, in a session, or settled by the way it ended.    *)
(***************************************************************************)
EXTENDS Naturals, FiniteSets

CONSTANTS
  Chunks,  \* how many chunks the step has, numbered in dispatch order
  Workers  \* the pool, no larger than the chunks

DispatchAssumption ==
  /\ Chunks \in Nat \ {0}
  /\ IsFiniteSet(Workers) /\ Cardinality(Workers) \in 1..Chunks

VARIABLES
  dpc,        \* the dispatcher: "loop", "send", "wait", "count", "done"
  next,       \* the chunk it offers next
  cancelled,  \* it leaves through ctx.Done
  wpc,        \* each worker: "idle", "took", "log", "session", "exited"
  work,       \* the chunk each worker has, 0 for none
  fate,       \* "waiting", "session", or how the chunk ended
  interrupted,\* the context is cancelled
  stop,       \* the stop channel is closed
  stopped,    \* a session stopped the step
  fatal,      \* the first error of a chunk is kept
  notSent,    \* chunks the step line counts as not sent
  result,     \* what dispatch returned
  \* history, for the properties
  late        \* chunks taken after one that ended the step

vars == <<dpc, next, cancelled, wpc, work, fate, interrupted, stop, stopped,
          fatal, notSent, result, late>>

Ended == {"answered", "crashed", "stopped", "error"}
Idle(w) == wpc[w] = "idle"

(* A chunk has ended in a way every further chunk would share.             *)
Spent == \E c \in 1..Chunks : fate[c] \in {"stopped", "error"}

Init ==
  /\ dpc  = "loop"
  /\ next = 1
  /\ cancelled = FALSE
  /\ wpc  = [w \in Workers |-> "idle"]
  /\ work = [w \in Workers |-> 0]
  /\ fate = [c \in 1..Chunks |-> "waiting"]
  /\ interrupted = FALSE
  /\ stop    = FALSE
  /\ stopped = FALSE
  /\ fatal   = FALSE
  /\ notSent = 0
  /\ result  = "none"
  /\ late    = {}

-----------------------------------------------------------------------------
(* The dispatcher.                                                         *)

Pool == <<wpc, work, fate, stop, stopped, fatal, late>>

(* The loop: no chunk is left, or the step is halted, or one is offered.   *)
Offer ==
  /\ dpc = "loop"
  /\ dpc' = IF next > Chunks \/ stop THEN "wait" ELSE "send"
  /\ UNCHANGED <<next, cancelled, interrupted, notSent, result, Pool>>

(* queue <- c meets a worker.  After it the dispatcher does not look back: *)
(* whether the chunk comes to a session is for the worker.                 *)
Send(w) ==
  /\ dpc = "send" /\ Idle(w)
  /\ dpc'  = "loop"
  /\ next' = next + 1
  /\ wpc'  = [wpc EXCEPT ![w] = "took"]
  /\ work' = [work EXCEPT ![w] = next]
  /\ late' = IF Spent THEN late \cup {next} ELSE late
  /\ UNCHANGED <<cancelled, fate, interrupted, stop, stopped, fatal, notSent, result>>

(* <-stop: the chunk stays where it is.                                    *)
SeeStop ==
  /\ dpc = "send" /\ stop
  /\ dpc'  = "loop"
  /\ next' = next + 1
  /\ UNCHANGED <<cancelled, interrupted, notSent, result, Pool>>

(* <-ctx.Done(): no further chunk is offered.                              *)
SeeInterrupt ==
  /\ dpc = "send" /\ interrupted
  /\ dpc' = "wait"
  /\ cancelled' = TRUE
  /\ UNCHANGED <<next, interrupted, notSent, result, Pool>>

(* Mutant of Join: the workers are not waited for.                         *)
JoinNobody ==
  /\ dpc = "wait"
  /\ dpc' = "count"
  /\ UNCHANGED <<next, cancelled, interrupted, notSent, result, Pool>>

(* close(queue) and wg.Wait().                                             *)
Join ==
  /\ dpc = "wait"
  /\ \A w \in Workers : wpc[w] = "exited"
  /\ dpc' = "count"
  /\ UNCHANGED <<next, cancelled, interrupted, notSent, result, Pool>>

(* The step's result: a stop outranks an error, an error an interrupt.     *)
Outcome ==
  CASE stopped   -> "stopped"
    [] fatal     -> "failed"
    [] cancelled -> "interrupted"
    [] OTHER     -> "ok"

(* finish, stepStopped: what was never dispatched is counted.              *)
Finish ==
  /\ dpc = "count"
  /\ dpc' = "done"
  /\ result'  = Outcome
  /\ notSent' = IF stopped THEN Cardinality({c \in 1..Chunks : fate[c] = "waiting"}) ELSE 0
  /\ UNCHANGED <<next, cancelled, interrupted, Pool>>

-----------------------------------------------------------------------------
(* A worker.                                                               *)

Frame == UNCHANGED <<dpc, next, cancelled, interrupted, notSent, result, late>>

(* halted(): a chunk taken after the stop is dropped, any other is         *)
(* processChunk's from here on.                                            *)
Take(w) ==
  /\ wpc[w] = "took"
  /\ IF stop
       THEN /\ wpc'  = [wpc EXCEPT ![w] = "idle"]
            /\ work' = [work EXCEPT ![w] = 0]
            /\ UNCHANGED fate
       ELSE /\ wpc'  = [wpc EXCEPT ![w] = "log"]
            /\ fate' = [fate EXCEPT ![work[w]] = "session"]
            /\ UNCHANGED work
  /\ UNCHANGED <<stop, stopped, fatal>> /\ Frame

(* The claimed and dispatched events are written and the session opens;    *)
(* a cancelled context fails the write.                                    *)
OpenSession(w) ==
  /\ wpc[w] = "log" /\ ~interrupted
  /\ wpc' = [wpc EXCEPT ![w] = "session"]
  /\ UNCHANGED <<work, fate, stop, stopped, fatal>> /\ Frame

(* The worker is rid of its chunk, which ended as e.                       *)
End(w, e) ==
  /\ fate' = [fate EXCEPT ![work[w]] = e]
  /\ wpc'  = [wpc EXCEPT ![w] = "idle"]
  /\ work' = [work EXCEPT ![w] = 0]

(* processChunk returns nil.                                               *)
Answered(w) ==
  /\ wpc[w] = "session"
  /\ End(w, "answered")
  /\ UNCHANGED <<stop, stopped, fatal>> /\ Frame

(* Mutant of SessionCrash: the worker that met the crash leaves.           *)
CrashLeaves(w) ==
  /\ wpc[w] = "session"
  /\ fate' = [fate EXCEPT ![work[w]] = "crashed"]
  /\ wpc'  = [wpc EXCEPT ![w] = "exited"]
  /\ work' = [work EXCEPT ![w] = 0]
  /\ fatal' = TRUE
  /\ UNCHANGED <<stop, stopped>> /\ Frame

(* sessionCrash: the step will fail, the pool keeps draining.              *)
SessionCrash(w) ==
  /\ wpc[w] = "session"
  /\ End(w, "crashed")
  /\ fatal' = TRUE
  /\ UNCHANGED <<stop, stopped>> /\ Frame

(* stepStop: fail_run, or a failed authentication.                         *)
StepStop(w) ==
  /\ wpc[w] = "session"
  /\ End(w, "stopped")
  /\ stopped' = TRUE
  /\ stop'    = TRUE
  /\ UNCHANGED fatal /\ Frame

(* Mutant of ChunkError: taken for the adapter's failure.                  *)
ChunkErrorGoesOn(w) ==
  /\ wpc[w] \in {"log", "session"}
  /\ End(w, "error")
  /\ fatal' = TRUE
  /\ UNCHANGED <<stop, stopped>> /\ Frame

(* The ledger or the runner failed, before the session or in it.           *)
ChunkError(w) ==
  /\ wpc[w] \in {"log", "session"}
  /\ End(w, "error")
  /\ fatal' = TRUE
  /\ stop'  = TRUE
  /\ UNCHANGED stopped /\ Frame

(* range queue ends once the queue is closed.                              *)
Exit(w) ==
  /\ Idle(w) /\ dpc \in {"wait", "count", "done"}
  /\ wpc' = [wpc EXCEPT ![w] = "exited"]
  /\ UNCHANGED <<work, fate, stop, stopped, fatal>> /\ Frame

-----------------------------------------------------------------------------
(* Ctrl-C.                                                                 *)
Interrupt ==
  /\ ~interrupted /\ dpc # "done"
  /\ interrupted' = TRUE
  /\ UNCHANGED <<dpc, next, cancelled, notSent, result, Pool>>

Dispatcher == Offer \/ (\E w \in Workers : Send(w)) \/ SeeStop \/ SeeInterrupt
                \/ Join \/ Finish

Worker(w) == \/ Take(w) \/ OpenSession(w) \/ Answered(w) \/ SessionCrash(w)
             \/ StepStop(w) \/ ChunkError(w) \/ Exit(w)

(* dispatch has returned.                                                  *)
Returned == dpc = "done" /\ UNCHANGED vars

Next == Dispatcher \/ (\E w \in Workers : Worker(w)) \/ Interrupt \/ Returned

(* Goroutines are scheduled, and a session ends: the adapter answers, its  *)
(* process exits, or its timeout or the interrupt kills it.                *)
Fairness == WF_vars(Dispatcher) /\ \A w \in Workers : WF_vars(Worker(w))

Spec == Init /\ [][Next]_vars /\ Fairness

-----------------------------------------------------------------------------
(* Properties.                                                             *)

(* Types; a worker has a chunk exactly while it says so, and no two the    *)
(* same one.                                                               *)
TypeOK ==
  /\ dpc \in {"loop", "send", "wait", "count", "done"}
  /\ next \in 1..Chunks + 1
  /\ wpc  \in [Workers -> {"idle", "took", "log", "session", "exited"}]
  /\ work \in [Workers -> 0..Chunks]
  /\ fate \in [1..Chunks -> {"waiting", "session"} \cup Ended]
  /\ {cancelled, interrupted, stop, stopped, fatal} \subseteq BOOLEAN
  /\ notSent \in 0..Chunks
  /\ result \in {"none", "ok", "failed", "stopped", "interrupted"}
  /\ late \subseteq 1..Chunks
  /\ \A w \in Workers : work[w] = 0 <=> wpc[w] \in {"idle", "exited"}
  /\ \A v, w \in Workers : work[v] = work[w] /\ work[v] # 0 => v = w
  /\ \A c \in 1..Chunks : fate[c] = "session" <=>
       \E w \in Workers : work[w] = c /\ wpc[w] \in {"log", "session"}

(* #82, ADR-065: a chunk taken after one that stopped the step or met an   *)
(* error of the runner's never opens a session, so nothing more is billed  *)
(* that cannot be recorded.                                                *)
StopIsFinal == \A c \in late : fate[c] = "waiting"

(* step.go, stepStopped: the step line adds up.  When dispatch returns no  *)
(* session of the step is left, and what a stopped step counts as not sent *)
(* is what has no outcome and never gets one.                              *)
StepLineAddsUp ==
  dpc = "done" =>
    /\ \A c \in 1..Chunks : fate[c] # "session"
    /\ result = "stopped" =>
         notSent + Cardinality({c \in 1..Chunks : fate[c] \in Ended}) = Chunks

(* No chunk is dropped in silence: a step is reported ok only when every   *)
(* chunk was answered.                                                     *)
OkMeansAllAnswered == result = "ok" => \A c \in 1..Chunks : fate[c] = "answered"

(* #77: a crashed chunk costs no other chunk its session.  Only a stop, an *)
(* error of the runner's or an interrupt leaves chunks waiting.            *)
CrashesLeaveNothing ==
  dpc = "done" /\ ~Spent /\ ~interrupted =>
    \A c \in 1..Chunks : fate[c] \in {"answered", "crashed"}

(* What a step reports of its chunks is what became of them.               *)
PoolAccounts == StopIsFinal /\ StepLineAddsUp /\ OkMeansAllAnswered /\ CrashesLeaveNothing

(* #77: the pool drains: dispatch returns, whatever its sessions do.       *)
Returns == <>(dpc = "done")
=============================================================================
