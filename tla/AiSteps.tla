------------------------------- MODULE AiSteps -------------------------------
(***************************************************************************)
(* The sessions of one AI step over a batch of records (aisteps.go): one   *)
(* call per batch, one retry of an invalid answer, halves when a reply is  *)
(* cut off at max_tokens, and the deferred path, which submits to the      *)
(* provider's batch surface and is collected by a later session.           *)
(*                                                                         *)
(* A call costs one unit.  The model is external: it says anything, and    *)
(* parse decides what that is worth.                                       *)
(***************************************************************************)
EXTENDS Integers, Sequences, FiniteSets, Picks

CONSTANTS
  NRecords,     \* records of the step, 1 .. NRecords
  Steps,        \* [mode, fields, deferred, surface]: the step and its engine
  MaxSessions,  \* bound: sessions
  MaxOrphans    \* bound: submitted batches whose token was never recorded

Records == 1 .. NRecords
SetOf(s) == {s[i] : i \in DOMAIN s}
Stranger == 0
Values  == {"pass", "fail", "bad"}   \* "bad": no boolean, null, outside the enum

AiStepsAssumption ==
  /\ NRecords \in Nat \ {0} /\ MaxSessions \in Nat /\ MaxOrphans \in Nat
  /\ \A s \in Steps : /\ s.mode \in {"filter", "compose", "review"}
                      /\ {s.fields, s.deferred, s.surface} \subseteq BOOLEAN
                      /\ s.mode # "filter" => s.fields

VARIABLES
  step,      \* the step
  phase,     \* "idle" between sessions, "asking", "died"
  waiting,   \* records not answered yet and still offered to the step
  stack,     \* batches still to be asked, the current one first
  attempt,   \* 0, 1: the retry
  answers,   \* what the valid answers of this session say of each record
  dropped,   \* records cut off even as a batch of one
  messages,  \* the RECORD and VERDICT written for each record, over all sessions
  batch,     \* what the token recorded by PENDING stands for: results by record
  spent,     \* units the model charged
  billed,    \* units the COST messages reported
  sessions,  \* sessions opened
  meant,     \* history: the value the model gave each record in an accepted answer
  astray     \* history: [unseen, twice] units no COST, or two, report

vars == <<step, phase, waiting, stack, attempt, answers, dropped, messages, batch, spent,
          billed, sessions, meant, astray>>

NoBatch == [i \in {} |-> "none"]
Nothing == [i \in Records |-> "none"]
Processing == "processing"

Init ==
  /\ step \in Steps
  /\ phase = "idle" /\ waiting = Records /\ stack = <<>> /\ attempt = 0
  /\ answers = Nothing /\ dropped = {} /\ messages = [i \in Records |-> <<>>]
  /\ batch = NoBatch /\ spent = 0 /\ billed = 0 /\ sessions = 0
  /\ meant = Nothing /\ astray = [unseen |-> 0, twice |-> 0]

-----------------------------------------------------------------------------
(* What an answer is worth.                                                *)

(* decodeItems: an array, or an object whose only key holds one; an object *)
(* that is itself an element, for a batch of one.                          *)
Decodes(answer, n) == answer.form = "array" \/ (answer.form = "object" /\ n = 1)

(* parse, validateItem: one element for each record of the batch and for   *)
(* no other, each in the step's shape.                                     *)
Parses(answer, part) ==
  /\ Decodes(answer, Len(part))
  /\ answer.items # <<>>
  /\ \A k \in DOMAIN answer.items :
       /\ answer.items[k].key \in SetOf(part) /\ answer.items[k].value # "bad"
       /\ \A j \in 1 .. k - 1 : answer.items[j].key # answer.items[k].key
  /\ Len(answer.items) = Len(part)

ValueOf(answer, i) ==
  LET k == CHOOSE k \in DOMAIN answer.items : answer.items[k].key = i IN answer.items[k].value

Prose == [form |-> "prose", items |-> <<>>]
Items == [key : Records \cup {Stranger}, value : Values]
Answers(n) == [form : {"array"}, items : UNION {[1 .. m -> Items] : m \in 0 .. n}]
                \cup [form : {"object"}, items : [1 .. 1 -> Items]]
                \cup {Prose}

(* emit: RECORD when the shape has fields, then a filter's VERDICT.        *)
Emitted(i, v) ==
  (IF step.fields THEN <<<<"RECORD", v>>>> ELSE <<>>)
    \o (IF step.mode = "filter" THEN <<<<"VERDICT", v>>>> ELSE <<>>)
Emit(said) ==
  messages' = [i \in Records |->
                 IF said[i] = "none" THEN messages[i] ELSE messages[i] \o Emitted(i, said[i])]

-----------------------------------------------------------------------------
(* A session that asks.                                                    *)

Deferred == step.deferred /\ step.surface

Open ==
  /\ phase \in {"idle", "died"} /\ waiting # {} /\ sessions < MaxSessions /\ ~Deferred
  /\ sessions' = sessions + 1
  /\ phase' = "asking" /\ attempt' = 0
  /\ stack' = <<Picked([i \in Records |-> i], waiting)>>
  /\ answers' = Nothing /\ dropped' = {}
  /\ UNCHANGED <<step, waiting, messages, batch, spent, billed, meant, astray>>

(* ask writes the COST of every call that answered, whatever it is worth.  *)
Reported(cut) == 1

Charge(cut) == spent' = spent + 1 /\ billed' = billed + Reported(cut)

(* The engine's error: the session dies, nothing is emitted.  A refusal    *)
(* was charged, but comes back as an error and is reported by nothing.     *)
CallFails(refused) ==
  /\ phase = "asking" /\ stack # <<>>
  /\ phase' = "died" /\ stack' = <<>>
  /\ LET unit == IF refused THEN 1 ELSE 0
     IN spent' = spent + unit /\ astray' = [astray EXCEPT !.unseen = @ + unit]
  /\ UNCHANGED <<step, waiting, attempt, answers, dropped, messages, batch, billed, sessions,
                 meant>>

(* A valid answer: on to the next batch.                                   *)
Understood(answer) ==
  /\ phase = "asking" /\ stack # <<>> /\ Parses(answer, Head(stack))
  /\ Charge(FALSE)
  /\ LET given == [i \in Records |-> IF i \in SetOf(Head(stack)) THEN ValueOf(answer, i)
                                     ELSE answers[i]]
     IN  answers' = given /\ meant' = [i \in Records |->
           IF i \in SetOf(Head(stack)) THEN given[i] ELSE meant[i]]
  /\ stack' = Tail(stack) /\ attempt' = 0
  /\ UNCHANGED <<step, phase, waiting, dropped, messages, batch, sessions, astray>>

(* An invalid one: asked once more, with the error appended; then the      *)
(* whole session fails, the halves already answered with it.               *)
Misunderstood(answer) ==
  /\ phase = "asking" /\ stack # <<>> /\ ~Parses(answer, Head(stack))
  /\ Charge(FALSE)
  /\ IF attempt = 0 THEN attempt' = 1 /\ UNCHANGED <<phase, stack>>
                    ELSE phase' = "died" /\ stack' = <<>> /\ UNCHANGED attempt
  /\ UNCHANGED <<step, waiting, answers, dropped, messages, batch, sessions, meant, astray>>

(* Mutant of Halves: the second half begins behind its first record.       *)
HalvesApart(part) ==
  LET h == Len(part) \div 2 IN <<SubSeq(part, 1, h), SubSeq(part, h + 2, Len(part))>>

Halves(part) ==
  LET h == Len(part) \div 2 IN <<SubSeq(part, 1, h), SubSeq(part, h + 1, Len(part))>>

(* max_tokens: halves, first half first; a single record is dropped.       *)
CutOff ==
  /\ phase = "asking" /\ stack # <<>>
  /\ Charge(TRUE)
  /\ attempt' = 0
  /\ IF Len(Head(stack)) = 1
       THEN /\ stack' = Tail(stack) /\ dropped' = dropped \cup SetOf(Head(stack))
       ELSE /\ stack' = Halves(Head(stack)) \o Tail(stack)
            /\ UNCHANGED dropped
  /\ UNCHANGED <<step, phase, waiting, answers, messages, batch, sessions, meant, astray>>

(* Everything asked: emit, END.  A record nothing was emitted for advances *)
(* empty or, at a filter, fails for want of a verdict: it is dealt with.   *)
Finish ==
  /\ phase = "asking" /\ stack = <<>>
  /\ Emit(answers)
  /\ phase' = "idle" /\ waiting' = {}
  /\ UNCHANGED <<step, stack, attempt, answers, dropped, batch, spent, billed, sessions,
                 meant, astray>>

-----------------------------------------------------------------------------
(* The deferred path.                                                      *)

(* Submit one request per record and PENDING.  A process that dies before  *)
(* the token is recorded leaves a batch nobody collects: it is submitted   *)
(* again by the next session.                                              *)
Submit(kept) ==
  /\ Deferred /\ phase = "idle" /\ waiting # {} /\ sessions < MaxSessions /\ DOMAIN batch = {}
  /\ sessions' = sessions + 1
  /\ IF kept
       THEN batch' = [i \in waiting |-> Processing] /\ UNCHANGED <<spent, astray>>
       ELSE /\ astray.unseen < MaxOrphans * NRecords
            /\ spent' = spent + Cardinality(waiting)
            /\ astray' = [astray EXCEPT !.unseen = @ + Cardinality(waiting)]
            /\ UNCHANGED batch
  /\ UNCHANGED <<step, phase, waiting, stack, attempt, answers, dropped, messages, billed, meant>>

(* A result: nothing, an error, a reply cut off, or an answer, of which    *)
(* parse makes its value, "bad" for one it refuses.                        *)
Results == {"missing", "error", "cut"} \cup Values
Billable(r) == r \in {"cut"} \cup Values

(* The provider ends the batch and charges what it answered.               *)
ProviderEnds ==
  /\ \E i \in DOMAIN batch : batch[i] = Processing
  /\ \E results \in [DOMAIN batch -> Results] :
       /\ batch' = results
       /\ spent' = spent + Cardinality({i \in DOMAIN batch : Billable(results[i])})
  /\ UNCHANGED <<step, phase, waiting, stack, attempt, answers, dropped, messages, billed,
                 sessions, meant, astray>>

(* A record leaves the step while it waits: gated, or settled elsewhere.   *)
Withdraw(i) ==
  /\ DOMAIN batch # {} /\ i \in waiting
  /\ waiting' = waiting \ {i}
  /\ UNCHANGED <<step, phase, stack, attempt, answers, dropped, messages, batch, spent, billed,
                 sessions, meant, astray>>

Accepted(i) == i \in waiting \cap DOMAIN batch /\ batch[i] \in Values \ {"bad"}

(* Collect: matched by record, one COST for the session, then the records  *)
(* whose answer is valid; the others are dealt with by omission.  A kill   *)
(* behind the COST leaves the token to be collected again.                 *)
Collect(killed) ==
  /\ DOMAIN batch # {} /\ waiting # {} /\ sessions < MaxSessions
  /\ \A i \in DOMAIN batch : batch[i] # Processing
  /\ sessions' = sessions + 1
  /\ LET units(S) == Cardinality({i \in S \cap DOMAIN batch : Billable(batch[i])})
         said == [i \in Records |-> IF Accepted(i) THEN batch[i] ELSE "none"]
     IN /\ billed' = billed + units(waiting)
        /\ IF killed
             THEN /\ astray' = [astray EXCEPT !.twice = @ + units(waiting)]
                  /\ UNCHANGED <<messages, meant, waiting, batch>>
             ELSE /\ astray' = [astray EXCEPT !.unseen = @ + units(DOMAIN batch \ waiting)]
                  /\ Emit(said)
                  /\ meant' = [i \in Records |-> IF Accepted(i) THEN said[i] ELSE meant[i]]
                  /\ waiting' = {} /\ batch' = NoBatch
  /\ UNCHANGED <<step, phase, stack, attempt, answers, dropped, spent>>

Next ==
  \/ Open \/ CutOff \/ Finish \/ ProviderEnds
  \/ \E n \in 1 .. NRecords : phase = "asking" /\ stack # <<>> /\ n = Len(Head(stack))
       /\ \E a \in {b \in Answers(n) : Parses(b, Head(stack))} : Understood(a)
  \/ Misunderstood(Prose)   \* which stands for every invalid answer: what follows is the same
  \/ \E b \in BOOLEAN : CallFails(b) \/ Submit(b) \/ Collect(b)
  \/ \E i \in Records : Withdraw(i)

Spec == Init /\ [][Next]_vars

-----------------------------------------------------------------------------
TypeOK ==
  /\ step \in Steps /\ phase \in {"idle", "asking", "died"}
  /\ waiting \subseteq Records /\ dropped \subseteq Records
  /\ stack \in Seq(Seq(Records)) /\ \A k \in DOMAIN stack : stack[k] # <<>>
  /\ attempt \in {0, 1}
  /\ {answers, meant} \subseteq [Records -> (Values \ {"bad"}) \cup {"none"}]
  /\ messages \in [Records -> Seq({"RECORD", "VERDICT"} \X (Values \ {"bad"}))]
  /\ \E S \in SUBSET Records : batch \in [S -> Results \cup {Processing}]
  /\ {spent, billed, sessions} \subseteq Nat /\ astray \in [unseen : Nat, twice : Nat]

(* However a batch is halved, retried or collected, each record is         *)
(* answered at most once, with what the model said of it and of no other,  *)
(* and a session that came to its end left out only what was cut off alone *)
(* (aisteps.go askSplitting, parse, emit).                                 *)
OneAnswerEach ==
  /\ \A i \in Records : messages[i] \in {<<>>, Emitted(i, meant[i])}
  /\ (phase = "idle" /\ ~Deferred /\ waiting = {}) =>
       \A i \in Records : (messages[i] = <<>>) <=> (i \in dropped)
  /\ phase = "died" => \A i \in Records : messages[i] = <<>>

(* The receipt's dollars are the model's (aisteps.go ask: "every call is   *)
(* billed"), retries, halves and failed sessions included.  Off by name:   *)
(* a refusal, a batch whose token was lost, a record that left while it    *)
(* waited, and a collection killed behind its COST, which is made again.   *)
CostsAreReported == DOMAIN batch = {}
    => billed + astray.unseen = spent + astray.twice

(* What is answered is paid for once, and what is paid for is reported.    *)
AnswersArePaid == OneAnswerEach /\ CostsAreReported
=============================================================================
