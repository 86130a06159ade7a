------------------------------- MODULE RunLife -------------------------------
(***************************************************************************)
(* The life of a pipeline's runs: what gtme run, gtme run --resume and     *)
(* gtme answer do to the ledger, from the group source under once:,        *)
(* through participant steps, adapter sessions that may answer PENDING and *)
(* a group/deliver handoff, to the terminus group and the run's status.    *)
(*                                                                         *)
(* Steps are numbered as in the plan: the source is 0, a record's state is *)
(* the last step it completed.  A run's lock (RunLock) lets one process at *)
(* a time execute it.  A kill may fall between any two ledger writes: the  *)
(* writes of one record are given in order and the last argument, cut, is  *)
(* how many of them land before the process dies (WHOLE: all, it lives).   *)
(* Nobody else writes these rows, so no interleaving is lost by that.      *)
(***************************************************************************)
EXTENDS Integers, Sequences, FiniteSets

CONSTANTS
  NRuns,      \* runs of the pipeline, 1 .. NRuns in the order they are created
  NRecords,   \* members of the source group, 1 .. NRecords, oldest first
  Kinds,      \* the pipelines: sequences of "participant", "session" and "handoff" steps
  Exclude,    \* steps with exclude: the handoff's own group
  Limit,      \* the source's limit:, 0 for none
  DryModes,   \* whether operators pass --dry-run, for each run
  Answers,    \* what a judgment may be: "pass", "fail", "bad" (not the step's outputs)
  MaxKills,   \* bound: processes killed in a behaviour
  MaxByHand   \* bound: runs resumed by hand in a behaviour

Runs    == 1 .. NRuns
Records == 1 .. NRecords
ASSUME RunLifeAssumption ==
  /\ NRuns \in Nat /\ NRecords \in Nat /\ Limit \in Nat
  /\ MaxKills \in Nat /\ MaxByHand \in Nat
  /\ Answers \subseteq {"pass", "fail", "bad"}
  /\ Kinds \subseteq Seq({"participant", "session", "handoff"}) \ {<<>>}
  /\ Exclude \subseteq Nat
  /\ DryModes \in [Runs -> SUBSET BOOLEAN]

VARIABLES
  kind,       \* the pipeline: the kind of each step, the same for all runs
  \* the ledger
  status,     \* runs.status, "none" before the run is created
  rehearsal,  \* runs.dry
  sourced,    \* the source's done event is there
  state,      \* run_records.state: -1 not a member, 0 sourced, s completed s
  verdict,    \* run_records.verdicts at each step
  outcome,    \* the newest done, failed or gated event at each step
  pending,    \* records whose newest token at a step has no collected event
  answer,     \* the newest answered event at each step
  sent,       \* records with a deliveries row for the handoff
  book,       \* members of the handoff's group
  home,       \* members of the terminus group
  \* the process executing a run, if any
  pc,         \* "dead", "step" or "end"
  dry,        \* it runs with --dry-run; kept once it is gone
  at,         \* the step it is at
  todo,       \* records read as eligible at the step and not yet dealt with
  open,       \* records its membership gate lets through
  read,       \* the answers it read when it came to the step
  inflight,   \* some step left a record pending in this process
  broken,     \* a step returned an error
  \* history, for the properties
  kills,      \* processes killed so far
  byHand,     \* runs resumed by hand so far
  torn,       \* records a kill caught between two writes at a step
  late,       \* answers recorded after the step had read or decided
  overtaken,  \* runs executed after, or while, a later run existed
  finishedBy  \* records each run took to the final step, armed

ledger  == <<kind, status, rehearsal, sourced, state, verdict, outcome, pending, answer,
             sent, book, home>>
process == <<pc, dry, at, todo, open, read, inflight, broken>>
history == <<kills, byHand, torn, late, overtaken, finishedBy>>
vars    == <<ledger, process, history>>

WHOLE == NRecords + 4
Steps == DOMAIN kind
Final == Len(kind)
Alive(r)   == pc[r] # "dead"
Created    == {r \in Runs : status[r] # "none"}
Members(r) == {i \in Records : state[r][i] >= 0}

(* stopped: a fail verdict freezes a record, a deliver step's excepted.    *)
Stopped(r, i)  == \E s \in Steps : kind[s] # "handoff" /\ verdict[r][i][s] = "fail"
Eligible(r, s) == {i \in Records : state[r][i] = s - 1 /\ ~Stopped(r, i)}
(* assertTerminus, with RunRecords as they are now.                        *)
Completers(r)  == {i \in Records : state[r][i] = Final /\ ~Stopped(r, i)}

(* Mutant of Finished: a record a filter stopped is offered again.         *)
FinishedCompleted == {i \in Records : \E r \in Created :
                        ~rehearsal[r] /\ state[r][i] = Final}

(* FinishedRecords: completed or frozen in a run that is no rehearsal.     *)
Finished == {i \in Records : \E r \in Created :
               ~rehearsal[r] /\ (state[r][i] = Final \/ Stopped(r, i))}

(* onceSelection: what is left, oldest first, capped after the drop.       *)
Selection == LET eligible == Records \ Finished
             IN {i \in eligible : Limit = 0
                   \/ Cardinality({j \in eligible : j < i}) < Limit}

Init ==
  /\ kind \in Kinds
  /\ status    = [r \in Runs |-> "none"]
  /\ rehearsal = [r \in Runs |-> FALSE]
  /\ sourced   = [r \in Runs |-> FALSE]
  /\ state     = [r \in Runs |-> [i \in Records |-> -1]]
  /\ verdict   = [r \in Runs |-> [i \in Records |-> [s \in Steps |-> "none"]]]
  /\ outcome   = [r \in Runs |-> [i \in Records |-> [s \in Steps |-> "none"]]]
  /\ pending   = [r \in Runs |-> [s \in Steps |-> {}]]
  /\ answer    = [r \in Runs |-> [i \in Records |-> [s \in Steps |-> "none"]]]
  /\ sent = {} /\ book = {} /\ home = {}
  /\ pc   = [r \in Runs |-> "dead"]
  /\ dry  = [r \in Runs |-> FALSE]
  /\ at   = [r \in Runs |-> 0]
  /\ todo = [r \in Runs |-> {}]
  /\ open = [r \in Runs |-> {}]
  /\ read = [r \in Runs |-> [i \in Records |-> "none"]]
  /\ inflight = [r \in Runs |-> FALSE]
  /\ broken   = [r \in Runs |-> FALSE]
  /\ kills = 0 /\ byHand = 0
  /\ torn = {} /\ late = {} /\ overtaken = {}
  /\ finishedBy = [r \in Runs |-> {}]

-----------------------------------------------------------------------------
(* Starting and ending a process.                                          *)

Begin(r, d) ==
  /\ status' = [status EXCEPT ![r] = "running"]
  /\ pc'     = [pc EXCEPT ![r] = "step"]
  /\ dry'    = [dry EXCEPT ![r] = d]
  /\ at'     = [at EXCEPT ![r] = 0]
  /\ inflight' = [inflight EXCEPT ![r] = FALSE]
  /\ broken'   = [broken EXCEPT ![r] = FALSE]
  /\ overtaken' = overtaken \cup {q \in Created : q < r /\ Alive(q)}
                            \cup {q \in {r} : \E later \in Created : later > q}
  /\ UNCHANGED <<kind, sourced, state, verdict, outcome, pending, answer, sent, book, home,
                 todo, open, read, kills, torn, late, finishedBy>>

(* CreateRun.                                                              *)
Create(r, d) ==
  /\ status[r] = "none" /\ r = Cardinality(Created) + 1
  /\ rehearsal' = [rehearsal EXCEPT ![r] = d]
  /\ Begin(r, d)

(* Execute with ResumeRunID: a done run refuses (a handoff is never held,  *)
(* Delivery models the runs that hold deliveries), so does a locked one.   *)
Resume(r, d) ==
  /\ status[r] \in {"running", "failed", "pending"}
  /\ ~Alive(r)
  /\ UNCHANGED rehearsal
  /\ Begin(r, d)

(* Mutant of LastPending: what is collected first is the run that failed.  *)
LastFailed(r) == r = Cardinality(Created) /\ status[r] = "failed"

(* LastRunForPipeline is a run that ended with a step in flight.           *)
LastPending(r) == r = Cardinality(Created) /\ status[r] = "pending"

(* gtme run pipeline.yaml: collect first; an interrupted run gets a        *)
(* message and a new run.                                                  *)
GtmeRun(r, d) ==
  /\ \/ LastPending(r) /\ Resume(r, d)
     \/ (\A q \in Created : ~LastPending(q)) /\ Create(r, d)
  /\ UNCHANGED byHand

(* gtme run pipeline.yaml --resume RUN_ID.                                 *)
GtmeResume(r, d) ==
  /\ byHand < MaxByHand
  /\ byHand' = byHand + 1
  /\ Resume(r, d)

Die(r) ==
  /\ kills < MaxKills
  /\ kills' = kills + 1
  /\ pc'    = [pc EXCEPT ![r] = "dead"]
  /\ at'    = [at EXCEPT ![r] = 0]
  /\ todo'  = [todo EXCEPT ![r] = {}]
  /\ open'  = [open EXCEPT ![r] = {}]
  /\ read'  = [read EXCEPT ![r] = [i \in Records |-> "none"]]
  /\ inflight' = [inflight EXCEPT ![r] = FALSE]
  /\ broken'   = [broken EXCEPT ![r] = FALSE]
  /\ UNCHANGED dry

(* SIGKILL, a power cut: nothing of the process is left but its writes.    *)
Kill(r) ==
  /\ Alive(r)
  /\ Die(r)
  /\ UNCHANGED <<ledger, byHand, torn, late, overtaken, finishedBy>>

-----------------------------------------------------------------------------
(* The source and the way from step to step.                               *)

(* runGroupSource: one AddRunRecord per member selected, then done.  A     *)
(* resume that finds no done event selects again and adds what is missing. *)
Source(r, cut) ==
  /\ pc[r] = "step" /\ at[r] = 0 /\ ~sourced[r]
  /\ state' = [state EXCEPT ![r] = [i \in Records |->
       IF i \in Selection /\ i <= cut /\ state[r][i] < 0 THEN 0 ELSE state[r][i]]]
  /\ \/ /\ cut = WHOLE
        /\ sourced' = [sourced EXCEPT ![r] = TRUE]
        /\ UNCHANGED <<process, kills>>
     \/ /\ cut # WHOLE
        /\ Die(r)
        /\ UNCHANGED sourced
  /\ UNCHANGED <<kind, status, rehearsal, verdict, outcome, pending, answer, sent, book, home,
                 byHand, torn, late, overtaken, finishedBy>>

(* The next step reads its records, its gate and its answers as it starts. *)
NextStep(r) ==
  /\ pc[r] = "step" /\ sourced[r] /\ todo[r] = {}
  /\ IF at[r] = Final
       THEN /\ pc' = [pc EXCEPT ![r] = "end"]
            /\ UNCHANGED <<at, todo, open, read, late>>
       ELSE LET s == at[r] + 1 IN
            /\ at'   = [at EXCEPT ![r] = s]
            /\ todo' = [todo EXCEPT ![r] = Eligible(r, s)]
            /\ open' = [open EXCEPT ![r] = IF s \in Exclude THEN Records \ book ELSE Records]
            /\ read' = [read EXCEPT ![r] = [i \in Records |->
                          IF i \in Eligible(r, s) THEN answer[r][i][s] ELSE "none"]]
            /\ late' = late \ {<<r, i, s>> : i \in Eligible(r, s)}
            /\ UNCHANGED pc
  /\ UNCHANGED <<ledger, dry, inflight, broken, kills, byHand, torn, overtaken, finishedBy>>

Working(r, i) == pc[r] = "step" /\ i \in todo[r]
AtKind(r, k)  == at[r] > 0 /\ kind[at[r]] = k
HasToken(r, i) == i \in pending[r][at[r]]

(* Mutant of Dealt: a record that still waits stays in the work of the step. *)
DealtUnlessPending(r, i) ==
  /\ todo' = [todo EXCEPT ![r] = IF HasToken(r, i) THEN @ ELSE @ \ {i}]
  /\ read' = [read EXCEPT ![r][i] = "none"]
  /\ UNCHANGED <<pc, dry, at, open, broken, kills>>

Dealt(r, i) ==
  /\ todo' = [todo EXCEPT ![r] = @ \ {i}]
  /\ read' = [read EXCEPT ![r][i] = "none"]
  /\ UNCHANGED <<pc, dry, at, open, broken, kills>>

(* All the writes landed and the step goes on, or the process died at cut. *)
Landed(r, i, cut) ==
  \/ /\ cut = WHOLE
     /\ Dealt(r, i)
     /\ UNCHANGED <<inflight, torn>>
  \/ /\ cut \in 1 .. 3
     /\ Die(r)
     /\ torn' = torn \cup {<<r, i, at[r]>>}

(* The gate: eligible, recorded as gated, not dispatched, not moved.       *)
Gated(r, i) ==
  /\ Working(r, i) /\ i \notin open[r]
  /\ outcome' = [outcome EXCEPT ![r][i][at[r]] = "gated"]
  /\ Dealt(r, i)
  /\ UNCHANGED <<kind, status, rehearsal, sourced, state, verdict, pending, answer, sent, book,
                 home, inflight, byHand, torn, late, overtaken, finishedBy>>

(* prepare finds the record's needs unsatisfied.                           *)
PrepareFails(r, i) ==
  /\ Working(r, i) /\ i \in open[r]
  /\ outcome' = [outcome EXCEPT ![r][i][at[r]] = "failed"]
  /\ Dealt(r, i)
  /\ UNCHANGED <<kind, status, rehearsal, sourced, state, verdict, pending, answer, sent, book,
                 home, inflight, byHand, torn, late, overtaken, finishedBy>>

(* Mutant of Settles: only what advanced is marked collected.              *)
AdvancedSettles(k, v) == v = "pass"

(* A participant's answer settles its token whatever it was; a session's   *)
(* only when the record advanced or failed (processChunk).                 *)
Settles(k, v) == k = "participant" \/ v # "fail"

(* The writes of a judgment, in order: the verdict, the event, the state   *)
(* (a pass), the collected event (a token).                                *)
Judge(r, i, v, cut) ==
  LET s == at[r] IN
  /\ verdict' = IF v = "bad" THEN verdict ELSE [verdict EXCEPT ![r][i][s] = v]
  /\ outcome' = IF cut < 2 THEN outcome
                ELSE [outcome EXCEPT ![r][i][s] =
                        [pass |-> "out", fail |-> "filtered", bad |-> "failed"][v]]
  /\ state'   = IF cut >= 3 /\ v = "pass" THEN [state EXCEPT ![r][i] = s] ELSE state
  /\ pending' = IF cut = WHOLE /\ Settles(kind[s], v)
                  THEN [pending EXCEPT ![r][s] = @ \ {i}] ELSE pending
  /\ Landed(r, i, cut)
  /\ finishedBy' = IF s = Final /\ cut >= 3 /\ v = "pass" /\ ~dry[r]
                     THEN [finishedBy EXCEPT ![r] = @ \cup {i}] ELSE finishedBy
  /\ UNCHANGED <<kind, status, rehearsal, sourced, sent, book, home, byHand, late, overtaken>>

(* pend, applyPending, stillPending: a token, and the run will end pending. *)
LeavePending(r, i) ==
  /\ pending' = [pending EXCEPT ![r][at[r]] = @ \cup {i}]
  /\ inflight' = [inflight EXCEPT ![r] = TRUE]

-----------------------------------------------------------------------------
(* A participant step.                                                     *)

(* runParticipantStep on a record it holds a token of: the answer is in    *)
(* the ledger or it is not.                                                *)
Collect(r, i, cut) ==
  /\ Working(r, i) /\ i \in open[r] /\ AtKind(r, "participant") /\ HasToken(r, i)
  /\ read[r][i] # "none"
  /\ Judge(r, i, read[r][i], cut)
  /\ UNCHANGED answer

(* Mutant of Recorded: the walk applies an answer the ledger never saw.    *)
Unrecorded(r, i, s, v) == answer

(* RecordAnswer: one more answered event, the newest.                      *)
Recorded(r, i, s, v) == [answer EXCEPT ![r][i][s] = v]

(* walk: the terminal answers, the answered event, then applyAnswer.       *)
Ask(r, i, v, cut) ==
  /\ Working(r, i) /\ i \in open[r] /\ AtKind(r, "participant") /\ ~HasToken(r, i)
  /\ answer' = Recorded(r, i, at[r], v)
  /\ Judge(r, i, v, cut)

(* No terminal, or a refused answer: the record waits in the ledger.       *)
Pend(r, i) ==
  /\ Working(r, i) /\ i \in open[r] /\ AtKind(r, "participant")
  /\ HasToken(r, i) => read[r][i] = "none"
  /\ LeavePending(r, i)
  /\ Dealt(r, i)
  /\ UNCHANGED <<kind, status, rehearsal, sourced, state, verdict, outcome, answer, sent, book,
                 home, byHand, torn, late, overtaken, finishedBy>>

(* Ctrl-C or end of input in the walk, the collected ones being done: the  *)
(* rest is pended and the run ends without an error.                       *)
InterruptWalk(r) ==
  /\ pc[r] = "step" /\ AtKind(r, "participant") /\ todo[r] # {}
  /\ \A i \in todo[r] : i \in open[r] /\ ~HasToken(r, i)
  /\ pending' = [pending EXCEPT ![r][at[r]] = @ \cup todo[r]]
  /\ inflight' = [inflight EXCEPT ![r] = TRUE]
  /\ todo' = [todo EXCEPT ![r] = {}]
  /\ read' = [read EXCEPT ![r] = [i \in Records |-> "none"]]
  /\ pc' = [pc EXCEPT ![r] = "end"]
  /\ UNCHANGED <<kind, status, rehearsal, sourced, state, verdict, outcome, answer, sent, book,
                 home, dry, at, open, broken, history>>

(* gtme answer: any run, at any time, for a record with a token.           *)
GtmeAnswer(r, i, s, v) ==
  /\ kind[s] = "participant" /\ i \in pending[r][s]
  /\ answer[r][i][s] # v
  /\ answer' = Recorded(r, i, s, v)
  /\ late' = IF verdict[r][i][s] # "none" \/ (Alive(r) /\ at[r] = s /\ i \in todo[r])
               THEN late \cup {<<r, i, s>>} ELSE late \ {<<r, i, s>>}
  /\ UNCHANGED <<kind, status, rehearsal, sourced, state, verdict, outcome, pending, sent, book,
                 home, process, kills, byHand, torn, overtaken, finishedBy>>

-----------------------------------------------------------------------------
(* An adapter's session, fresh or collecting, and the handoff.             *)

SessionJudges(r, i, v, cut) ==
  /\ Working(r, i) /\ i \in open[r] /\ AtKind(r, "session")
  /\ Judge(r, i, v, cut)
  /\ UNCHANGED answer

SessionPends(r, i) ==
  /\ Working(r, i) /\ i \in open[r] /\ AtKind(r, "session")
  /\ LeavePending(r, i)
  /\ Dealt(r, i)
  /\ UNCHANGED <<kind, status, rehearsal, sourced, state, verdict, outcome, answer, sent, book,
                 home, byHand, torn, late, overtaken, finishedBy>>

(* A crashed or stopping session, or Ctrl-C anywhere else: the records S   *)
(* of its sessions fail, those a PENDING put in flight with them, the rest *)
(* stays where it is, and the run fails.                                   *)
StepBreaks(r, S) ==
  /\ pc[r] = "step" /\ at[r] > 0 /\ todo[r] # {}
  /\ S = {} \/ AtKind(r, "session")
  /\ S \subseteq todo[r] \cup {i \in pending[r][at[r]] : state[r][i] = at[r] - 1}
  /\ outcome' = [outcome EXCEPT ![r] = [i \in Records |->
       IF i \in S THEN [outcome[r][i] EXCEPT ![at[r]] = "failed"] ELSE outcome[r][i]]]
  /\ todo' = [todo EXCEPT ![r] = {}]
  /\ read' = [read EXCEPT ![r] = [i \in Records |-> "none"]]
  /\ broken' = [broken EXCEPT ![r] = TRUE]
  /\ pc' = [pc EXCEPT ![r] = "end"]
  /\ UNCHANGED <<kind, status, rehearsal, sourced, state, verdict, pending, answer, sent, book,
                 home, dry, at, open, inflight, history>>

(* Mutant of RowDue: a rehearsal records the delivery it did not make.     *)
RowDueDry(r, i) == i \notin sent

(* prepare lets the record through to the handoff itself.                  *)
RowDue(r, i) == i \notin sent /\ ~dry[r]

(* group/deliver: skipped when the row is there, rehearsed under --dry-run *)
(* (both an event and the state); else advance: the done event, the state, *)
(* the deliveries row, the group event, in that order.                     *)
Handoff(r, i, cut) ==
  /\ Working(r, i) /\ i \in open[r] /\ AtKind(r, "handoff")
  /\ outcome' = [outcome EXCEPT ![r][i][at[r]] = "out"]
  /\ state' = IF cut >= 2 THEN [state EXCEPT ![r][i] = at[r]] ELSE state
  /\ sent'  = IF RowDue(r, i) /\ cut >= 3 THEN sent \cup {i} ELSE sent
  /\ book'  = IF RowDue(r, i) /\ ~dry[r] /\ cut = WHOLE THEN book \cup {i} ELSE book
  /\ Landed(r, i, cut)
  /\ finishedBy' = IF at[r] = Final /\ cut >= 2 /\ ~dry[r]
                     THEN [finishedBy EXCEPT ![r] = @ \cup {i}] ELSE finishedBy
  /\ UNCHANGED <<kind, status, rehearsal, sourced, verdict, pending, answer, home, byHand, late, overtaken>>

-----------------------------------------------------------------------------
(* Mutant of EndStatus: what is in flight is forgotten.                    *)
EndStatusDone(r) == IF broken[r] THEN "failed" ELSE "done"

EndStatus(r) == IF broken[r] THEN "failed" ELSE IF inflight[r] THEN "pending" ELSE "done"

(* Mutant of TerminusDue: asserted only by a run that did not fail.        *)
TerminusOnSuccess(r) == ~dry[r] /\ ~broken[r]

(* assertTerminus runs however the steps ended, a rehearsal asserts nothing. *)
TerminusDue(r) == ~dry[r]

(* The terminus, record by record, then FinishRun; a kill on the way       *)
(* leaves some of the completers in and the run running.                   *)
End(r, S) ==
  /\ pc[r] = "end"
  /\ S \subseteq Completers(r)
  /\ home' = IF TerminusDue(r) THEN home \cup S ELSE home
  /\ \/ /\ S = Completers(r)
        /\ status' = [status EXCEPT ![r] = EndStatus(r)]
        /\ pc' = [pc EXCEPT ![r] = "dead"]
        /\ at' = [at EXCEPT ![r] = 0]
        /\ open' = [open EXCEPT ![r] = {}]
        /\ read' = [read EXCEPT ![r] = [i \in Records |-> "none"]]
        /\ inflight' = [inflight EXCEPT ![r] = FALSE]
        /\ broken'   = [broken EXCEPT ![r] = FALSE]
        /\ UNCHANGED <<dry, todo, kills>>
     \/ /\ S # {}
        /\ Die(r)
        /\ UNCHANGED status
  /\ UNCHANGED <<kind, rehearsal, sourced, state, verdict, outcome, pending, answer, sent, book,
                 byHand, torn, late, overtaken, finishedBy>>

Cuts == {1, 2, 3, WHOLE}

StepWork(r) ==
  \/ Source(r, WHOLE)
  \/ NextStep(r)
  \/ \E i \in Records :
       \/ Gated(r, i) \/ PrepareFails(r, i) \/ Pend(r, i) \/ SessionPends(r, i)
       \/ Collect(r, i, WHOLE) \/ Handoff(r, i, WHOLE)
       \/ \E v \in Answers : Ask(r, i, v, WHOLE) \/ SessionJudges(r, i, v, WHOLE)
  \/ \E S \in SUBSET Records : StepBreaks(r, S)
  \/ InterruptWalk(r)
  \/ pc[r] = "end" /\ End(r, Completers(r))

Killed(r) ==
  \/ Kill(r)
  \/ \E k \in 1 .. NRecords : Source(r, k)
  \/ \E i \in Records, cut \in Cuts \ {WHOLE} :
       \/ Collect(r, i, cut) \/ Handoff(r, i, cut)
       \/ \E v \in Answers : Ask(r, i, v, cut) \/ SessionJudges(r, i, v, cut)
  \/ \E S \in SUBSET Records : End(r, S)

Operator ==
  \/ \E r \in Runs : \E d \in DryModes[r] : GtmeRun(r, d) \/ GtmeResume(r, d)
  \/ \E r \in Runs, i \in Records, s \in Steps, v \in Answers : GtmeAnswer(r, i, s, v)

Next == Operator \/ \E r \in Runs : StepWork(r) \/ Killed(r)

(* A process that is not killed keeps going: its sessions end, its terminal *)
(* answers or closes.  Operators run the pipeline again as long as its last *)
(* run waits to be collected.                                              *)
Fairness == \A r \in Runs :
  /\ WF_vars(StepWork(r))
  /\ WF_vars(\E d \in DryModes[r] : LastPending(r) /\ GtmeRun(r, d))

Spec == Init /\ [][Next]_vars /\ Fairness

-----------------------------------------------------------------------------
LastWaits(r) == status[r] = "pending" /\ r = Cardinality(Created)

TypeOK ==
  /\ kind \in Kinds
  /\ status \in [Runs -> {"none", "running", "failed", "pending", "done"}]
  /\ rehearsal \in [Runs -> BOOLEAN] /\ sourced \in [Runs -> BOOLEAN]
  /\ state \in [Runs -> [Records -> -1 .. Final]]
  /\ verdict \in [Runs -> [Records -> [Steps -> {"none", "pass", "fail"}]]]
  /\ outcome \in [Runs -> [Records -> [Steps ->
                    {"none", "out", "filtered", "failed", "gated"}]]]
  /\ pending \in [Runs -> [Steps -> SUBSET Records]]
  /\ answer \in [Runs -> [Records -> [Steps -> Answers \cup {"none"}]]]
  /\ sent \subseteq Records /\ book \subseteq Records /\ home \subseteq Records
  /\ pc \in [Runs -> {"dead", "step", "end"}]
  /\ dry \in [Runs -> BOOLEAN] /\ inflight \in [Runs -> BOOLEAN]
  /\ broken \in [Runs -> BOOLEAN]
  /\ at \in [Runs -> 0 .. Final]
  /\ todo \in [Runs -> SUBSET Records] /\ open \in [Runs -> SUBSET Records]
  /\ read \in [Runs -> [Records -> Answers \cup {"none"}]]
  /\ kills \in 0 .. MaxKills /\ byHand \in 0 .. MaxByHand
  /\ torn \subseteq Runs \X Records \X Steps /\ late \subseteq Runs \X Records \X Steps
  /\ overtaken \subseteq Runs /\ finishedBy \in [Runs -> SUBSET Records]

(* A run whose status is done forgets no record: each member completed the *)
(* final step, was stopped by a filter, or failed or was gated at the step *)
(* it stands before.  What waits for an answer keeps the run pending       *)
(* (runner.go:442-454, ADR-038), whatever was killed, resumed or gated.    *)
DoneForgetsNobody == \A r \in Runs : status[r] = "done" =>
  \A i \in Members(r) :
    \/ state[r][i] = Final
    \/ Stopped(r, i)
    \/ outcome[r][i][state[r][i] + 1] \in {"failed", "gated"}

(* A token is spent with the judgment it waited for: a record that moved   *)
(* past a step, or that a person rejected there, is offered to gtme answer *)
(* no more.  Two exceptions are the code's: a kill between the judgment    *)
(* and the collected event, and a collecting session whose filter rejects  *)
(* (step.go:1231 marks what advanced or failed, a rejection does neither). *)
SpentTokens == \A r \in Runs, i \in Records, s \in Steps :
  i \in pending[r][s] /\ <<r, i, s>> \notin torn
    => /\ state[r][i] < s
       /\ kind[s] = "participant" => verdict[r][i][s] # "fail"

(* The newest answer decides (answers.go, Answers: an earlier answer is    *)
(* superseded): a record past a participant step passed by its newest      *)
(* answer, a stopped one was rejected by it.  Unless that answer came      *)
(* after the step had read the answers or judged the record: gtme answer   *)
(* still accepts it then, and nothing collects it.                         *)
NewestAnswerDecides == \A r \in Runs, i \in Records, s \in Steps :
  (kind[s] = "participant" /\ <<r, i, s>> \notin late)
    => /\ state[r][i] >= s => answer[r][i][s] = "pass"
       /\ verdict[r][i][s] = "fail" => answer[r][i][s] = "fail"

(* once: (ADR-052): a member an earlier run finished is no member of a     *)
(* later one, unless the earlier run was executing, or resumed by hand,    *)
(* after the later one was created, or is recorded as a rehearsal, which   *)
(* an armed process may well have completed (collect-first does not ask).  *)
(* And a bounded consumer advances instead of replaying its first batch    *)
(* (runner.go:973): a source comes up empty only when every member is done. *)
OnceWorkedOnce ==
  /\ \A r, q \in Runs : r < q /\ r \notin overtaken /\ ~rehearsal[r] =>
       \A i \in Members(q) : i \notin finishedBy[r] /\ ~Stopped(r, i)
  /\ \A r \in Runs : sourced[r] /\ Members(r) = {} => Records \subseteq Finished

(* However a run ended, short of a kill, the terminus group holds every    *)
(* record that completed it (runner.go:550, #203): once: counts them       *)
(* finished, so nothing would ever add them later.                         *)
TerminusHoldsCompleters == \A r \in Runs :
  status[r] \in {"done", "failed", "pending"} /\ ~Alive(r) /\ ~dry[r]
    => Completers(r) \subseteq home

(* A record an armed run took past the handoff is in the group, unless a   *)
(* kill tore some handoff of it: a deliveries row without the group event  *)
(* has every later run skip it as already delivered, so nothing repairs it. *)
HandoffHolds == \A r \in Runs, i \in Records :
  (i \in finishedBy[r] /\ kind[Final] = "handoff"
     /\ \A q \in Runs, s \in Steps : <<q, i, s>> \notin torn) => i \in book

(* A process that is not killed comes to its end, with every record of     *)
(* every step dealt with.                                                  *)
ProcessEnds == \A r \in Runs : Alive(r) ~> ~Alive(r)

(* An answer given while its pipeline's last run waits is collected by the *)
(* runs that follow, or that run fails or is killed: a failed run is not   *)
(* collected by habit, and its answers then wait for a --resume.           *)
AnswersAreCollected == \A r \in Runs, i \in Records, s \in UNION {DOMAIN k : k \in Kinds} :
  (LastWaits(r) /\ s \in Steps /\ i \in pending[r][s] /\ answer[r][i][s] # "none")
    ~> (i \notin pending[r][s] \/ outcome[r][i][s] # "none"
          \/ status[r] = "failed" \/ (status[r] = "running" /\ ~Alive(r)))
=============================================================================
