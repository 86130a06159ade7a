---------------------------- MODULE RunLifeProofs ----------------------------
(***************************************************************************)
(* Proofs about RunLife, for any number of runs, records and steps, any    *)
(* bounds and any answers: its types and its six safety properties.        *)
(*                                                                         *)
(* The invariant, IInv, says of each record of each run what its run's     *)
(* process knows of it (RecordInv) and of the runs together who may still  *)
(* be at work (Ordered, Overlaps).  EffectStep reduces the seventeen       *)
(* actions to the eleven things that may happen to one record of one run;  *)
(* each part of RecordInv is then shown to survive each of the eleven.     *)
(***************************************************************************)
EXTENDS RunLife, FiniteSetTheorems, TLAPS

(* A source may be killed after any of its members.                        *)
SourceCuts == 1 .. NRecords \cup {WHOLE}

USE RunLifeAssumption

(* What a step of the pipeline may be, action by action.                   *)
StepCase ==
  \/ \E r \in Runs, d \in BOOLEAN : Create(r, d) /\ UNCHANGED byHand
  \/ \E r \in Runs, d \in BOOLEAN : Resume(r, d) /\ byHand' \in 0 .. MaxByHand
  \/ \E r \in Runs, i \in Records, s \in Steps, v \in Answers : GtmeAnswer(r, i, s, v)
  \/ \E r \in Runs, cut \in SourceCuts : Source(r, cut)
  \/ \E r \in Runs : NextStep(r)
  \/ \E r \in Runs, i \in Records : Gated(r, i)
  \/ \E r \in Runs, i \in Records : PrepareFails(r, i)
  \/ \E r \in Runs, i \in Records : Pend(r, i)
  \/ \E r \in Runs, i \in Records : SessionPends(r, i)
  \/ \E r \in Runs, i \in Records, cut \in Cuts : Collect(r, i, cut)
  \/ \E r \in Runs, i \in Records, v \in Answers, cut \in Cuts : Ask(r, i, v, cut)
  \/ \E r \in Runs, i \in Records, v \in Answers, cut \in Cuts : SessionJudges(r, i, v, cut)
  \/ \E r \in Runs, i \in Records, cut \in Cuts : Handoff(r, i, cut)
  \/ \E r \in Runs, S \in SUBSET Records : StepBreaks(r, S)
  \/ \E r \in Runs : InterruptWalk(r)
  \/ \E r \in Runs, S \in SUBSET Records : End(r, S)
  \/ \E r \in Runs : Kill(r)

(* The pipeline is not empty, and stays what it is.                        *)
LEMMA StepNumbers ==
  ASSUME kind \in Kinds
  PROVE  /\ Final \in Nat \ {0} /\ Steps = 1 .. Final
         /\ \A s \in Steps : kind[s] \in {"participant", "session", "handoff"}
<1>1. kind \in Seq({"participant", "session", "handoff"}) /\ kind # <<>>
  BY RunLifeAssumption
<1>2. Final \in Nat /\ Steps = 1 .. Final
  BY <1>1 DEF Final, Steps
<1>3. Final # 0
  BY <1>1 DEF Final
<1> QED
  BY <1>1, <1>2, <1>3 DEF Steps

(* With the pipeline its steps stay.                                       *)
LEMMA KindStays == UNCHANGED kind => Steps' = Steps /\ Final' = Final
  BY DEF Steps, Final

(* Every step of the specification is one of them.                         *)
LEMMA NextCases ==
  ASSUME TypeOK, Next
  PROVE  StepCase
<1>1. WHOLE \in Cuts /\ WHOLE \in SourceCuts /\ \A k \in 1 .. NRecords : k \in SourceCuts
  BY DEF Cuts, SourceCuts
<1>2. \A r \in Runs : DryModes[r] \subseteq BOOLEAN
  OBVIOUS
<1>3. ASSUME NEW r \in Runs, NEW i \in Records, NEW cut \in Cuts, Collect(r, i, cut)
      PROVE StepCase
  BY <1>3 DEF StepCase
<1> SUFFICES ASSUME ~StepCase PROVE FALSE
  OBVIOUS
<1>4. CASE Operator
  <2>1. ASSUME NEW r \in Runs, NEW d \in DryModes[r], GtmeRun(r, d) PROVE FALSE
    <3>1. d \in BOOLEAN /\ (UNCHANGED byHand => byHand' \in 0 .. MaxByHand)
      BY <1>2 DEF TypeOK
    <3> QED
      BY <2>1, <3>1 DEF GtmeRun, StepCase
  <2>2. ASSUME NEW r \in Runs, NEW d \in DryModes[r], GtmeResume(r, d) PROVE FALSE
    <3>1. d \in BOOLEAN /\ byHand' \in 0 .. MaxByHand
      BY <1>2, <2>2 DEF TypeOK, GtmeResume
    <3> QED
      BY <2>2, <3>1 DEF GtmeResume, StepCase
  <2>3. ASSUME NEW r \in Runs, NEW i \in Records, NEW s \in Steps, NEW v \in Answers,
               GtmeAnswer(r, i, s, v)
        PROVE  FALSE
    BY <2>3 DEF StepCase
  <2> QED
    BY <1>4, <2>1, <2>2, <2>3 DEF Operator
<1>5. ASSUME NEW r \in Runs, StepWork(r) PROVE FALSE
  <2>1. Completers(r) \in SUBSET Records
    BY DEF Completers
  <2> QED
    BY <1>1, <1>5, <2>1 DEF StepWork, StepCase
<1>6. ASSUME NEW r \in Runs, Killed(r) PROVE FALSE
  BY <1>1, <1>6 DEF Killed, StepCase
<1> QED
  BY <1>4, <1>5, <1>6 DEF Next

(* The parts of TypeOK.                                                    *)
RunTypes ==
  /\ kind \in Kinds
  /\ status \in [Runs -> {"none", "running", "failed", "pending", "done"}]
  /\ rehearsal \in [Runs -> BOOLEAN] /\ sourced \in [Runs -> BOOLEAN]
  /\ sent \subseteq Records /\ book \subseteq Records /\ home \subseteq Records
StateTypes == state \in [Runs -> [Records -> -1 .. Final]]
EventTypes ==
  /\ verdict \in [Runs -> [Records -> [Steps -> {"none", "pass", "fail"}]]]
  /\ outcome \in [Runs -> [Records -> [Steps ->
                    {"none", "out", "filtered", "failed", "gated"}]]]
  /\ answer \in [Runs -> [Records -> [Steps -> Answers \cup {"none"}]]]
TokenTypes == pending \in [Runs -> [Steps -> SUBSET Records]]
ProcessTypes ==
  /\ pc \in [Runs -> {"dead", "step", "end"}]
  /\ dry \in [Runs -> BOOLEAN] /\ inflight \in [Runs -> BOOLEAN]
  /\ broken \in [Runs -> BOOLEAN]
  /\ at \in [Runs -> 0 .. Final]
  /\ todo \in [Runs -> SUBSET Records] /\ open \in [Runs -> SUBSET Records]
  /\ read \in [Runs -> [Records -> Answers \cup {"none"}]]
  /\ kills \in 0 .. MaxKills
HistoryTypes ==
  /\ byHand \in 0 .. MaxByHand
  /\ torn \subseteq Runs \X Records \X Steps /\ late \subseteq Runs \X Records \X Steps
  /\ overtaken \subseteq Runs /\ finishedBy \in [Runs -> SUBSET Records]
Types == RunTypes /\ StateTypes /\ EventTypes /\ TokenTypes /\ ProcessTypes /\ HistoryTypes

(* They are its parts.                                                     *)
LEMMA TypeParts == TypeOK <=> Types
  BY DEF TypeOK, Types, RunTypes, StateTypes, EventTypes, TokenTypes, ProcessTypes,
     HistoryTypes

(* A process has records to deal with only at a step.                      *)
AtSomeStep == \A r \in Runs : at[r] = 0 => todo[r] = {}

(* One cell of a table of runs, records and steps.                         *)
LEMMA CellType ==
  ASSUME NEW A, NEW B, NEW D, NEW X, NEW f \in [A -> [B -> [D -> X]]],
         NEW a \in A, NEW b \in B, NEW d \in D, NEW x \in X
  PROVE  /\ [f EXCEPT ![a][b][d] = x] \in [A -> [B -> [D -> X]]]
         /\ [f EXCEPT ![a][b][d] = x][a][b][d] = x
         /\ \A p \in A, q \in B, s \in D : <<p, q, s>> # <<a, b, d>> =>
              [f EXCEPT ![a][b][d] = x][p][q][s] = f[p][q][s]
  OBVIOUS

(* The process goes, or is done with a record.                             *)
LEMMA DieTypes ==
  ASSUME ProcessTypes, UNCHANGED kind, Final \in Nat, NEW r \in Runs, Die(r)
  PROVE  ProcessTypes'
<1>1. kills' \in 0 .. MaxKills
  BY DEF Die, ProcessTypes
<1> QED
  BY <1>1, KindStays DEF Die, ProcessTypes

LEMMA DealtTypes ==
  ASSUME ProcessTypes, UNCHANGED kind, NEW r \in Runs, NEW i \in Records, Dealt(r, i),
         inflight' \in [Runs -> BOOLEAN]
  PROVE  ProcessTypes'
  BY KindStays DEF Dealt, ProcessTypes

(* A record's writes land or the process dies: types stay.                 *)
LEMMA LandedTypes ==
  ASSUME ProcessTypes, HistoryTypes, UNCHANGED kind, Final \in Nat, NEW r \in Runs,
         NEW i \in Records, at[r] \in Steps, NEW cut \in Cuts, Landed(r, i, cut)
  PROVE  ProcessTypes' /\ torn' \subseteq Runs \X Records \X Steps'
<1>1. CASE cut = WHOLE /\ Dealt(r, i) /\ UNCHANGED <<inflight, torn>>
  BY <1>1, DealtTypes, KindStays DEF ProcessTypes, HistoryTypes
<1>2. CASE Die(r) /\ torn' = torn \cup {<<r, i, at[r]>>}
  BY <1>2, DieTypes, KindStays DEF HistoryTypes
<1> QED
  BY <1>1, <1>2 DEF Landed

(* A judgment, or as much of it as lands.                                  *)
JudgedTypes ==
  /\ StateTypes' /\ TokenTypes' /\ ProcessTypes' /\ HistoryTypes'
  /\ verdict' \in [Runs -> [Records -> [Steps -> {"none", "pass", "fail"}]]]
  /\ outcome' \in [Runs -> [Records -> [Steps ->
                     {"none", "out", "filtered", "failed", "gated"}]]]

(* A judgment keeps types, however much of it lands.                       *)
LEMMA JudgeTypes ==
  ASSUME StateTypes, EventTypes, TokenTypes, ProcessTypes, HistoryTypes,
         Steps = 1 .. Final, Final \in Nat \ {0},
         NEW r \in Runs, NEW i \in Records, NEW v \in Answers, NEW cut \in Cuts,
         at[r] \in Steps, Judge(r, i, v, cut)
  PROVE  JudgedTypes
<1>1. UNCHANGED <<kind, byHand, late, overtaken>>
  BY DEF Judge
<1>2. StateTypes'
  BY <1>1, KindStays DEF Judge, StateTypes
<1>3. TokenTypes'
  BY <1>1, KindStays DEF Judge, TokenTypes
<1>4. ProcessTypes' /\ torn' \subseteq Runs \X Records \X Steps'
  BY <1>1, LandedTypes DEF Judge
<1>5. HistoryTypes'
  <2>1. finishedBy' = finishedBy \/ finishedBy' = [finishedBy EXCEPT ![r] = @ \cup {i}]
    BY DEF Judge
  <2> QED
    BY <1>1, <1>4, <2>1, KindStays DEF HistoryTypes
<1>6. v \in {"pass", "fail", "bad"}
  BY RunLifeAssumption
<1>7. verdict' \in [Runs -> [Records -> [Steps -> {"none", "pass", "fail"}]]]
  BY <1>6, CellType DEF Judge, EventTypes
<1>8. outcome' \in
        [Runs -> [Records -> [Steps -> {"none", "out", "filtered", "failed", "gated"}]]]
  <2> DEFINE x == [pass |-> "out", fail |-> "filtered", bad |-> "failed"][v]
  <2>1. x \in {"out", "filtered", "failed"}
    BY <1>6
  <2>2. outcome' = outcome \/ outcome' = [outcome EXCEPT ![r][i][at[r]] = x]
    BY DEF Judge
  <2> HIDE DEF x
  <2>3. [outcome EXCEPT ![r][i][at[r]] = x] \in
          [Runs -> [Records -> [Steps -> {"none", "out", "filtered", "failed", "gated"}]]]
    BY <2>1, CellType DEF EventTypes
  <2> QED
    BY <2>2, <2>3 DEF EventTypes
<1> QED
  BY <1>2, <1>3, <1>4, <1>5, <1>7, <1>8 DEF JudgedTypes

(* Every action keeps the types.                                           *)
LEMMA TypeStep ==
  ASSUME TypeOK, AtSomeStep, [Next]_vars
  PROVE  Types'
<1>0. /\ RunTypes /\ StateTypes /\ EventTypes /\ TokenTypes /\ ProcessTypes /\ HistoryTypes
      /\ Final \in Nat \ {0} /\ Steps = 1 .. Final
  BY TypeParts, StepNumbers DEF RunTypes, Types
<1>1. ASSUME NEW r \in Runs, NEW d \in BOOLEAN, Create(r, d), UNCHANGED byHand
      PROVE  Types'
  <2>1. RunTypes' /\ StateTypes' /\ EventTypes' /\ TokenTypes'
    BY <1>0, <1>1, KindStays DEF RunTypes, StateTypes, EventTypes, TokenTypes, Create, Begin,
       ledger, process, history
  <2>2. ProcessTypes'
    BY <1>0, <1>1, KindStays DEF Create, Begin, ProcessTypes
  <2>3. HistoryTypes'
    BY <1>0, <1>1, KindStays DEF Create, Begin, Created, HistoryTypes
  <2> QED
    BY <2>1, <2>2, <2>3 DEF Types
<1>2. ASSUME NEW r \in Runs, NEW d \in BOOLEAN, Resume(r, d), byHand' \in 0 .. MaxByHand
      PROVE  Types'
  <2>1. RunTypes' /\ StateTypes' /\ EventTypes' /\ TokenTypes'
    BY <1>0, <1>2, KindStays DEF RunTypes, StateTypes, EventTypes, TokenTypes, Resume, Begin,
       ledger, process, history
  <2>2. ProcessTypes'
    BY <1>0, <1>2, KindStays DEF Resume, Begin, ProcessTypes
  <2>3. HistoryTypes'
    BY <1>0, <1>2, KindStays DEF Resume, Begin, Created, HistoryTypes
  <2> QED
    BY <2>1, <2>2, <2>3 DEF Types
<1>3. ASSUME NEW r \in Runs, NEW i \in Records, NEW s \in Steps, NEW v \in Answers,
         GtmeAnswer(r, i, s, v)
      PROVE  Types'
  <2>1. RunTypes' /\ StateTypes' /\ TokenTypes' /\ ProcessTypes' /\ HistoryTypes'
    BY <1>0, <1>3, KindStays DEF RunTypes, StateTypes, TokenTypes, ProcessTypes, HistoryTypes,
       GtmeAnswer, process, history
  <2>2. EventTypes'
    BY <1>0, <1>3, KindStays DEF EventTypes, GtmeAnswer, Recorded
  <2> QED
    BY <2>1, <2>2 DEF Types
<1>4. ASSUME NEW r \in Runs, NEW cut \in SourceCuts, Source(r, cut) PROVE Types'
  <2>1. RunTypes' /\ EventTypes' /\ TokenTypes' /\ HistoryTypes'
    BY <1>0, <1>4, KindStays DEF RunTypes, EventTypes, TokenTypes, HistoryTypes, Source, Die,
       ledger, process, history
  <2>2. StateTypes'
    BY <1>0, <1>4, KindStays DEF Source, StateTypes
  <2>3. ProcessTypes'
    BY <1>0, <1>4, DieTypes, KindStays DEF Source, ProcessTypes, process
  <2> QED
    BY <2>1, <2>2, <2>3 DEF Types
<1>5. ASSUME NEW r \in Runs, NextStep(r) PROVE Types'
  <2>1. RunTypes' /\ StateTypes' /\ EventTypes' /\ TokenTypes'
    BY <1>0, <1>5, KindStays DEF RunTypes, StateTypes, EventTypes, TokenTypes, NextStep,
       ledger, process, history
  <2>2. ProcessTypes'
    <3>1. CASE at[r] = Final
      BY <1>0, <1>5, <3>1, KindStays DEF NextStep, ProcessTypes, ledger
    <3>2. CASE at[r] # Final
      <4>1. at[r] + 1 \in Steps /\ UNCHANGED <<kind, pc, dry, inflight, broken, kills>>
        BY <1>0, <1>5, <3>2 DEF NextStep, ProcessTypes, ledger
      <4> DEFINE new == [i \in Records |->
                  IF i \in Eligible(r, at[r] + 1) THEN answer[r][i][at[r] + 1] ELSE "none"]
      <4>2. /\ at' = [at EXCEPT ![r] = at[r] + 1]
            /\ todo' = [todo EXCEPT ![r] = Eligible(r, at[r] + 1)]
            /\ open' = [open EXCEPT ![r] =
                         IF at[r] + 1 \in Exclude THEN Records \ book ELSE Records]
            /\ read' = [read EXCEPT ![r] = new]
        BY <1>0, <1>5, <3>2 DEF NextStep
      <4>3. Eligible(r, at[r] + 1) \subseteq Records
        BY DEF Eligible
      <4>4. new \in [Records -> Answers \cup {"none"}]
        BY <1>0, <4>1 DEF EventTypes
      <4> HIDE DEF new
      <4> QED
        BY <1>0, <4>1, <4>2, <4>3, <4>4, KindStays DEF ProcessTypes
    <3> QED
      BY <3>1, <3>2
  <2>3. HistoryTypes'
    <3>1. late' \subseteq late /\ UNCHANGED <<kind, byHand, torn, overtaken, finishedBy>>
      BY <1>5 DEF NextStep, ledger
    <3> QED
      BY <1>0, <3>1, KindStays DEF HistoryTypes
  <2> QED
    BY <2>1, <2>2, <2>3 DEF Types
<1>6. ASSUME NEW r \in Runs, NEW i \in Records, Gated(r, i) PROVE Types'
  <2>0. at[r] \in Steps
    BY <1>0, <1>6 DEF AtSomeStep, AtKind, Working, Gated, ProcessTypes
  <2>1. RunTypes' /\ StateTypes' /\ TokenTypes' /\ ProcessTypes' /\ HistoryTypes'
    BY <1>0, <1>6, KindStays DEF RunTypes, StateTypes, TokenTypes, ProcessTypes, HistoryTypes,
       Gated, Dealt, ledger, process, history
  <2>2. EventTypes'
    <3>1. /\ UNCHANGED <<kind, verdict, answer>>
          /\ outcome' = [outcome EXCEPT ![r][i][at[r]] = "gated"]
      BY <1>6 DEF Gated
    <3> QED
      BY <1>0, <2>0, <3>1, CellType, KindStays DEF EventTypes
  <2> QED
    BY <2>1, <2>2 DEF Types
<1>7. ASSUME NEW r \in Runs, NEW i \in Records, PrepareFails(r, i) PROVE Types'
  <2>0. at[r] \in Steps
    BY <1>0, <1>7 DEF AtSomeStep, AtKind, Working, PrepareFails, ProcessTypes
  <2>1. RunTypes' /\ StateTypes' /\ TokenTypes' /\ ProcessTypes' /\ HistoryTypes'
    BY <1>0, <1>7, KindStays DEF RunTypes, StateTypes, TokenTypes, ProcessTypes, HistoryTypes,
       PrepareFails, Dealt, ledger, process, history
  <2>2. EventTypes'
    <3>1. /\ UNCHANGED <<kind, verdict, answer>>
          /\ outcome' = [outcome EXCEPT ![r][i][at[r]] = "failed"]
      BY <1>7 DEF PrepareFails
    <3> QED
      BY <1>0, <2>0, <3>1, CellType, KindStays DEF EventTypes
  <2> QED
    BY <2>1, <2>2 DEF Types
<1>8. ASSUME NEW r \in Runs, NEW i \in Records, Pend(r, i) PROVE Types'
  <2>0. at[r] \in Steps
    BY <1>0, <1>8 DEF AtSomeStep, AtKind, Working, Pend, ProcessTypes
  <2>1. RunTypes' /\ StateTypes' /\ EventTypes' /\ HistoryTypes'
    BY <1>0, <1>8, KindStays DEF RunTypes, StateTypes, EventTypes, HistoryTypes, Pend,
       LeavePending, Dealt, ledger, process, history
  <2>2. TokenTypes'
    BY <1>0, <1>8, <2>0, KindStays DEF Pend, LeavePending, Dealt, ProcessTypes, TokenTypes
  <2>3. ProcessTypes'
    BY <1>0, <1>8, KindStays DEF Pend, LeavePending, Dealt, history, ProcessTypes
  <2> QED
    BY <2>1, <2>2, <2>3 DEF Types
<1>9. ASSUME NEW r \in Runs, NEW i \in Records, SessionPends(r, i) PROVE Types'
  <2>0. at[r] \in Steps
    BY <1>0, <1>9 DEF AtSomeStep, AtKind, Working, SessionPends, ProcessTypes
  <2>1. RunTypes' /\ StateTypes' /\ EventTypes' /\ HistoryTypes'
    BY <1>0, <1>9, KindStays DEF RunTypes, StateTypes, EventTypes, HistoryTypes, SessionPends,
       LeavePending, Dealt, ledger, process, history
  <2>2. TokenTypes'
    BY <1>0, <1>9, <2>0, KindStays DEF SessionPends, LeavePending, Dealt, ProcessTypes,
       TokenTypes
  <2>3. ProcessTypes'
    BY <1>0, <1>9, KindStays DEF SessionPends, LeavePending, Dealt, history, ProcessTypes
  <2> QED
    BY <2>1, <2>2, <2>3 DEF Types
<1>10. ASSUME NEW r \in Runs, NEW i \in Records, NEW cut \in Cuts, Collect(r, i, cut)
      PROVE  Types'
  <2>0. at[r] \in Steps
    BY <1>0, <1>10 DEF AtSomeStep, AtKind, Working, Collect, ProcessTypes
  <2>1. read[r][i] \in Answers /\ Judge(r, i, read[r][i], cut)
    BY <1>0, <1>10 DEF Collect, ProcessTypes
  <2>2. UNCHANGED kind /\ RunTypes'
    BY <1>0, <2>1 DEF Judge, RunTypes
  <2>3. JudgedTypes
    BY <1>0, <2>0, <2>1, JudgeTypes
  <2>4. EventTypes'
    BY <1>0, <1>10, <2>0, <2>2, <2>3, CellType, KindStays DEF JudgedTypes, EventTypes, Collect
  <2> QED
    BY <2>2, <2>3, <2>4 DEF JudgedTypes, Types
<1>11. ASSUME NEW r \in Runs, NEW i \in Records, NEW v \in Answers, NEW cut \in Cuts,
         Ask(r, i, v, cut)
      PROVE  Types'
  <2>0. at[r] \in Steps
    BY <1>0, <1>11 DEF AtSomeStep, AtKind, Working, Ask, ProcessTypes
  <2>1. v \in Answers /\ Judge(r, i, v, cut)
    BY <1>0, <1>11 DEF Ask, ProcessTypes
  <2>2. UNCHANGED kind /\ RunTypes'
    BY <1>0, <2>1 DEF Judge, RunTypes
  <2>3. JudgedTypes
    BY <1>0, <2>0, <2>1, JudgeTypes
  <2>4. UNCHANGED answer \/ answer' = [answer EXCEPT ![r][i][at[r]] = v]
    BY <1>11 DEF Ask, Recorded
  <2>5. [answer EXCEPT ![r][i][at[r]] = v] \in
          [Runs -> [Records -> [Steps -> Answers \cup {"none"}]]]
    BY <1>0, <2>0, CellType DEF EventTypes
  <2>6. EventTypes'
    BY <1>0, <2>2, <2>3, <2>4, <2>5, KindStays DEF JudgedTypes, EventTypes
  <2> QED
    BY <2>2, <2>3, <2>6 DEF JudgedTypes, Types
<1>12. ASSUME NEW r \in Runs, NEW i \in Records, NEW v \in Answers, NEW cut \in Cuts,
         SessionJudges(r, i, v, cut)
      PROVE  Types'
  <2>0. at[r] \in Steps
    BY <1>0, <1>12 DEF AtSomeStep, AtKind, Working, SessionJudges, ProcessTypes
  <2>1. v \in Answers /\ Judge(r, i, v, cut)
    BY <1>0, <1>12 DEF SessionJudges, ProcessTypes
  <2>2. UNCHANGED kind /\ RunTypes'
    BY <1>0, <2>1 DEF Judge, RunTypes
  <2>3. JudgedTypes
    BY <1>0, <2>0, <2>1, JudgeTypes
  <2>4. EventTypes'
    BY <1>0, <1>12, <2>0, <2>2, <2>3, CellType, KindStays DEF JudgedTypes, EventTypes,
       SessionJudges
  <2> QED
    BY <2>2, <2>3, <2>4 DEF JudgedTypes, Types
<1>13. ASSUME NEW r \in Runs, NEW i \in Records, NEW cut \in Cuts, Handoff(r, i, cut)
      PROVE  Types'
  <2>0. at[r] \in Steps
    BY <1>0, <1>13 DEF AtSomeStep, AtKind, Working, Handoff, ProcessTypes
  <2>1. RunTypes' /\ TokenTypes'
    BY <1>0, <1>13, KindStays DEF RunTypes, TokenTypes, Handoff, Landed, Dealt, Die, ledger,
       process, history
  <2>2. EventTypes'
    <3>1. /\ UNCHANGED <<kind, verdict, answer>>
          /\ outcome' = [outcome EXCEPT ![r][i][at[r]] = "out"]
      BY <1>13 DEF Handoff
    <3> QED
      BY <1>0, <2>0, <3>1, CellType, KindStays DEF EventTypes
  <2>3. StateTypes'
    BY <1>0, <1>13, <2>0, KindStays DEF Handoff, StateTypes
  <2>4. ProcessTypes'
    BY <1>0, <1>13, <2>0, LandedTypes DEF Handoff
  <2>5. HistoryTypes'
    BY <1>0, <1>13, <2>0, LandedTypes, KindStays DEF Handoff, HistoryTypes
  <2> QED
    BY <2>1, <2>2, <2>3, <2>4, <2>5 DEF Types
<1>14. ASSUME NEW r \in Runs, NEW S \in SUBSET Records, StepBreaks(r, S) PROVE Types'
  <2>1. RunTypes' /\ StateTypes' /\ EventTypes' /\ TokenTypes' /\ ProcessTypes' /\ HistoryTypes'
    BY <1>0, <1>14, KindStays DEF RunTypes, StateTypes, EventTypes, TokenTypes, ProcessTypes,
       HistoryTypes, StepBreaks, ledger, process, history
  <2> QED
    BY <2>1 DEF Types
<1>15. ASSUME NEW r \in Runs, InterruptWalk(r) PROVE Types'
  <2>0. at[r] \in Steps
    BY <1>0, <1>15 DEF AtSomeStep, AtKind, Working, InterruptWalk, ProcessTypes
  <2>1. RunTypes' /\ StateTypes' /\ EventTypes' /\ HistoryTypes'
    BY <1>0, <1>15, KindStays DEF RunTypes, StateTypes, EventTypes, HistoryTypes,
       InterruptWalk, ledger, process, history
  <2>2. TokenTypes'
    BY <1>0, <1>15, <2>0, KindStays DEF InterruptWalk, ProcessTypes, TokenTypes
  <2>3. ProcessTypes'
    BY <1>0, <1>15, KindStays DEF InterruptWalk, history, ProcessTypes
  <2> QED
    BY <2>1, <2>2, <2>3 DEF Types
<1>16. ASSUME NEW r \in Runs, NEW S \in SUBSET Records, End(r, S) PROVE Types'
  <2>1. StateTypes' /\ EventTypes' /\ TokenTypes' /\ HistoryTypes'
    BY <1>0, <1>16, KindStays DEF StateTypes, EventTypes, TokenTypes, HistoryTypes, End, Die,
       ledger, process, history
  <2>2. RunTypes'
    BY <1>0, <1>16, KindStays DEF RunTypes, End, EndStatus
  <2>3. ProcessTypes'
    <3>1. CASE Die(r)
      BY <1>0, <1>16, <3>1, DieTypes DEF End
    <3>2. CASE ~Die(r)
      <4>1. UNCHANGED <<kind, dry, todo, kills>>
        BY <1>16, <3>2 DEF End
      <4>2. /\ pc' = [pc EXCEPT ![r] = "dead"] /\ at' = [at EXCEPT ![r] = 0]
            /\ open' = [open EXCEPT ![r] = {}]
            /\ read' = [read EXCEPT ![r] = [i \in Records |-> "none"]]
            /\ inflight' = [inflight EXCEPT ![r] = FALSE]
            /\ broken' = [broken EXCEPT ![r] = FALSE]
        BY <1>16, <3>2 DEF End
      <4> QED
        BY <1>0, <4>1, <4>2, KindStays DEF ProcessTypes
    <3> QED
      BY <3>1, <3>2
  <2> QED
    BY <2>1, <2>2, <2>3 DEF Types
<1>17. ASSUME NEW r \in Runs, Kill(r) PROVE Types'
  <2>1. RunTypes' /\ StateTypes' /\ EventTypes' /\ TokenTypes' /\ HistoryTypes'
    BY <1>0, <1>17, KindStays DEF RunTypes, StateTypes, EventTypes, TokenTypes, HistoryTypes,
       Kill, Die, ledger, process, history
  <2>2. ProcessTypes'
    BY <1>0, <1>17, DieTypes DEF Kill, ledger
  <2> QED
    BY <2>1, <2>2 DEF Types
<1>18. CASE UNCHANGED vars
  BY <1>0, <1>18, KindStays DEF Types, vars, ledger, process, history, RunTypes, StateTypes,
     EventTypes, TokenTypes, ProcessTypes, HistoryTypes
<1> QED
  BY <1>1, <1>2, <1>3, <1>4, <1>5, <1>6, <1>7, <1>8, <1>9, <1>10, <1>11, <1>12, <1>13,
     <1>14, <1>15, <1>16, <1>17, <1>18, NextCases DEF StepCase

-----------------------------------------------------------------------------
(* What a step does to one record j of one run q: the rest of the proof     *)
(* argues about these cases.                                                *)

(* The record's part of the ledger stands.                                 *)
Keeps(q, j) ==
  /\ state'[q][j] = state[q][j] /\ verdict'[q][j] = verdict[q][j]
  /\ outcome'[q][j] = outcome[q][j]
  /\ \A s \in Steps : j \in pending'[q][s] <=> j \in pending[q][s]
  /\ j \in finishedBy'[q] <=> j \in finishedBy[q]
(* Its answers stand.                                                      *)
Hears(q, j) ==
  /\ answer'[q][j] = answer[q][j]
  /\ \A s \in Steps : <<q, j, s>> \in late' <=> <<q, j, s>> \in late
(* The process of the run, if any, goes on.                                *)
GoesOn(q) ==
  /\ status'[q] = status[q] /\ dry'[q] = dry[q] /\ pc'[q] = pc[q] /\ at'[q] = at[q]
  /\ (inflight[q] => inflight'[q]) /\ (broken[q] => broken'[q])
(* It holds the record as before.                                          *)
Holds(q, j) == (j \in todo'[q] <=> j \in todo[q]) /\ read'[q][j] = read[q][j]
(* It is killed.                                                           *)
Dies(q) == /\ pc[q] # "dead" /\ pc'[q] = "dead" /\ todo'[q] = {} /\ at'[q] = 0
           /\ status'[q] = status[q] /\ dry'[q] = dry[q]

(* Nothing happens to the record.                                          *)
Still(q, j) == GoesOn(q) /\ Keeps(q, j) /\ Hears(q, j) /\ Holds(q, j)
(* A process takes the run up.                                             *)
Started(q, j) ==
  /\ pc[q] = "dead" /\ status[q] # "done" /\ pc'[q] = "step" /\ status'[q] = "running"
  /\ at'[q] = 0 /\ todo'[q] = todo[q] /\ read'[q][j] = read[q][j]
  /\ Keeps(q, j) /\ Hears(q, j)
(* The process is killed and had not touched the record.                   *)
Dying(q, j) == Dies(q) /\ Keeps(q, j) /\ Hears(q, j)
(* gtme answer records an answer, a late one if the step had read or decided. *)
Answered(q, j) ==
  /\ GoesOn(q) /\ Keeps(q, j) /\ Holds(q, j)
  /\ \E s \in Steps, v \in Answers :
       /\ kind[s] = "participant" /\ j \in pending[q][s]
       /\ answer'[q][j] = [answer[q][j] EXCEPT ![s] = v]
       /\ (verdict[q][j][s] # "none" \/ (pc[q] # "dead" /\ at[q] = s /\ j \in todo[q]))
            => <<q, j, s>> \in late'
       /\ \A t \in Steps \ {s} : <<q, j, t>> \in late' <=> <<q, j, t>> \in late
(* The source adds the record.                                             *)
Joined(q, j) ==
  /\ pc[q] = "step" /\ at[q] = 0 /\ j \in Selection
  /\ state[q][j] = -1 /\ state'[q][j] = 0
  /\ verdict'[q][j] = verdict[q][j] /\ outcome'[q][j] = outcome[q][j]
  /\ \A s \in Steps : j \in pending'[q][s] <=> j \in pending[q][s]
  /\ j \in finishedBy'[q] <=> j \in finishedBy[q]
  /\ Hears(q, j)
  /\ (GoesOn(q) /\ Holds(q, j)) \/ Dies(q)
(* The process comes to the next step.                                     *)
Reached(q, j) ==
  /\ pc[q] = "step" /\ pc'[q] = "step" /\ todo[q] = {}
  /\ at'[q] = at[q] + 1 /\ at'[q] \in Steps
  /\ status'[q] = status[q] /\ dry'[q] = dry[q]
  /\ (inflight[q] => inflight'[q]) /\ (broken[q] => broken'[q])
  /\ j \in todo'[q] <=> j \in Eligible(q, at'[q])
  /\ j \in todo'[q] => read'[q][j] = answer[q][j][at'[q]]
  /\ Keeps(q, j) /\ answer'[q][j] = answer[q][j]
  /\ \A s \in Steps : <<q, j, s>> \in late /\ ~(s = at'[q] /\ j \in todo'[q])
       => <<q, j, s>> \in late'
(* The process leaves its last step, or its steps with an error or pending. *)
Left(q, j) ==
  /\ pc[q] = "step" /\ pc'[q] = "end" /\ todo'[q] = {}
  /\ status'[q] = status[q] /\ dry'[q] = dry[q]
  /\ \/ /\ at[q] = Final /\ todo[q] = {} /\ at'[q] = at[q] /\ Keeps(q, j)
        /\ (inflight[q] => inflight'[q]) /\ (broken[q] => broken'[q])
     \/ /\ at[q] \in Steps /\ at'[q] = at[q] /\ (inflight'[q] \/ broken'[q])
        /\ state'[q][j] = state[q][j] /\ verdict'[q][j] = verdict[q][j]
        /\ \A s \in Steps : j \in pending'[q][s] => 
             j \in pending[q][s] \/ (s = at[q] /\ j \in todo[q] /\ kind[s] = "participant")
        /\ j \in finishedBy'[q] <=> j \in finishedBy[q]
  /\ Hears(q, j)
(* The step fails, gates or pends the record.                              *)
PassedOver(q, j) ==
  /\ pc[q] = "step" /\ at[q] \in Steps /\ j \in todo[q] /\ j \notin todo'[q]
  /\ pc'[q] = "step" /\ at'[q] = at[q] /\ status'[q] = status[q] /\ dry'[q] = dry[q]
  /\ (broken[q] => broken'[q]) /\ state'[q][j] = state[q][j] /\ verdict'[q][j] = verdict[q][j]
  /\ j \in finishedBy'[q] <=> j \in finishedBy[q]
  /\ Hears(q, j)
  /\ \/ /\ (inflight[q] => inflight'[q]) /\ outcome'[q][j][at[q]] \in {"failed", "gated"}
        /\ \A s \in Steps : j \in pending'[q][s] <=> j \in pending[q][s]
     \/ /\ inflight'[q] /\ outcome'[q][j] = outcome[q][j] /\ kind[at[q]] # "handoff"
        /\ \A s \in Steps : j \in pending'[q][s] => s = at[q] \/ j \in pending[q][s]
(* Judged on answer v, or on as much of it as landed.                      *)
JudgedOn(q, j, v) ==
  /\ verdict'[q][j] = IF v = "bad" THEN verdict[q][j] ELSE [verdict[q][j] EXCEPT ![at[q]] = v]
  /\ \/ answer'[q][j] = answer[q][j] /\ (kind[at[q]] = "participant" => v = read[q][j])
     \/ answer'[q][j] = [answer[q][j] EXCEPT ![at[q]] = v]
  /\ state'[q][j] = state[q][j] \/ (v = "pass" /\ state'[q][j] = at[q])
  /\ \/ /\ GoesOn(q) /\ (v = "pass" => state'[q][j] = at[q])
        /\ v = "bad" => outcome'[q][j][at[q]] = "failed"
        /\ j \in pending'[q][at[q]] => kind[at[q]] = "session" /\ v = "fail"
     \/ Dies(q) /\ <<q, j, at[q]>> \in torn'
(* The step judges the record, and lives or dies of it.                    *)
Decided(q, j) ==
  /\ pc[q] = "step" /\ at[q] \in Steps /\ kind[at[q]] # "handoff" /\ j \in todo[q]
  /\ j \notin todo'[q]
  /\ \A s \in Steps : <<q, j, s>> \in late' <=> <<q, j, s>> \in late
  /\ \A s \in Steps \ {at[q]} : j \in pending'[q][s] <=> j \in pending[q][s]
  /\ j \in finishedBy[q] => j \in finishedBy'[q]
  /\ j \in finishedBy'[q] => j \in finishedBy[q] \/ (at[q] = Final /\ state'[q][j] = Final)
  /\ \E v \in Answers : JudgedOn(q, j, v)
(* The handoff takes the record, and lives or dies of it.                  *)
HandedOff(q, j) ==
  /\ pc[q] = "step" /\ at[q] \in Steps /\ kind[at[q]] = "handoff"
  /\ j \in todo[q] /\ j \notin todo'[q]
  /\ Hears(q, j) /\ verdict'[q][j] = verdict[q][j]
  /\ \A s \in Steps : j \in pending'[q][s] <=> j \in pending[q][s]
  /\ state'[q][j] = state[q][j] \/ state'[q][j] = at[q]
  /\ j \in finishedBy[q] => j \in finishedBy'[q]
  /\ j \in finishedBy'[q] => j \in finishedBy[q] \/ (at[q] = Final /\ state'[q][j] = Final)
  /\ \/ GoesOn(q) /\ state'[q][j] = at[q]
     \/ Dies(q) /\ <<q, j, at[q]>> \in torn'
(* The run ends.                                                           *)
Ended(q, j) ==
  /\ pc[q] = "end" /\ pc'[q] = "dead" /\ at'[q] = 0 /\ todo'[q] = todo[q]
  /\ status'[q] = EndStatus(q) /\ dry'[q] = dry[q]
  /\ Keeps(q, j) /\ Hears(q, j)
  /\ dry[q] \/ (j \in Completers(q) => j \in home')

(* One of these, in every step.                                            *)
Effect(q, j) ==
  \/ Still(q, j) \/ Started(q, j) \/ Dying(q, j) \/ Answered(q, j) \/ Joined(q, j)
  \/ Reached(q, j) \/ Left(q, j) \/ PassedOver(q, j) \/ Decided(q, j) \/ HandedOff(q, j)
  \/ Ended(q, j)

(* What EffectStep needs of the processes.                                 *)
ProcessShape ==
  /\ \A r \in Runs : pc[r] # "dead" => status[r] = "running"
  /\ \A r \in Runs : status[r] = "none" => \A i \in Records : state[r][i] = -1
  /\ \A r \in Runs : (pc[r] # "step" \/ at[r] = 0) => todo[r] = {}

(* The writes of record i landed, or the process died on the way.          *)
LandedWell(r, i, cut) ==
  /\ torn \subseteq torn'
  /\ \A q \in Runs \ {r} : GoesOn(q) /\ \A j \in Records : Holds(q, j)
  /\ \/ /\ cut = WHOLE /\ GoesOn(r) /\ i \notin todo'[r]
        /\ \A j \in Records \ {i} : Holds(r, j)
     \/ cut # WHOLE /\ Dies(r) /\ <<r, i, at[r]>> \in torn'

(* What Landed does to the processes.                                      *)
LEMMA LandedEffect ==
  ASSUME ProcessTypes, HistoryTypes, NEW r \in Runs, NEW i \in Records, NEW cut \in Cuts,
         pc[r] = "step", UNCHANGED status, Landed(r, i, cut)
  PROVE  LandedWell(r, i, cut)
<1>1. CASE cut = WHOLE /\ Dealt(r, i) /\ UNCHANGED <<inflight, torn>>
  BY <1>1 DEF ProcessTypes, LandedWell, GoesOn, Holds, Dealt
<1>2. CASE cut # WHOLE /\ Die(r) /\ torn' = torn \cup {<<r, i, at[r]>>}
  BY <1>2 DEF ProcessTypes, LandedWell, GoesOn, Holds, Dies, Die
<1>3. \A k \in 1 .. 3 : k # WHOLE
  BY DEF WHOLE
<1> QED
  BY <1>1, <1>2, <1>3 DEF Landed

(* What a judgment does to each record of each run.                        *)
LEMMA JudgeEffect ==
  ASSUME Types, Final \in Nat \ {0}, Steps = 1 .. Final,
         NEW r \in Runs, NEW i \in Records, NEW v \in Answers, NEW cut \in Cuts,
         pc[r] = "step", at[r] \in Steps, kind[at[r]] # "handoff", i \in todo[r],
         kind[at[r]] \in {"participant", "session", "handoff"}, Judge(r, i, v, cut),
         \/ answer' = answer /\ (kind[at[r]] = "participant" => v = read[r][i])
         \/ answer' = [answer EXCEPT ![r][i][at[r]] = v],
         NEW q \in Runs, NEW j \in Records
  PROVE  Effect(q, j)
<1>1. LandedWell(r, i, cut) /\ UNCHANGED <<status, late>>
  BY LandedEffect DEF Judge, Types
<1>2. v \in {"pass", "fail", "bad"}
  BY RunLifeAssumption
<1>3. /\ \A p \in Runs, k \in Records : <<p, k>> # <<r, i>> => state'[p][k] = state[p][k]
      /\ state'[r][i] = state[r][i] \/ (v = "pass" /\ state'[r][i] = at[r])
      /\ cut >= 3 /\ v = "pass" => state'[r][i] = at[r]
  BY DEF Types, StateTypes, Judge
<1>4. /\ \A p \in Runs, k \in Records : <<p, k>> # <<r, i>> =>
           (k \in finishedBy'[p] <=> k \in finishedBy[p])
      /\ i \in finishedBy[r] => i \in finishedBy'[r]
      /\ i \in finishedBy'[r] => i \in finishedBy[r] \/ (at[r] = Final /\ state'[r][i] = Final)
  BY <1>3 DEF Types, HistoryTypes, Judge
<1>5. /\ \A p \in Runs, k \in Records : <<p, k>> # <<r, i>> => verdict'[p][k] = verdict[p][k]
      /\ verdict'[r][i] = IF v = "bad" THEN verdict[r][i] ELSE [verdict[r][i] EXCEPT ![at[r]] = v]
  BY DEF Types, EventTypes, Judge
<1>6. /\ \A p \in Runs, k \in Records : <<p, k>> # <<r, i>> => answer'[p][k] = answer[p][k]
      /\ \/ answer'[r][i] = answer[r][i] /\ (kind[at[r]] = "participant" => v = read[r][i])
         \/ answer'[r][i] = [answer[r][i] EXCEPT ![at[r]] = v]
  <2>1. CASE answer' = [answer EXCEPT ![r][i][at[r]] = v]
    BY <2>1 DEF Types, EventTypes
  <2>2. CASE answer' = answer /\ (kind[at[r]] = "participant" => v = read[r][i])
    BY <2>2
  <2> QED
    BY <2>1, <2>2
<1>7. (cut = WHOLE => cut >= 3) /\ (cut >= 3 => ~(cut < 2))
  BY DEF WHOLE, Cuts
<1>8. /\ \A p \in Runs, k \in Records : <<p, k>> # <<r, i>> => outcome'[p][k] = outcome[p][k]
      /\ cut = WHOLE /\ v = "bad" => outcome'[r][i][at[r]] = "failed"
  <2> DEFINE x == [pass |-> "out", fail |-> "filtered", bad |-> "failed"][v]
  <2>1. v = "bad" => x = "failed"
    OBVIOUS
  <2>2. /\ outcome' = outcome \/ outcome' = [outcome EXCEPT ![r][i][at[r]] = x]
        /\ cut = WHOLE => outcome' = [outcome EXCEPT ![r][i][at[r]] = x]
    BY <1>7 DEF Judge
  <2> HIDE DEF x
  <2> QED
    BY <2>1, <2>2 DEF Types, EventTypes
<1>9. /\ \A p \in Runs, k \in Records, s \in Steps : <<p, k, s>> # <<r, i, at[r]>> =>
           (k \in pending'[p][s] <=> k \in pending[p][s])
      /\ cut = WHOLE /\ i \in pending'[r][at[r]] => kind[at[r]] = "session" /\ v = "fail"
  BY <1>2 DEF Types, TokenTypes, Judge, Settles
<1>10. ASSUME q = r, j = i PROVE Decided(q, j)
  <2>1. /\ i \notin todo'[r] /\ \A s \in Steps : <<r, i, s>> \in late' <=> <<r, i, s>> \in late
        /\ \A s \in Steps \ {at[r]} : i \in pending'[r][s] <=> i \in pending[r][s]
    BY <1>1, <1>9 DEF LandedWell, Dies
  <2>2. \/ /\ GoesOn(r) /\ (v = "pass" => state'[r][i] = at[r])
           /\ v = "bad" => outcome'[r][i][at[r]] = "failed"
           /\ i \in pending'[r][at[r]] => kind[at[r]] = "session" /\ v = "fail"
        \/ Dies(r) /\ <<r, i, at[r]>> \in torn'
    BY <1>1, <1>3, <1>7, <1>8, <1>9 DEF LandedWell
  <2>3. JudgedOn(r, i, v)
    BY <1>3, <1>5, <1>6, <2>2 DEF JudgedOn
  <2> QED
    BY <1>4, <1>10, <2>1, <2>3 DEF Decided
<1>11. ASSUME ~(q = r /\ j = i) PROVE Still(q, j) \/ Dying(q, j)
  BY <1>1, <1>3, <1>4, <1>5, <1>6, <1>8, <1>9, <1>11 DEF LandedWell, Still, Dying,
     GoesOn, Keeps,
     Hears, Holds
<1> QED
  BY <1>10, <1>11 DEF Effect

(* Every action does to each record of each run one of these.             *)
LEMMA EffectStep ==
  ASSUME TypeOK, AtSomeStep, ProcessShape, [Next]_vars
  PROVE  \A q \in Runs, j \in Records : Effect(q, j)
<1>0. /\ Types /\ Types' /\ Final \in Nat \ {0} /\ Steps = 1 .. Final
      /\ \A s \in Steps : kind[s] \in {"participant", "session", "handoff"}
  BY TypeParts, TypeStep, StepNumbers DEF RunTypes, Types
<1> SUFFICES ASSUME NEW q \in Runs, NEW j \in Records PROVE Effect(q, j)
  OBVIOUS
<1>1. ASSUME NEW r \in Runs, NEW d \in BOOLEAN, Create(r, d), UNCHANGED byHand
      PROVE  Effect(q, j)
  <2>1. ASSUME q # r PROVE Still(q, j)
    BY <1>0, <1>1, <2>1 DEF Types, RunTypes, StateTypes, EventTypes, TokenTypes, ProcessTypes,
       HistoryTypes, Still, GoesOn, Keeps, Hears, Holds, ledger, process, history, Create,
       Begin
  <2>2. ASSUME q = r PROVE Started(q, j)
    BY <1>0, <1>1, <2>2 DEF ProcessShape, Types, RunTypes, StateTypes, EventTypes, TokenTypes,
       ProcessTypes, HistoryTypes, Working, AtKind, HasToken, Alive, ledger, process,
       history, Create, Begin, Started, GoesOn, Keeps, Hears, Holds, Dies, Still, Dying
  <2> QED
    BY <2>1, <2>2 DEF Effect
<1>2. ASSUME NEW r \in Runs, NEW d \in BOOLEAN, Resume(r, d), byHand' \in 0 .. MaxByHand
      PROVE  Effect(q, j)
  <2>1. ASSUME q # r PROVE Still(q, j)
    BY <1>0, <1>2, <2>1 DEF Types, RunTypes, StateTypes, EventTypes, TokenTypes, ProcessTypes,
       HistoryTypes, Still, GoesOn, Keeps, Hears, Holds, ledger, process, history, Resume,
       Begin
  <2>2. ASSUME q = r PROVE Started(q, j)
    BY <1>0, <1>2, <2>2 DEF ProcessShape, Types, RunTypes, StateTypes, EventTypes, TokenTypes,
       ProcessTypes, HistoryTypes, Working, AtKind, HasToken, Alive, ledger, process,
       history, Resume, Begin, Started, GoesOn, Keeps, Hears, Holds, Dies, Still, Dying
  <2> QED
    BY <2>1, <2>2 DEF Effect
<1>3. ASSUME NEW r \in Runs, NEW i \in Records, NEW s \in Steps, NEW v \in Answers,
         GtmeAnswer(r, i, s, v)
      PROVE  Effect(q, j)
  <2>1. ASSUME q # r PROVE Still(q, j)
    BY <1>0, <1>3, <2>1 DEF Types, RunTypes, StateTypes, EventTypes, TokenTypes, ProcessTypes,
       HistoryTypes, Still, GoesOn, Keeps, Hears, Holds, ledger, process, history,
       GtmeAnswer, Recorded
  <2>2. ASSUME q = r, j # i PROVE Still(q, j)
    BY <1>0, <1>3, <2>2 DEF Types, EventTypes, Still, GoesOn, Keeps, Hears, Holds,
       ledger, process,
       GtmeAnswer, Recorded
  <2>3. ASSUME q = r, j = i PROVE Answered(q, j)
    <3>1. /\ kind[s] = "participant" /\ i \in pending[r][s]
          /\ answer'[r][i] = [answer[r][i] EXCEPT ![s] = v]
          /\ verdict[r][i][s] # "none" \/ (pc[r] # "dead" /\ at[r] = s /\ i \in todo[r])
              => <<r, i, s>> \in late'
          /\ \A t \in Steps \ {s} : <<r, i, t>> \in late' <=> <<r, i, t>> \in late
      BY <1>0, <1>3 DEF Types, EventTypes, Alive, GtmeAnswer, Recorded
    <3>2. GoesOn(r) /\ Keeps(r, i) /\ Holds(r, i)
      BY <1>3 DEF GtmeAnswer, process, GoesOn, Keeps, Holds
    <3> QED
      BY <2>3, <3>1, <3>2 DEF Answered
  <2> QED
    BY <2>1, <2>2, <2>3 DEF Effect
<1>4. ASSUME NEW r \in Runs, NEW cut \in SourceCuts, Source(r, cut) PROVE Effect(q, j)
  <2>1. ASSUME q # r PROVE Still(q, j)
    BY <1>0, <1>4, <2>1 DEF Types, RunTypes, StateTypes, EventTypes, TokenTypes, ProcessTypes,
       HistoryTypes, Still, GoesOn, Keeps, Hears, Holds, ledger, process, history, Source,
       Die
  <2>2. ASSUME q = r PROVE Joined(q, j) \/ Still(q, j) \/ Dying(q, j)
    BY <1>0, <1>4, <2>2 DEF ProcessShape, Types, RunTypes, StateTypes, EventTypes, TokenTypes,
       ProcessTypes, HistoryTypes, Working, AtKind, HasToken, Alive, ledger, process,
       history, Source, Die, Joined, GoesOn, Keeps, Hears, Holds, Dies, Still, Dying
  <2> QED
    BY <2>1, <2>2 DEF Effect
<1>5. ASSUME NEW r \in Runs, NextStep(r) PROVE Effect(q, j)
  <2>1. ASSUME q # r PROVE Still(q, j)
    BY <1>0, <1>5, <2>1 DEF Types, RunTypes, StateTypes, EventTypes, TokenTypes, ProcessTypes,
       HistoryTypes, Still, GoesOn, Keeps, Hears, Holds, ledger, process, history,
       NextStep
  <2>2. ASSUME q = r PROVE Reached(q, j) \/ Left(q, j)
    BY <1>0, <1>5, <2>2 DEF ProcessShape, Types, RunTypes, StateTypes, EventTypes, TokenTypes,
       ProcessTypes, HistoryTypes, Working, AtKind, HasToken, Alive, ledger, process,
       history, NextStep, Reached, Left, Eligible, GoesOn, Keeps, Hears, Holds, Dies,
       Still, Dying
  <2> QED
    BY <2>1, <2>2 DEF Effect
<1>6. ASSUME NEW r \in Runs, NEW i \in Records, Gated(r, i) PROVE Effect(q, j)
  <2>1. ASSUME q # r PROVE Still(q, j)
    BY <1>0, <1>6, <2>1 DEF Types, RunTypes, StateTypes, EventTypes, TokenTypes, ProcessTypes,
       HistoryTypes, Still, GoesOn, Keeps, Hears, Holds, ledger, process, history, Gated,
       Dealt
  <2>2. ASSUME q = r PROVE PassedOver(q, j) \/ Still(q, j)
    BY <1>0, <1>6, <2>2 DEF ProcessShape, Types, RunTypes, StateTypes, EventTypes, TokenTypes,
       ProcessTypes, HistoryTypes, Working, AtKind, HasToken, Alive, ledger, process,
       history, Gated, Dealt, PassedOver, GoesOn, Keeps, Hears, Holds, Dies, Still, Dying
  <2> QED
    BY <2>1, <2>2 DEF Effect
<1>7. ASSUME NEW r \in Runs, NEW i \in Records, PrepareFails(r, i) PROVE Effect(q, j)
  <2>1. ASSUME q # r PROVE Still(q, j)
    BY <1>0, <1>7, <2>1 DEF Types, RunTypes, StateTypes, EventTypes, TokenTypes, ProcessTypes,
       HistoryTypes, Still, GoesOn, Keeps, Hears, Holds, ledger, process, history,
       PrepareFails, Dealt
  <2>2. ASSUME q = r PROVE PassedOver(q, j) \/ Still(q, j)
    BY <1>0, <1>7, <2>2 DEF ProcessShape, Types, RunTypes, StateTypes, EventTypes, TokenTypes,
       ProcessTypes, HistoryTypes, Working, AtKind, HasToken, Alive, ledger, process,
       history, PrepareFails, Dealt, PassedOver, GoesOn, Keeps, Hears, Holds, Dies, Still,
       Dying
  <2> QED
    BY <2>1, <2>2 DEF Effect
<1>8. ASSUME NEW r \in Runs, NEW i \in Records, Pend(r, i) PROVE Effect(q, j)
  <2>1. ASSUME q # r PROVE Still(q, j)
    BY <1>0, <1>8, <2>1 DEF Types, RunTypes, StateTypes, EventTypes, TokenTypes, ProcessTypes,
       HistoryTypes, Still, GoesOn, Keeps, Hears, Holds, ledger, process, history,
       Pend, LeavePending, Dealt
  <2>2. /\ at[r] \in Steps /\ i \in todo[r] /\ i \notin todo'[r] /\ pc[r] = "step"
        /\ \A k \in Records \ {i} :
             (k \in todo'[r] <=> k \in todo[r]) /\ read'[r][k] = read[r][k]
        /\ inflight'[r] /\ kind[at[r]] # "handoff"
        /\ UNCHANGED <<pc, dry, at, broken, status, state, verdict, outcome, answer, late,
                       finishedBy>>
    BY <1>0, <1>8 DEF Types, ProcessTypes, Working, AtKind, Pend, LeavePending, Dealt
  <2>3. \A k \in Records, s \in Steps : <<k, s>> # <<i, at[r]>> =>
          (k \in pending'[r][s] <=> k \in pending[r][s])
    BY <1>0, <1>8, <2>2 DEF Types, TokenTypes, Pend, LeavePending, Dealt
  <2>4. ASSUME q = r, j # i PROVE Still(q, j)
    BY <2>2, <2>3, <2>4 DEF Still, GoesOn, Keeps, Hears, Holds
  <2>5. ASSUME q = r, j = i PROVE PassedOver(q, j)
    BY <2>2, <2>3, <2>5 DEF PassedOver, Hears
  <2> QED
    BY <2>1, <2>4, <2>5 DEF Effect
<1>9. ASSUME NEW r \in Runs, NEW i \in Records, SessionPends(r, i) PROVE Effect(q, j)
  <2>1. ASSUME q # r PROVE Still(q, j)
    BY <1>0, <1>9, <2>1 DEF Types, RunTypes, StateTypes, EventTypes, TokenTypes, ProcessTypes,
       HistoryTypes, Still, GoesOn, Keeps, Hears, Holds, ledger, process, history,
       SessionPends, LeavePending, Dealt
  <2>2. /\ at[r] \in Steps /\ i \in todo[r] /\ i \notin todo'[r] /\ pc[r] = "step"
        /\ \A k \in Records \ {i} :
             (k \in todo'[r] <=> k \in todo[r]) /\ read'[r][k] = read[r][k]
        /\ inflight'[r] /\ kind[at[r]] # "handoff"
        /\ UNCHANGED <<pc, dry, at, broken, status, state, verdict, outcome, answer, late,
                       finishedBy>>
    BY <1>0, <1>9 DEF Types, ProcessTypes, Working, AtKind, SessionPends, LeavePending, Dealt
  <2>3. \A k \in Records, s \in Steps : <<k, s>> # <<i, at[r]>> =>
          (k \in pending'[r][s] <=> k \in pending[r][s])
    BY <1>0, <1>9, <2>2 DEF Types, TokenTypes, SessionPends, LeavePending, Dealt
  <2>4. ASSUME q = r, j # i PROVE Still(q, j)
    BY <2>2, <2>3, <2>4 DEF Still, GoesOn, Keeps, Hears, Holds
  <2>5. ASSUME q = r, j = i PROVE PassedOver(q, j)
    BY <2>2, <2>3, <2>5 DEF PassedOver, Hears
  <2> QED
    BY <2>1, <2>4, <2>5 DEF Effect
<1>10. ASSUME NEW r \in Runs, NEW i \in Records, NEW cut \in Cuts, Collect(r, i, cut)
      PROVE  Effect(q, j)
  <2>1. at[r] \in Steps /\ read[r][i] \in Answers /\ Judge(r, i, read[r][i], cut)
    BY <1>0, <1>10 DEF Types, ProcessTypes, AtKind, Collect
  <2>2. /\ pc[r] = "step" /\ i \in todo[r] /\ kind[at[r]] # "handoff"
        /\ \/ answer' = answer /\ (kind[at[r]] = "participant" => read[r][i] = read[r][i])
           \/ answer' = [answer EXCEPT ![r][i][at[r]] = read[r][i]]
    BY <1>0, <1>10 DEF Working, AtKind, Recorded, Collect
  <2> QED
    BY <1>0, <2>1, <2>2, JudgeEffect DEF Types
<1>11. ASSUME NEW r \in Runs, NEW i \in Records, NEW v \in Answers, NEW cut \in Cuts,
         Ask(r, i, v, cut)
      PROVE  Effect(q, j)
  <2>1. at[r] \in Steps /\ v \in Answers /\ Judge(r, i, v, cut)
    BY <1>0, <1>11 DEF Types, ProcessTypes, AtKind, Ask
  <2>2. /\ pc[r] = "step" /\ i \in todo[r] /\ kind[at[r]] # "handoff"
        /\ \/ answer' = answer /\ (kind[at[r]] = "participant" => v = read[r][i])
           \/ answer' = [answer EXCEPT ![r][i][at[r]] = v]
    BY <1>0, <1>11 DEF Working, AtKind, Recorded, Ask
  <2> QED
    BY <1>0, <2>1, <2>2, JudgeEffect DEF Types
<1>12. ASSUME NEW r \in Runs, NEW i \in Records, NEW v \in Answers, NEW cut \in Cuts,
         SessionJudges(r, i, v, cut)
      PROVE  Effect(q, j)
  <2>1. at[r] \in Steps /\ v \in Answers /\ Judge(r, i, v, cut)
    BY <1>0, <1>12 DEF Types, ProcessTypes, AtKind, SessionJudges
  <2>2. /\ pc[r] = "step" /\ i \in todo[r] /\ kind[at[r]] # "handoff"
        /\ \/ answer' = answer /\ (kind[at[r]] = "participant" => v = read[r][i])
           \/ answer' = [answer EXCEPT ![r][i][at[r]] = v]
    BY <1>0, <1>12 DEF Working, AtKind, Recorded, SessionJudges
  <2> QED
    BY <1>0, <2>1, <2>2, JudgeEffect DEF Types
<1>13. ASSUME NEW r \in Runs, NEW i \in Records, NEW cut \in Cuts, Handoff(r, i, cut)
      PROVE  Effect(q, j)
  <2>0. /\ at[r] \in Steps /\ Landed(r, i, cut) /\ kind[at[r]] = "handoff"
        /\ UNCHANGED <<status, verdict, pending, answer, late>>
        /\ pc[r] = "step" /\ i \in todo[r]
    BY <1>0, <1>13 DEF Types, ProcessTypes, AtKind, Working, Handoff
  <2>1. LandedWell(r, i, cut)
    BY <1>0, <2>0, LandedEffect DEF Types
  <2>2. /\ \A p \in Runs, k \in Records : <<p, k>> # <<r, i>> => state'[p][k] = state[p][k]
        /\ state'[r][i] = state[r][i] \/ state'[r][i] = at[r]
        /\ cut >= 2 => state'[r][i] = at[r]
    BY <1>0, <1>13, <2>0 DEF Types, StateTypes, Handoff
  <2>3. \A p \in Runs, k \in Records : <<p, k>> # <<r, i>> => outcome'[p][k] = outcome[p][k]
    BY <1>0, <1>13, <2>0 DEF Types, EventTypes, Handoff
  <2>4. /\ \A p \in Runs, k \in Records : <<p, k>> # <<r, i>> =>
             (k \in finishedBy'[p] <=> k \in finishedBy[p])
        /\ i \in finishedBy[r] => i \in finishedBy'[r]
        /\ i \in finishedBy'[r] => i \in finishedBy[r] \/ (at[r] = Final /\ state'[r][i] = Final)
    BY <1>0, <1>13, <2>0, <2>2 DEF Types, HistoryTypes, Handoff
  <2>5. cut = WHOLE => cut >= 2
    BY DEF WHOLE
  <2>6. ASSUME q = r, j = i PROVE HandedOff(q, j)
    <3>1. /\ i \notin todo'[r]
          /\ \/ GoesOn(r) /\ state'[r][i] = at[r]
             \/ Dies(r) /\ <<r, i, at[r]>> \in torn'
      BY <2>1, <2>2, <2>5 DEF LandedWell, Dies
    <3> QED
      BY <2>0, <2>2, <2>4, <2>6, <3>1 DEF HandedOff, Hears
  <2>7. ASSUME ~(q = r /\ j = i) PROVE Still(q, j) \/ Dying(q, j)
    BY <2>0, <2>1, <2>2, <2>3, <2>4, <2>7 DEF LandedWell, Still, Dying, GoesOn,
       Keeps, Hears, Holds
  <2> QED
    BY <2>6, <2>7 DEF Effect
<1>14. ASSUME NEW r \in Runs, NEW S \in SUBSET Records, StepBreaks(r, S)
      PROVE  Effect(q, j)
  <2>1. ASSUME q # r PROVE Still(q, j)
    BY <1>0, <1>14, <2>1 DEF Types, RunTypes, StateTypes, EventTypes, TokenTypes,
       ProcessTypes,
       HistoryTypes, Still, GoesOn, Keeps, Hears, Holds, ledger, process, history, StepBreaks
  <2>2. ASSUME q = r PROVE Left(q, j)
    <3>1. /\ pc[r] = "step" /\ pc'[r] = "end" /\ todo'[r] = {} /\ at[r] \in Steps
          /\ inflight'[r] \/ broken'[r]
          /\ UNCHANGED <<status, dry, at, state, verdict, finishedBy, answer, late>>
      BY <1>0, <1>14 DEF Types, ProcessTypes, AtKind, history, StepBreaks
    <3>2. \A s \in Steps : j \in pending'[r][s] =>
             j \in pending[r][s] \/ (s = at[r] /\ j \in todo[r] /\ kind[s] = "participant")
      BY <1>0, <1>14 DEF Types, TokenTypes, AtKind, StepBreaks
    <3> QED
      BY <2>2, <3>1, <3>2 DEF Left, Hears
  <2> QED
    BY <2>1, <2>2 DEF Effect
<1>15. ASSUME NEW r \in Runs, InterruptWalk(r) PROVE Effect(q, j)
  <2>1. ASSUME q # r PROVE Still(q, j)
    BY <1>0, <1>15, <2>1 DEF Types, RunTypes, StateTypes, EventTypes, TokenTypes,
       ProcessTypes,
       HistoryTypes, Still, GoesOn, Keeps, Hears, Holds, ledger, process, history,
       InterruptWalk
  <2>2. ASSUME q = r PROVE Left(q, j)
    <3>1. /\ pc[r] = "step" /\ pc'[r] = "end" /\ todo'[r] = {} /\ at[r] \in Steps
          /\ inflight'[r] \/ broken'[r]
          /\ UNCHANGED <<status, dry, at, state, verdict, finishedBy, answer, late>>
      BY <1>0, <1>15 DEF Types, ProcessTypes, AtKind, history, InterruptWalk
    <3>2. \A s \in Steps : j \in pending'[r][s] =>
             j \in pending[r][s] \/ (s = at[r] /\ j \in todo[r] /\ kind[s] = "participant")
      BY <1>0, <1>15 DEF Types, TokenTypes, AtKind, InterruptWalk
    <3> QED
      BY <2>2, <3>1, <3>2 DEF Left, Hears
  <2> QED
    BY <2>1, <2>2 DEF Effect
<1>16. ASSUME NEW r \in Runs, NEW S \in SUBSET Records, End(r, S) PROVE Effect(q, j)
  <2>1. ASSUME q # r PROVE Still(q, j)
    BY <1>0, <1>16, <2>1 DEF Types, RunTypes, StateTypes, EventTypes, TokenTypes,
       ProcessTypes,
       HistoryTypes, Still, GoesOn, Keeps, Hears, Holds, ledger, process, history, End,
       Die
  <2>2. ASSUME q = r PROVE Ended(q, j) \/ Dying(q, j)
    BY <1>0, <1>16, <2>2 DEF ProcessShape, Types, RunTypes, StateTypes, EventTypes,
       TokenTypes,
       ProcessTypes, HistoryTypes, Working, AtKind, HasToken, Alive, ledger, process,
       history, End, Die, Ended, TerminusDue, GoesOn, Keeps, Hears, Holds, Dies, Still,
       Dying
  <2> QED
    BY <2>1, <2>2 DEF Effect
<1>17. ASSUME NEW r \in Runs, Kill(r) PROVE Effect(q, j)
  <2>1. ASSUME q # r PROVE Still(q, j)
    BY <1>0, <1>17, <2>1 DEF Types, RunTypes, StateTypes, EventTypes, TokenTypes,
       ProcessTypes,
       HistoryTypes, Still, GoesOn, Keeps, Hears, Holds, ledger, process, history, Kill,
       Die
  <2>2. ASSUME q = r PROVE Dying(q, j)
    BY <1>0, <1>17, <2>2 DEF ProcessShape, Types, RunTypes, StateTypes, EventTypes,
       TokenTypes,
       ProcessTypes, HistoryTypes, Working, AtKind, HasToken, Alive, ledger, process,
       history, Kill, Die, Dies, GoesOn, Keeps, Hears, Holds, Dies, Still, Dying
  <2> QED
    BY <2>1, <2>2 DEF Effect
<1>18. CASE UNCHANGED vars
  BY <1>0, <1>18, KindStays DEF Effect, Still, GoesOn, Keeps, Hears, Holds, vars, ledger,
     process, history
<1> QED
  BY <1>1, <1>2, <1>3, <1>4, <1>5, <1>6, <1>7, <1>8, <1>9, <1>10, <1>11, <1>12, <1>13,
     <1>14, <1>15, <1>16, <1>17, <1>18, NextCases DEF StepCase

-----------------------------------------------------------------------------
(* The inductive invariant, record by record of each run.                  *)

(* A record nobody selected is not a member; a process has a record to     *)
(* deal with only at a step, where it was eligible.                        *)
NotYet(q, j) == status[q] = "none" => state[q][j] = -1
Due(q, j) == j \in todo[q] =>
  /\ pc[q] = "step" /\ at[q] \in Steps
  /\ state[q][j] = at[q] - 1 /\ ~Stopped(q, j)

(* A handoff is never left pending.                                        *)
NoHandoffToken(q, j) == \A s \in Steps : kind[s] = "handoff" => j \notin pending[q][s]

(* While a process lives, each member is done, stopped, still ahead of it, *)
(* failed or gated at its step, or the run knows it cannot end done.       *)
DealtWith(q, j) == Alive(q) /\ state[q][j] >= 0 =>
  \/ state[q][j] = Final \/ Stopped(q, j)
  \/ j \in todo[q]
  \/ pc[q] = "step" /\ state[q][j] >= at[q]
  \/ outcome[q][j][state[q][j] + 1] \in {"failed", "gated"}
  \/ inflight[q] \/ broken[q]
Remembered(q, j) == status[q] = "done" /\ state[q][j] >= 0 =>
  \/ state[q][j] = Final \/ Stopped(q, j)
  \/ outcome[q][j][state[q][j] + 1] \in {"failed", "gated"}

Spent(q, j) == \A s \in Steps :
  j \in pending[q][s] /\ <<q, j, s>> \notin torn
    => /\ state[q][j] < s
       /\ kind[s] = "participant" => verdict[q][j][s] # "fail"

(* A record past a participant step was judged there; a record being dealt *)
(* with was read with its newest answer, or the answer came too late.      *)
JudgedBefore(q, j) == \A s \in Steps :
  kind[s] = "participant" /\ state[q][j] >= s => verdict[q][j][s] # "none"
ReadNewest(q, j) ==
  j \in todo[q] /\ <<q, j, at[q]>> \notin late => read[q][j] = answer[q][j][at[q]]
Newest(q, j) == \A s \in Steps :
  (kind[s] = "participant" /\ <<q, j, s>> \notin late)
    => /\ state[q][j] >= s => answer[q][j][s] = "pass"
       /\ verdict[q][j][s] = "fail" => answer[q][j][s] = "fail"

TookToTheEnd(q, j) == j \in finishedBy[q] => state[q][j] = Final
AtTerminus(q, j) ==
  status[q] \in {"done", "failed", "pending"} /\ ~dry[q] /\ j \in Completers(q) => j \in home

RecordInv(q, j) ==
  /\ NotYet(q, j) /\ Due(q, j) /\ NoHandoffToken(q, j)
  /\ DealtWith(q, j) /\ Remembered(q, j) /\ Spent(q, j)
  /\ JudgedBefore(q, j) /\ ReadNewest(q, j) /\ Newest(q, j)
  /\ TookToTheEnd(q, j) /\ AtTerminus(q, j)

(* What the types say of the record and its run.                           *)
Typed(q, j) ==
  /\ state[q][j] \in -1 .. Final
  /\ verdict[q][j] \in [Steps -> {"none", "pass", "fail"}]
  /\ outcome[q][j] \in [Steps -> {"none", "out", "filtered", "failed", "gated"}]
  /\ answer[q][j] \in [Steps -> Answers \cup {"none"}]
  /\ at[q] \in 0 .. Final /\ pc[q] \in {"dead", "step", "end"}
  /\ status[q] \in {"none", "running", "failed", "pending", "done"}
  /\ inflight[q] \in BOOLEAN /\ broken[q] \in BOOLEAN

(* A run some process executes is running.                                 *)
LiveRuns == \A r \in Runs : pc[r] # "dead" => status[r] = "running"

(* A record joins only a run that exists. *)
LEMMA NotYetStep ==
  ASSUME Final \in Nat \ {0}, Steps = 1 .. Final, Steps' = Steps, Final' = Final, kind' = kind,
         NEW q \in Runs, NEW j \in Records, Typed(q, j), Typed(q, j)',
         pc[q] # "dead" => status[q] = "running",
         NotYet(q, j),
         Effect(q, j)
  PROVE  NotYet(q, j)'
<1> USE DEF GoesOn, Keeps, Hears, Holds, Dies, Typed, Stopped, Alive, NotYet
<1>1. CASE Still(q, j)
  BY <1>1 DEF Still
<1>2. CASE Started(q, j)
  BY <1>2 DEF Started
<1>3. CASE Dying(q, j)
  BY <1>3 DEF Dying
<1>4. CASE Answered(q, j)
  BY <1>4 DEF Answered
<1>5. CASE Joined(q, j)
  BY <1>5 DEF Joined
<1>6. CASE Reached(q, j)
  BY <1>6 DEF Reached, Eligible
<1>7. CASE Left(q, j)
  BY <1>7 DEF Left
<1>8. CASE PassedOver(q, j)
  BY <1>8 DEF PassedOver
<1>9. CASE Decided(q, j)
  BY <1>9 DEF Decided, JudgedOn
<1>10. CASE HandedOff(q, j)
  BY <1>10 DEF HandedOff
<1>11. CASE Ended(q, j)
  BY <1>11 DEF Ended, EndStatus
<1> QED
  BY <1>1, <1>2, <1>3, <1>4, <1>5, <1>6, <1>7, <1>8, <1>9, <1>10, <1>11 DEF Effect

(* A record stays eligible until it is dealt with. *)
LEMMA DueStep ==
  ASSUME Final \in Nat \ {0}, Steps = 1 .. Final, Steps' = Steps, Final' = Final, kind' = kind,
         NEW q \in Runs, NEW j \in Records, Typed(q, j), Typed(q, j)',
         pc[q] # "dead" => status[q] = "running",
         Due(q, j),
         Effect(q, j)
  PROVE  Due(q, j)'
<1> USE DEF GoesOn, Keeps, Hears, Holds, Dies, Typed, Stopped, Alive, Due
<1>1. CASE Still(q, j)
  BY <1>1 DEF Still
<1>2. CASE Started(q, j)
  BY <1>2 DEF Started
<1>3. CASE Dying(q, j)
  BY <1>3 DEF Dying
<1>4. CASE Answered(q, j)
  BY <1>4 DEF Answered
<1>5. CASE Joined(q, j)
  BY <1>5 DEF Joined
<1>6. CASE Reached(q, j)
  BY <1>6 DEF Reached, Eligible
<1>7. CASE Left(q, j)
  BY <1>7 DEF Left
<1>8. CASE PassedOver(q, j)
  BY <1>8 DEF PassedOver
<1>9. CASE Decided(q, j)
  BY <1>9 DEF Decided, JudgedOn
<1>10. CASE HandedOff(q, j)
  BY <1>10 DEF HandedOff
<1>11. CASE Ended(q, j)
  BY <1>11 DEF Ended, EndStatus
<1> QED
  BY <1>1, <1>2, <1>3, <1>4, <1>5, <1>6, <1>7, <1>8, <1>9, <1>10, <1>11 DEF Effect

(* Only participants and sessions pend. *)
LEMMA NoHandoffTokenStep ==
  ASSUME Final \in Nat \ {0}, Steps = 1 .. Final, Steps' = Steps, Final' = Final, kind' = kind,
         NEW q \in Runs, NEW j \in Records, Typed(q, j), Typed(q, j)',
         pc[q] # "dead" => status[q] = "running",
         NoHandoffToken(q, j), Due(q, j),
         Effect(q, j)
  PROVE  NoHandoffToken(q, j)'
<1> USE DEF GoesOn, Keeps, Hears, Holds, Dies, Typed, Stopped, Alive, NoHandoffToken, Due
<1>1. CASE Still(q, j)
  BY <1>1 DEF Still
<1>2. CASE Started(q, j)
  BY <1>2 DEF Started
<1>3. CASE Dying(q, j)
  BY <1>3 DEF Dying
<1>4. CASE Answered(q, j)
  BY <1>4 DEF Answered
<1>5. CASE Joined(q, j)
  BY <1>5 DEF Joined
<1>6. CASE Reached(q, j)
  BY <1>6 DEF Reached, Eligible
<1>7. CASE Left(q, j)
  BY <1>7 DEF Left
<1>8. CASE PassedOver(q, j)
  BY <1>8 DEF PassedOver
<1>9. CASE Decided(q, j)
  BY <1>9 DEF Decided, JudgedOn
<1>10. CASE HandedOff(q, j)
  BY <1>10 DEF HandedOff
<1>11. CASE Ended(q, j)
  BY <1>11 DEF Ended, EndStatus
<1> QED
  BY <1>1, <1>2, <1>3, <1>4, <1>5, <1>6, <1>7, <1>8, <1>9, <1>10, <1>11 DEF Effect

(* No step loses a record. *)
LEMMA DealtWithStep ==
  ASSUME Final \in Nat \ {0}, Steps = 1 .. Final, Steps' = Steps, Final' = Final, kind' = kind,
         NEW q \in Runs, NEW j \in Records, Typed(q, j), Typed(q, j)',
         pc[q] # "dead" => status[q] = "running",
         DealtWith(q, j), Due(q, j),
         Effect(q, j)
  PROVE  DealtWith(q, j)'
<1> USE DEF GoesOn, Keeps, Hears, Holds, Dies, Typed, Stopped, Alive, DealtWith, Due
<1>1. CASE Still(q, j)
  BY <1>1 DEF Still
<1>2. CASE Started(q, j)
  BY <1>2 DEF Started
<1>3. CASE Dying(q, j)
  BY <1>3 DEF Dying
<1>4. CASE Answered(q, j)
  BY <1>4 DEF Answered
<1>5. CASE Joined(q, j)
  BY <1>5 DEF Joined
<1>6. CASE Reached(q, j)
  BY <1>6 DEF Reached, Eligible
<1>7. CASE Left(q, j)
  BY <1>7, SMTT(30) DEF Left
<1>8. CASE PassedOver(q, j)
  BY <1>8 DEF PassedOver
<1>9. CASE Decided(q, j)
  BY <1>9, SMTT(30) DEF Decided, JudgedOn
<1>10. CASE HandedOff(q, j)
  BY <1>10 DEF HandedOff
<1>11. CASE Ended(q, j)
  BY <1>11 DEF Ended, EndStatus
<1> QED
  BY <1>1, <1>2, <1>3, <1>4, <1>5, <1>6, <1>7, <1>8, <1>9, <1>10, <1>11 DEF Effect

(* No ending run forgets one. *)
LEMMA RememberedStep ==
  ASSUME Final \in Nat \ {0}, Steps = 1 .. Final, Steps' = Steps, Final' = Final, kind' = kind,
         NEW q \in Runs, NEW j \in Records, Typed(q, j), Typed(q, j)',
         pc[q] # "dead" => status[q] = "running",
         Remembered(q, j), DealtWith(q, j), Due(q, j),
         Effect(q, j)
  PROVE  Remembered(q, j)'
<1> USE DEF GoesOn, Keeps, Hears, Holds, Dies, Typed, Stopped, Alive, Remembered, DealtWith, Due
<1>1. CASE Still(q, j)
  BY <1>1 DEF Still
<1>2. CASE Started(q, j)
  BY <1>2 DEF Started
<1>3. CASE Dying(q, j)
  BY <1>3 DEF Dying
<1>4. CASE Answered(q, j)
  BY <1>4 DEF Answered
<1>5. CASE Joined(q, j)
  BY <1>5 DEF Joined
<1>6. CASE Reached(q, j)
  BY <1>6 DEF Reached, Eligible
<1>7. CASE Left(q, j)
  BY <1>7 DEF Left
<1>8. CASE PassedOver(q, j)
  BY <1>8 DEF PassedOver
<1>9. CASE Decided(q, j)
  BY <1>9 DEF Decided, JudgedOn
<1>10. CASE HandedOff(q, j)
  BY <1>10 DEF HandedOff
<1>11. CASE Ended(q, j)
  BY <1>11 DEF Ended, EndStatus
<1> QED
  BY <1>1, <1>2, <1>3, <1>4, <1>5, <1>6, <1>7, <1>8, <1>9, <1>10, <1>11 DEF Effect

(* A judgment spends its token. *)
LEMMA SpentStep ==
  ASSUME Final \in Nat \ {0}, Steps = 1 .. Final, Steps' = Steps, Final' = Final, kind' = kind,
         NEW q \in Runs, NEW j \in Records, Typed(q, j), Typed(q, j)',
         pc[q] # "dead" => status[q] = "running",
         Spent(q, j), Due(q, j), NoHandoffToken(q, j), torn \subseteq torn',
         Effect(q, j)
  PROVE  Spent(q, j)'
<1> USE DEF GoesOn, Keeps, Hears, Holds, Dies, Typed, Stopped, Alive, Spent, Due, NoHandoffToken
<1>1. CASE Still(q, j)
  BY <1>1 DEF Still
<1>2. CASE Started(q, j)
  BY <1>2 DEF Started
<1>3. CASE Dying(q, j)
  BY <1>3 DEF Dying
<1>4. CASE Answered(q, j)
  BY <1>4 DEF Answered
<1>5. CASE Joined(q, j)
  BY <1>5 DEF Joined
<1>6. CASE Reached(q, j)
  BY <1>6 DEF Reached, Eligible
<1>7. CASE Left(q, j)
  BY <1>7 DEF Left
<1>8. CASE PassedOver(q, j)
  <2> SUFFICES ASSUME NEW s \in Steps, j \in pending'[q][s], <<q, j, s>> \notin torn'
               PROVE  /\ state'[q][j] < s
                      /\ kind[s] = "participant" => verdict'[q][j][s] # "fail"
    BY DEF Spent
  <2>1. /\ at[q] \in Steps /\ state[q][j] = at[q] - 1 /\ at[q] \in Nat /\ s \in Nat
        /\ \A t \in Steps : kind[t] # "handoff" => verdict[q][j][t] # "fail"
    BY <1>8 DEF PassedOver, Due, Stopped
  <2>2. j \in pending[q][s] => state[q][j] < s
    BY DEF Spent
  <2>3. CASE s = at[q]
    BY <1>8, <2>1, <2>3 DEF PassedOver, JudgedOn, GoesOn, Dies, NoHandoffToken, Typed
  <2>4. CASE s # at[q]
    <3>1. j \in pending[q][s]
      BY <1>8, <2>4 DEF PassedOver
    <3>2. state'[q][j] = state[q][j] \/ state'[q][j] = at[q]
      BY <1>8 DEF PassedOver, JudgedOn
    <3>3. verdict'[q][j][s] = verdict[q][j][s]
      BY <1>8, <2>4 DEF PassedOver, JudgedOn, Typed
    <3> QED
      BY <2>1, <2>2, <2>4, <3>1, <3>2, <3>3
  <2> QED
    BY <2>3, <2>4
<1>9. CASE Decided(q, j)
  <2> SUFFICES ASSUME NEW s \in Steps, j \in pending'[q][s], <<q, j, s>> \notin torn'
               PROVE  /\ state'[q][j] < s
                      /\ kind[s] = "participant" => verdict'[q][j][s] # "fail"
    BY DEF Spent
  <2>1. /\ at[q] \in Steps /\ state[q][j] = at[q] - 1 /\ at[q] \in Nat /\ s \in Nat
        /\ \A t \in Steps : kind[t] # "handoff" => verdict[q][j][t] # "fail"
    BY <1>9 DEF Decided, Due, Stopped
  <2>2. j \in pending[q][s] => state[q][j] < s
    BY DEF Spent
  <2>3. CASE s = at[q]
    BY <1>9, <2>1, <2>3 DEF Decided, JudgedOn, GoesOn, Dies, NoHandoffToken, Typed
  <2>4. CASE s # at[q]
    <3>1. j \in pending[q][s]
      BY <1>9, <2>4 DEF Decided
    <3>2. state'[q][j] = state[q][j] \/ state'[q][j] = at[q]
      BY <1>9 DEF Decided, JudgedOn
    <3>3. verdict'[q][j][s] = verdict[q][j][s]
      BY <1>9, <2>4 DEF Decided, JudgedOn, Typed
    <3> QED
      BY <2>1, <2>2, <2>4, <3>1, <3>2, <3>3
  <2> QED
    BY <2>3, <2>4
<1>10. CASE HandedOff(q, j)
  <2> SUFFICES ASSUME NEW s \in Steps, j \in pending'[q][s], <<q, j, s>> \notin torn'
               PROVE  /\ state'[q][j] < s
                      /\ kind[s] = "participant" => verdict'[q][j][s] # "fail"
    BY DEF Spent
  <2>1. /\ at[q] \in Steps /\ state[q][j] = at[q] - 1 /\ at[q] \in Nat /\ s \in Nat
        /\ \A t \in Steps : kind[t] # "handoff" => verdict[q][j][t] # "fail"
    BY <1>10 DEF HandedOff, Due, Stopped
  <2>2. j \in pending[q][s] => state[q][j] < s
    BY DEF Spent
  <2>3. CASE s = at[q]
    BY <1>10, <2>1, <2>3 DEF HandedOff, JudgedOn, GoesOn, Dies, NoHandoffToken, Typed
  <2>4. CASE s # at[q]
    <3>1. j \in pending[q][s]
      BY <1>10, <2>4 DEF HandedOff
    <3>2. state'[q][j] = state[q][j] \/ state'[q][j] = at[q]
      BY <1>10 DEF HandedOff, JudgedOn
    <3>3. verdict'[q][j][s] = verdict[q][j][s]
      BY <1>10, <2>4 DEF HandedOff, JudgedOn, Typed
    <3> QED
      BY <2>1, <2>2, <2>4, <3>1, <3>2, <3>3
  <2> QED
    BY <2>3, <2>4
<1>11. CASE Ended(q, j)
  BY <1>11 DEF Ended, EndStatus
<1> QED
  BY <1>1, <1>2, <1>3, <1>4, <1>5, <1>6, <1>7, <1>8, <1>9, <1>10, <1>11 DEF Effect

(* To pass a participant step is to be judged. *)
LEMMA JudgedBeforeStep ==
  ASSUME Final \in Nat \ {0}, Steps = 1 .. Final, Steps' = Steps, Final' = Final, kind' = kind,
         NEW q \in Runs, NEW j \in Records, Typed(q, j), Typed(q, j)',
         pc[q] # "dead" => status[q] = "running",
         JudgedBefore(q, j), Due(q, j),
         Effect(q, j)
  PROVE  JudgedBefore(q, j)'
<1> USE DEF GoesOn, Keeps, Hears, Holds, Dies, Typed, Stopped, Alive, JudgedBefore, Due
<1>1. CASE Still(q, j)
  BY <1>1 DEF Still
<1>2. CASE Started(q, j)
  BY <1>2 DEF Started
<1>3. CASE Dying(q, j)
  BY <1>3 DEF Dying
<1>4. CASE Answered(q, j)
  BY <1>4 DEF Answered
<1>5. CASE Joined(q, j)
  BY <1>5 DEF Joined
<1>6. CASE Reached(q, j)
  BY <1>6 DEF Reached, Eligible
<1>7. CASE Left(q, j)
  BY <1>7 DEF Left
<1>8. CASE PassedOver(q, j)
  BY <1>8 DEF PassedOver
<1>9. CASE Decided(q, j)
  BY <1>9 DEF Decided, JudgedOn
<1>10. CASE HandedOff(q, j)
  BY <1>10 DEF HandedOff
<1>11. CASE Ended(q, j)
  BY <1>11 DEF Ended, EndStatus
<1> QED
  BY <1>1, <1>2, <1>3, <1>4, <1>5, <1>6, <1>7, <1>8, <1>9, <1>10, <1>11 DEF Effect

(* An answer after the reading is a late one. *)
LEMMA ReadNewestStep ==
  ASSUME Final \in Nat \ {0}, Steps = 1 .. Final, Steps' = Steps, Final' = Final, kind' = kind,
         NEW q \in Runs, NEW j \in Records, Typed(q, j), Typed(q, j)',
         pc[q] # "dead" => status[q] = "running",
         ReadNewest(q, j), Due(q, j),
         Effect(q, j)
  PROVE  ReadNewest(q, j)'
<1> USE DEF GoesOn, Keeps, Hears, Holds, Dies, Typed, Stopped, Alive, ReadNewest, Due
<1>1. CASE Still(q, j)
  BY <1>1 DEF Still
<1>2. CASE Started(q, j)
  BY <1>2 DEF Started
<1>3. CASE Dying(q, j)
  BY <1>3 DEF Dying
<1>4. CASE Answered(q, j)
  BY <1>4, SMTT(30) DEF Answered
<1>5. CASE Joined(q, j)
  BY <1>5 DEF Joined
<1>6. CASE Reached(q, j)
  BY <1>6 DEF Reached, Eligible
<1>7. CASE Left(q, j)
  BY <1>7 DEF Left
<1>8. CASE PassedOver(q, j)
  BY <1>8 DEF PassedOver
<1>9. CASE Decided(q, j)
  BY <1>9 DEF Decided, JudgedOn
<1>10. CASE HandedOff(q, j)
  BY <1>10 DEF HandedOff
<1>11. CASE Ended(q, j)
  BY <1>11 DEF Ended, EndStatus
<1> QED
  BY <1>1, <1>2, <1>3, <1>4, <1>5, <1>6, <1>7, <1>8, <1>9, <1>10, <1>11 DEF Effect

(* A judgment is the newest answer's. *)
LEMMA NewestStep ==
  ASSUME Final \in Nat \ {0}, Steps = 1 .. Final, Steps' = Steps, Final' = Final, kind' = kind,
         NEW q \in Runs, NEW j \in Records, Typed(q, j), Typed(q, j)',
         pc[q] # "dead" => status[q] = "running",
         Newest(q, j), ReadNewest(q, j), JudgedBefore(q, j), Due(q, j),
         Effect(q, j)
  PROVE  Newest(q, j)'
<1> USE DEF GoesOn, Keeps, Hears, Holds, Dies, Typed, Stopped, Alive, Newest, ReadNewest,
            JudgedBefore, Due
<1>1. CASE Still(q, j)
  BY <1>1 DEF Still
<1>2. CASE Started(q, j)
  BY <1>2 DEF Started
<1>3. CASE Dying(q, j)
  BY <1>3 DEF Dying
<1>4. CASE Answered(q, j)
  <2> SUFFICES ASSUME NEW t \in Steps, kind[t] = "participant", <<q, j, t>> \notin late'
               PROVE  /\ state'[q][j] >= t => answer'[q][j][t] = "pass"
                      /\ verdict'[q][j][t] = "fail" => answer'[q][j][t] = "fail"
    BY DEF Newest
  <2>1. PICK s \in Steps, v \in Answers :
          /\ kind[s] = "participant" /\ j \in pending[q][s]
          /\ answer'[q][j] = [answer[q][j] EXCEPT ![s] = v]
          /\ (verdict[q][j][s] # "none" \/ (pc[q] # "dead" /\ at[q] = s /\ j \in todo[q]))
               => <<q, j, s>> \in late'
          /\ \A u \in Steps \ {s} : <<q, j, u>> \in late' <=> <<q, j, u>> \in late
    BY <1>4, Zenon DEF Answered
  <2>2. state'[q][j] = state[q][j] /\ verdict'[q][j] = verdict[q][j]
    BY <1>4 DEF Answered, Keeps
  <2>3. CASE t = s
    BY <2>1, <2>2, <2>3 DEF JudgedBefore
  <2>4. CASE t # s
    BY <2>1, <2>2, <2>4 DEF Newest, Typed
  <2> QED
    BY <2>3, <2>4
<1>5. CASE Joined(q, j)
  BY <1>5 DEF Joined
<1>6. CASE Reached(q, j)
  BY <1>6 DEF Reached, Eligible
<1>7. CASE Left(q, j)
  BY <1>7 DEF Left
<1>8. CASE PassedOver(q, j)
  BY <1>8 DEF PassedOver
<1>9. CASE Decided(q, j)
  <2> SUFFICES ASSUME NEW t \in Steps, kind[t] = "participant", <<q, j, t>> \notin late'
               PROVE  /\ state'[q][j] >= t => answer'[q][j][t] = "pass"
                      /\ verdict'[q][j][t] = "fail" => answer'[q][j][t] = "fail"
    BY DEF Newest
  <2>1. /\ at[q] \in Steps /\ state[q][j] = at[q] - 1 /\ at[q] \in Nat /\ t \in Nat
        /\ verdict[q][j][t] # "fail"
    BY <1>9 DEF Decided, Due, Stopped
  <2>2. PICK v \in Answers : JudgedOn(q, j, v)
    BY <1>9 DEF Decided
  <2>3. <<q, j, t>> \notin late
    BY <1>9 DEF Decided
  <2>4. CASE t = at[q]
    <3>1. answer'[q][j][t] = v
      BY <1>9, <2>2, <2>3, <2>4, SMTT(30) DEF Decided, JudgedOn, ReadNewest, Typed
    <3>2. state'[q][j] >= t => v = "pass"
      BY <2>1, <2>2, <2>4 DEF JudgedOn
    <3>3. verdict'[q][j][t] = "fail" => v = "fail"
      BY <2>1, <2>2, <2>4 DEF JudgedOn, Typed
    <3> QED
      BY <3>1, <3>2, <3>3
  <2>5. CASE t # at[q]
    <3>1. answer'[q][j][t] = answer[q][j][t] /\ verdict'[q][j][t] = verdict[q][j][t]
      BY <2>2, <2>5 DEF JudgedOn, Typed
    <3>2. state'[q][j] >= t => state[q][j] >= t
      BY <2>1, <2>2, <2>5 DEF JudgedOn
    <3> QED
      BY <2>3, <3>1, <3>2 DEF Newest
  <2> QED
    BY <2>4, <2>5
<1>10. CASE HandedOff(q, j)
  BY <1>10 DEF HandedOff
<1>11. CASE Ended(q, j)
  BY <1>11 DEF Ended, EndStatus
<1> QED
  BY <1>1, <1>2, <1>3, <1>4, <1>5, <1>6, <1>7, <1>8, <1>9, <1>10, <1>11 DEF Effect

(* Whom a run finished it keeps at its final step. *)
LEMMA TookToTheEndStep ==
  ASSUME Final \in Nat \ {0}, Steps = 1 .. Final, Steps' = Steps, Final' = Final, kind' = kind,
         NEW q \in Runs, NEW j \in Records, Typed(q, j), Typed(q, j)',
         pc[q] # "dead" => status[q] = "running",
         TookToTheEnd(q, j), Due(q, j),
         Effect(q, j)
  PROVE  TookToTheEnd(q, j)'
<1> USE DEF GoesOn, Keeps, Hears, Holds, Dies, Typed, Stopped, Alive, TookToTheEnd, Due
<1>1. CASE Still(q, j)
  BY <1>1 DEF Still
<1>2. CASE Started(q, j)
  BY <1>2 DEF Started
<1>3. CASE Dying(q, j)
  BY <1>3 DEF Dying
<1>4. CASE Answered(q, j)
  BY <1>4 DEF Answered
<1>5. CASE Joined(q, j)
  BY <1>5 DEF Joined
<1>6. CASE Reached(q, j)
  BY <1>6 DEF Reached, Eligible
<1>7. CASE Left(q, j)
  BY <1>7 DEF Left
<1>8. CASE PassedOver(q, j)
  BY <1>8 DEF PassedOver
<1>9. CASE Decided(q, j)
  BY <1>9 DEF Decided, JudgedOn
<1>10. CASE HandedOff(q, j)
  BY <1>10 DEF HandedOff
<1>11. CASE Ended(q, j)
  BY <1>11 DEF Ended, EndStatus
<1> QED
  BY <1>1, <1>2, <1>3, <1>4, <1>5, <1>6, <1>7, <1>8, <1>9, <1>10, <1>11 DEF Effect

(* An ending run asserts its terminus. *)
LEMMA AtTerminusStep ==
  ASSUME Final \in Nat \ {0}, Steps = 1 .. Final, Steps' = Steps, Final' = Final, kind' = kind,
         NEW q \in Runs, NEW j \in Records, Typed(q, j), Typed(q, j)',
         pc[q] # "dead" => status[q] = "running",
         AtTerminus(q, j), Due(q, j), home \subseteq home',
         Effect(q, j)
  PROVE  AtTerminus(q, j)'
<1> USE DEF GoesOn, Keeps, Hears, Holds, Dies, Typed, Stopped, Alive, AtTerminus, Due, Completers
<1>1. CASE Still(q, j)
  BY <1>1 DEF Still
<1>2. CASE Started(q, j)
  BY <1>2 DEF Started
<1>3. CASE Dying(q, j)
  BY <1>3 DEF Dying
<1>4. CASE Answered(q, j)
  BY <1>4 DEF Answered
<1>5. CASE Joined(q, j)
  BY <1>5 DEF Joined
<1>6. CASE Reached(q, j)
  BY <1>6 DEF Reached, Eligible
<1>7. CASE Left(q, j)
  BY <1>7 DEF Left
<1>8. CASE PassedOver(q, j)
  BY <1>8 DEF PassedOver
<1>9. CASE Decided(q, j)
  BY <1>9 DEF Decided, JudgedOn
<1>10. CASE HandedOff(q, j)
  BY <1>10 DEF HandedOff
<1>11. CASE Ended(q, j)
  BY <1>11 DEF Ended, EndStatus
<1> QED
  BY <1>1, <1>2, <1>3, <1>4, <1>5, <1>6, <1>7, <1>8, <1>9, <1>10, <1>11 DEF Effect

-----------------------------------------------------------------------------
(* What a step does to the runs as a whole: nothing starts, or r does.     *)
Quiet ==
  /\ \A q \in Runs : status'[q] = "none" <=> status[q] = "none"
  /\ UNCHANGED <<rehearsal, overtaken>>
  /\ \A q \in Runs : pc'[q] # "dead" => pc[q] # "dead"
Starts(r) ==
  /\ \/ status[r] = "none" /\ r = Cardinality(Created) + 1
     \/ status[r] # "none" /\ UNCHANGED rehearsal
  /\ pc[r] = "dead" /\ status'[r] # "none"
  /\ \A q \in Runs \ {r} :
       pc'[q] = pc[q] /\ status'[q] = status[q] /\ rehearsal'[q] = rehearsal[q]
  /\ overtaken' = overtaken \cup {q \in Created : q < r /\ Alive(q)}
                            \cup {q \in {r} : \E later \in Created : later > q}
RunsEffect ==
  /\ kind' = kind /\ torn \subseteq torn' /\ home \subseteq home'
  /\ LiveRuns'
  /\ Quiet \/ \E r \in Runs : Starts(r)

(* What every action does to the runs.                                     *)
LEMMA RunsStep ==
  ASSUME TypeOK, LiveRuns, [Next]_vars
  PROVE  RunsEffect
<1>0. Types
  BY TypeParts
<1>1. ASSUME NEW r \in Runs, NEW d \in BOOLEAN, Create(r, d), UNCHANGED byHand
      PROVE  RunsEffect
  <2>1. kind' = kind /\ torn \subseteq torn' /\ home \subseteq home'
    BY <1>1 DEF ledger, process, history, Create, Begin
  <2>2. LiveRuns'
    BY <1>0, <1>1 DEF LiveRuns, Types, RunTypes, ProcessTypes, Alive, Working, ledger,
       process, history, Create, Begin
  <2>3. Starts(r)
    BY <1>0, <1>1 DEF LiveRuns, Types, RunTypes, ProcessTypes, HistoryTypes, Alive, Working,
       ledger, process, history, Create, Begin, Starts
  <2> QED
    BY <2>1, <2>2, <2>3 DEF RunsEffect
<1>2. ASSUME NEW r \in Runs, NEW d \in BOOLEAN, Resume(r, d), byHand' \in 0 .. MaxByHand
      PROVE  RunsEffect
  <2>1. kind' = kind /\ torn \subseteq torn' /\ home \subseteq home'
    BY <1>2 DEF ledger, process, history, Resume, Begin
  <2>2. LiveRuns'
    BY <1>0, <1>2 DEF LiveRuns, Types, RunTypes, ProcessTypes, Alive, Working, ledger,
       process, history, Resume, Begin
  <2>3. Starts(r)
    BY <1>0, <1>2 DEF LiveRuns, Types, RunTypes, ProcessTypes, HistoryTypes, Alive, Working,
       ledger, process, history, Resume, Begin, Starts
  <2> QED
    BY <2>1, <2>2, <2>3 DEF RunsEffect
<1>3. ASSUME NEW r \in Runs, NEW i \in Records, NEW s \in Steps, NEW v \in Answers,
         GtmeAnswer(r, i, s, v)
      PROVE  RunsEffect
  <2>1. kind' = kind /\ torn \subseteq torn' /\ home \subseteq home'
    BY <1>3 DEF ledger, process, history, GtmeAnswer, Recorded
  <2>2. LiveRuns'
    BY <1>0, <1>3 DEF LiveRuns, Types, RunTypes, ProcessTypes, Alive, Working, ledger,
       process, history, GtmeAnswer, Recorded
  <2>3. Quiet
    BY <1>0, <1>3 DEF LiveRuns, Types, RunTypes, ProcessTypes, HistoryTypes, Alive, Working,
       ledger, process, history, GtmeAnswer, Recorded, Quiet
  <2> QED
    BY <2>1, <2>2, <2>3 DEF RunsEffect
<1>4. ASSUME NEW r \in Runs, NEW cut \in SourceCuts, Source(r, cut) PROVE RunsEffect
  <2>1. kind' = kind /\ torn \subseteq torn' /\ home \subseteq home'
    BY <1>4 DEF ledger, process, history, Source, Die
  <2>2. LiveRuns'
    BY <1>0, <1>4 DEF LiveRuns, Types, RunTypes, ProcessTypes, Alive, Working, ledger,
       process, history, Source, Die
  <2>3. Quiet
    BY <1>0, <1>4 DEF LiveRuns, Types, RunTypes, ProcessTypes, HistoryTypes, Alive, Working,
       ledger, process, history, Source, Die, Quiet
  <2> QED
    BY <2>1, <2>2, <2>3 DEF RunsEffect
<1>5. ASSUME NEW r \in Runs, NextStep(r) PROVE RunsEffect
  <2>1. kind' = kind /\ torn \subseteq torn' /\ home \subseteq home'
    BY <1>5 DEF ledger, process, history, NextStep
  <2>2. LiveRuns'
    BY <1>0, <1>5 DEF LiveRuns, Types, RunTypes, ProcessTypes, Alive, Working, ledger,
       process, history, NextStep
  <2>3. Quiet
    BY <1>0, <1>5 DEF LiveRuns, Types, RunTypes, ProcessTypes, HistoryTypes, Alive, Working,
       ledger, process, history, NextStep, Quiet
  <2> QED
    BY <2>1, <2>2, <2>3 DEF RunsEffect
<1>6. ASSUME NEW r \in Runs, NEW i \in Records, Gated(r, i) PROVE RunsEffect
  <2>1. kind' = kind /\ torn \subseteq torn' /\ home \subseteq home'
    BY <1>6 DEF ledger, process, history, Gated, Dealt
  <2>2. LiveRuns'
    BY <1>0, <1>6 DEF LiveRuns, Types, RunTypes, ProcessTypes, Alive, Working, ledger,
       process, history, Gated, Dealt
  <2>3. Quiet
    BY <1>0, <1>6 DEF LiveRuns, Types, RunTypes, ProcessTypes, HistoryTypes, Alive, Working,
       ledger, process, history, Gated, Dealt, Quiet
  <2> QED
    BY <2>1, <2>2, <2>3 DEF RunsEffect
<1>7. ASSUME NEW r \in Runs, NEW i \in Records, PrepareFails(r, i) PROVE RunsEffect
  <2>1. kind' = kind /\ torn \subseteq torn' /\ home \subseteq home'
    BY <1>7 DEF ledger, process, history, PrepareFails, Dealt
  <2>2. LiveRuns'
    BY <1>0, <1>7 DEF LiveRuns, Types, RunTypes, ProcessTypes, Alive, Working, ledger,
       process, history, PrepareFails, Dealt
  <2>3. Quiet
    BY <1>0, <1>7 DEF LiveRuns, Types, RunTypes, ProcessTypes, HistoryTypes, Alive, Working,
       ledger, process, history, PrepareFails, Dealt, Quiet
  <2> QED
    BY <2>1, <2>2, <2>3 DEF RunsEffect
<1>8. ASSUME NEW r \in Runs, NEW i \in Records, Pend(r, i) PROVE RunsEffect
  <2>1. kind' = kind /\ torn \subseteq torn' /\ home \subseteq home'
    BY <1>8 DEF ledger, process, history, Pend, LeavePending, Dealt
  <2>2. LiveRuns'
    BY <1>0, <1>8 DEF LiveRuns, Types, RunTypes, ProcessTypes, Alive, Working, ledger,
       process, history, Pend, LeavePending, Dealt
  <2>3. Quiet
    BY <1>0, <1>8 DEF LiveRuns, Types, RunTypes, ProcessTypes, HistoryTypes, Alive, Working,
       ledger, process, history, Pend, LeavePending, Dealt, Quiet
  <2> QED
    BY <2>1, <2>2, <2>3 DEF RunsEffect
<1>9. ASSUME NEW r \in Runs, NEW i \in Records, SessionPends(r, i) PROVE RunsEffect
  <2>1. kind' = kind /\ torn \subseteq torn' /\ home \subseteq home'
    BY <1>9 DEF ledger, process, history, SessionPends, LeavePending, Dealt
  <2>2. LiveRuns'
    BY <1>0, <1>9 DEF LiveRuns, Types, RunTypes, ProcessTypes, Alive, Working, ledger,
       process, history, SessionPends, LeavePending, Dealt
  <2>3. Quiet
    BY <1>0, <1>9 DEF LiveRuns, Types, RunTypes, ProcessTypes, HistoryTypes, Alive, Working,
       ledger, process, history, SessionPends, LeavePending, Dealt, Quiet
  <2> QED
    BY <2>1, <2>2, <2>3 DEF RunsEffect
<1>10. ASSUME NEW r \in Runs, NEW i \in Records, NEW cut \in Cuts, Collect(r, i, cut)
      PROVE  RunsEffect
  <2>1. kind' = kind /\ torn \subseteq torn' /\ home \subseteq home'
    BY <1>10 DEF ledger, process, history, Collect, Judge, Landed, Dealt, Die
  <2>2. LiveRuns'
    BY <1>0, <1>10 DEF LiveRuns, Types, RunTypes, ProcessTypes, Alive, Working, ledger,
       process, history, Collect, Judge, Landed, Dealt, Die
  <2>3. Quiet
    BY <1>0, <1>10 DEF LiveRuns, Types, RunTypes, ProcessTypes, HistoryTypes, Alive, Working,
       ledger, process, history, Collect, Judge, Landed, Dealt, Die, Quiet
  <2> QED
    BY <2>1, <2>2, <2>3 DEF RunsEffect
<1>11. ASSUME NEW r \in Runs, NEW i \in Records, NEW v \in Answers, NEW cut \in Cuts,
         Ask(r, i, v, cut)
      PROVE  RunsEffect
  <2>1. kind' = kind /\ torn \subseteq torn' /\ home \subseteq home'
    BY <1>11 DEF ledger, process, history, Ask, Recorded, Judge, Landed, Dealt, Die
  <2>2. LiveRuns'
    BY <1>0, <1>11 DEF LiveRuns, Types, RunTypes, ProcessTypes, Alive, Working, ledger,
       process, history, Ask, Recorded, Judge, Landed, Dealt, Die
  <2>3. Quiet
    BY <1>0, <1>11 DEF LiveRuns, Types, RunTypes, ProcessTypes, HistoryTypes, Alive, Working,
       ledger, process, history, Ask, Recorded, Judge, Landed, Dealt, Die, Quiet
  <2> QED
    BY <2>1, <2>2, <2>3 DEF RunsEffect
<1>12. ASSUME NEW r \in Runs, NEW i \in Records, NEW v \in Answers, NEW cut \in Cuts,
         SessionJudges(r, i, v, cut)
      PROVE  RunsEffect
  <2>1. kind' = kind /\ torn \subseteq torn' /\ home \subseteq home'
    BY <1>12 DEF ledger, process, history, SessionJudges, Judge, Landed, Dealt, Die
  <2>2. LiveRuns'
    BY <1>0, <1>12 DEF LiveRuns, Types, RunTypes, ProcessTypes, Alive, Working, ledger,
       process, history, SessionJudges, Judge, Landed, Dealt, Die
  <2>3. Quiet
    BY <1>0, <1>12 DEF LiveRuns, Types, RunTypes, ProcessTypes, HistoryTypes, Alive, Working,
       ledger, process, history, SessionJudges, Judge, Landed, Dealt, Die, Quiet
  <2> QED
    BY <2>1, <2>2, <2>3 DEF RunsEffect
<1>13. ASSUME NEW r \in Runs, NEW i \in Records, NEW cut \in Cuts, Handoff(r, i, cut)
      PROVE  RunsEffect
  <2>1. kind' = kind /\ torn \subseteq torn' /\ home \subseteq home'
    BY <1>13 DEF ledger, process, history, Handoff, Landed, Dealt, Die
  <2>2. LiveRuns'
    BY <1>0, <1>13 DEF LiveRuns, Types, RunTypes, ProcessTypes, Alive, Working, ledger,
       process, history, Handoff, Landed, Dealt, Die
  <2>3. Quiet
    BY <1>0, <1>13 DEF LiveRuns, Types, RunTypes, ProcessTypes, HistoryTypes, Alive, Working,
       ledger, process, history, Handoff, Landed, Dealt, Die, Quiet
  <2> QED
    BY <2>1, <2>2, <2>3 DEF RunsEffect
<1>14. ASSUME NEW r \in Runs, NEW S \in SUBSET Records, StepBreaks(r, S) PROVE RunsEffect
  <2>1. kind' = kind /\ torn \subseteq torn' /\ home \subseteq home'
    BY <1>14 DEF ledger, process, history, StepBreaks
  <2>2. LiveRuns'
    BY <1>0, <1>14 DEF LiveRuns, Types, RunTypes, ProcessTypes, Alive, Working, ledger,
       process, history, StepBreaks
  <2>3. Quiet
    BY <1>0, <1>14 DEF LiveRuns, Types, RunTypes, ProcessTypes, HistoryTypes, Alive, Working,
       ledger, process, history, StepBreaks, Quiet
  <2> QED
    BY <2>1, <2>2, <2>3 DEF RunsEffect
<1>15. ASSUME NEW r \in Runs, InterruptWalk(r) PROVE RunsEffect
  <2>1. kind' = kind /\ torn \subseteq torn' /\ home \subseteq home'
    BY <1>15 DEF ledger, process, history, InterruptWalk
  <2>2. LiveRuns'
    BY <1>0, <1>15 DEF LiveRuns, Types, RunTypes, ProcessTypes, Alive, Working, ledger,
       process, history, InterruptWalk
  <2>3. Quiet
    BY <1>0, <1>15 DEF LiveRuns, Types, RunTypes, ProcessTypes, HistoryTypes, Alive, Working,
       ledger, process, history, InterruptWalk, Quiet
  <2> QED
    BY <2>1, <2>2, <2>3 DEF RunsEffect
<1>16. ASSUME NEW r \in Runs, NEW S \in SUBSET Records, End(r, S) PROVE RunsEffect
  <2>1. kind' = kind /\ torn \subseteq torn' /\ home \subseteq home'
    BY <1>16 DEF ledger, process, history, End, Die
  <2>2. LiveRuns'
    BY <1>0, <1>16 DEF LiveRuns, Types, RunTypes, ProcessTypes, Alive, Working, ledger,
       process, history, End, Die
  <2>3. Quiet
    <3>1. pc[r] = "end" /\ UNCHANGED <<rehearsal, overtaken>>
      BY <1>16 DEF End
    <3>2. \A q \in Runs : pc'[q] # "dead" => pc[q] # "dead"
      BY <1>0, <1>16, <3>1 DEF Types, ProcessTypes, End, Die
    <3>3. status[r] # "none"
      BY <1>0, <3>1 DEF LiveRuns
    <3>4. \A q \in Runs \ {r} : status'[q] = status[q]
      BY <1>0, <1>16 DEF Types, RunTypes, End
    <3>5. status'[r] = status[r] \/ status'[r] = EndStatus(r)
      BY <1>0, <1>16 DEF Types, RunTypes, End
    <3> QED
      BY <3>1, <3>2, <3>3, <3>4, <3>5 DEF Quiet, EndStatus
  <2> QED
    BY <2>1, <2>2, <2>3 DEF RunsEffect
<1>17. ASSUME NEW r \in Runs, Kill(r) PROVE RunsEffect
  <2>1. kind' = kind /\ torn \subseteq torn' /\ home \subseteq home'
    BY <1>17 DEF ledger, process, history, Kill, Die
  <2>2. LiveRuns'
    BY <1>0, <1>17 DEF LiveRuns, Types, RunTypes, ProcessTypes, Alive, Working, ledger,
       process, history, Kill, Die
  <2>3. Quiet
    BY <1>0, <1>17 DEF LiveRuns, Types, RunTypes, ProcessTypes, HistoryTypes, Alive, Working,
       ledger, process, history, Kill, Die, Quiet
  <2> QED
    BY <2>1, <2>2, <2>3 DEF RunsEffect
<1>18. CASE UNCHANGED vars
  BY <1>18 DEF RunsEffect, Quiet, LiveRuns, vars, ledger, process, history
<1> QED
  BY <1>1, <1>2, <1>3, <1>4, <1>5, <1>6, <1>7, <1>8, <1>9, <1>10, <1>11, <1>12, <1>13,
     <1>14, <1>15, <1>16, <1>17, <1>18, NextCases DEF StepCase

(* A record moves forward only, joins by the source's selection, and a run  *)
(* without a process neither judges nor finishes it.                       *)
Forward(q, j) ==
  /\ state'[q][j] >= state[q][j]
  /\ state'[q][j] >= 0 /\ state[q][j] < 0 => pc[q] = "step" /\ j \in Selection
  /\ Stopped(q, j) => Stopped(q, j)'
  /\ pc[q] = "dead" =>
       /\ verdict'[q][j] = verdict[q][j]
       /\ j \in finishedBy'[q] => j \in finishedBy[q]

(* Whatever happens to a record, it moves forward only.                    *)
LEMMA ForwardStep ==
  ASSUME Final \in Nat \ {0}, Steps = 1 .. Final, Steps' = Steps, Final' = Final, kind' = kind,
         NEW q \in Runs, NEW j \in Records, Typed(q, j), Typed(q, j)',
         pc[q] # "dead" => status[q] = "running", Due(q, j), Effect(q, j)
  PROVE  Forward(q, j)
<1> USE DEF GoesOn, Keeps, Hears, Holds, Dies, Typed, Stopped, Due, Forward
<1>1. CASE Still(q, j)
  BY <1>1 DEF Still
<1>2. CASE Started(q, j)
  BY <1>2 DEF Started
<1>3. CASE Dying(q, j)
  BY <1>3 DEF Dying
<1>4. CASE Answered(q, j)
  BY <1>4 DEF Answered
<1>5. CASE Joined(q, j)
  BY <1>5 DEF Joined
<1>6. CASE Reached(q, j)
  BY <1>6 DEF Reached, Eligible
<1>7. CASE Left(q, j)
  BY <1>7 DEF Left
<1>8. CASE PassedOver(q, j)
  BY <1>8 DEF PassedOver
<1>9. CASE Decided(q, j)
  BY <1>9 DEF Decided, JudgedOn
<1>10. CASE HandedOff(q, j)
  BY <1>10 DEF HandedOff
<1>11. CASE Ended(q, j)
  BY <1>11 DEF Ended, EndStatus
<1> QED
  BY <1>1, <1>2, <1>3, <1>4, <1>5, <1>6, <1>7, <1>8, <1>9, <1>10, <1>11 DEF Effect

-----------------------------------------------------------------------------
(* once:, across the runs of the pipeline.                                 *)

(* The runs that exist are the first ones; one that lives while a later    *)
(* one exists is overtaken.                                                *)
Ordered == \E n \in 0 .. NRuns : Created = 1 .. n
Overlaps == \A r, q \in Runs :
  r < q /\ status[q] # "none" /\ pc[r] # "dead" => r \in overtaken

(* The two halves of OnceWorkedOnce.                                       *)
Disjoint == \A r, q \in Runs : r < q /\ r \notin overtaken /\ ~rehearsal[r] =>
  \A i \in Members(q) : i \notin finishedBy[r] /\ ~Stopped(r, i)
EmptyMeansDone == \A r \in Runs : sourced[r] /\ Members(r) = {} => Records \subseteq Finished

(* Runs are created in order.                                              *)
LEMMA OrderedStep ==
  ASSUME Types, Ordered, RunsEffect
  PROVE  Ordered'
<1>1. CASE Quiet
  BY <1>1 DEF Ordered, Quiet, Created
<1>2. ASSUME NEW r \in Runs, Starts(r) PROVE Ordered'
  <2>1. CASE status[r] # "none"
    <3>1. Created' = Created
      BY <1>2, <2>1 DEF Starts, Created
    <3> QED
      BY <3>1 DEF Ordered
  <2>2. CASE status[r] = "none"
    <3>1. PICK n \in 0 .. NRuns : Created = 1 .. n
      BY DEF Ordered
    <3>2. r = n + 1
      BY <1>2, <2>2, <3>1, FS_Interval DEF Starts
    <3>3. Created' = Created \cup {r}
      BY <1>2, <2>2 DEF Starts, Created
    <3>4. n + 1 \in 0 .. NRuns /\ Created' = 1 .. (n + 1)
      BY <3>1, <3>2, <3>3 DEF Runs
    <3> QED
      BY <3>4 DEF Ordered
  <2> QED
    BY <2>1, <2>2
<1> QED
  BY <1>1, <1>2 DEF RunsEffect

(* A run nobody created comes after all those that were.                   *)
LEMMA CreatedInOrder ==
  ASSUME Ordered, NEW r \in Runs, Starts(r), status[r] = "none", NEW q \in Runs, q # r
  PROVE  q < r <=> status[q] # "none"
<1>1. PICK n \in 0 .. NRuns : Created = 1 .. n
  BY DEF Ordered
<1>2. r = n + 1
  <2>1. Cardinality(Created) = n
    BY <1>1, FS_Interval
  <2> QED
    BY <2>1 DEF Starts
<1>3. q \in Created <=> status[q] # "none"
  BY DEF Created
<1> QED
  BY <1>1, <1>2, <1>3 DEF Runs

(* Create and Resume note every overtaking.                                *)
LEMMA OverlapsStep ==
  ASSUME Types, Ordered, Overlaps, RunsEffect
  PROVE  Overlaps'
<1> SUFFICES ASSUME NEW r \in Runs, NEW q \in Runs, r < q, status'[q] # "none", pc'[r] # "dead"
             PROVE  r \in overtaken'
  BY DEF Overlaps
<1>1. CASE Quiet
  BY <1>1 DEF Quiet, Overlaps
<1>2. ASSUME NEW x \in Runs, Starts(x) PROVE r \in overtaken'
  <2>1. CASE r = x
    <3>1. q \in Created /\ q > r
      BY <1>2, <2>1 DEF Starts, Created, Runs
    <3> QED
      BY <1>2, <2>1, <3>1 DEF Starts
  <2>2. CASE r # x /\ q = x
    <3>1. pc[r] # "dead"
      BY <1>2, <2>2 DEF Starts
    <3>2. CASE status[q] = "none"
      <4>1. r \in Created
        BY <1>2, <2>2, <3>2, CreatedInOrder DEF Created
      <4> QED
        BY <1>2, <2>2, <3>1, <4>1 DEF Starts, Alive
    <3>3. CASE status[q] # "none"
      BY <1>2, <3>1, <3>3 DEF Starts, Overlaps
    <3> QED
      BY <3>2, <3>3
  <2>3. CASE r # x /\ q # x
    BY <1>2, <2>3 DEF Starts, Overlaps
  <2> QED
    BY <2>1, <2>2, <2>3
<1> QED
  BY <1>1, <1>2 DEF RunsEffect

(* A run's rehearsal flag and its overtaking, while a later run exists.    *)
LEMMA EarlierStands ==
  ASSUME Types, Ordered, Overlaps, RunsEffect, NEW r \in Runs, NEW q \in Runs, r < q,
         status[q] # "none", r \notin overtaken', ~rehearsal'[r]
  PROVE  r \notin overtaken /\ ~rehearsal[r] /\ pc[r] = "dead" /\ status[r] # "none"
<1>1. r \notin overtaken
  BY DEF RunsEffect, Quiet, Starts
<1>2. pc[r] = "dead"
  BY <1>1 DEF Overlaps
<1>3. status[r] # "none"
  <2>1. PICK n \in 0 .. NRuns : Created = 1 .. n
    BY DEF Ordered
  <2>2. q \in Created
    BY DEF Created
  <2>3. r \in Created
    BY <2>1, <2>2 DEF Runs
  <2> QED
    BY <2>3 DEF Created
<1>4. ~rehearsal[r]
  BY <1>3 DEF RunsEffect, Quiet, Starts
<1> QED
  BY <1>1, <1>2, <1>3, <1>4

(* What an earlier run finished is not selected again, and stands.         *)
LEMMA DisjointStep ==
  ASSUME Types, Ordered, Overlaps, Disjoint, LiveRuns, RunsEffect, Steps' = Steps,
         \A q \in Runs, j \in Records :
           NotYet(q, j) /\ TookToTheEnd(q, j) /\ Forward(q, j) /\ Typed(q, j)'
  PROVE  Disjoint'
<1> SUFFICES ASSUME NEW r \in Runs, NEW q \in Runs, r < q, r \notin overtaken', ~rehearsal'[r],
                    NEW i \in Records, state'[q][i] >= 0
             PROVE  i \notin finishedBy'[r] /\ ~Stopped(r, i)'
  BY DEF Disjoint, Members
<1>1. status[q] # "none"
  BY SMTT(30) DEF Forward, LiveRuns, NotYet, Types, StateTypes
<1>2. r \notin overtaken /\ ~rehearsal[r] /\ pc[r] = "dead" /\ status[r] # "none"
  BY <1>1, EarlierStands
<1>3. i \notin finishedBy[r] /\ ~Stopped(r, i)
  <2>1. CASE state[q][i] >= 0
    BY <1>2, <2>1 DEF Disjoint, Members
  <2>2. CASE state[q][i] < 0
    <3>1. i \notin Finished
      BY <2>2 DEF Forward, Selection
    <3>2. state[r][i] # Final /\ ~Stopped(r, i)
      BY <1>2, <3>1 DEF Finished, Created
    <3> QED
      BY <3>2 DEF TookToTheEnd
  <2>3. state[q][i] \in Int
    BY DEF Types, StateTypes
  <2> QED
    BY <2>1, <2>2, <2>3
<1>4. verdict'[r][i] = verdict[r][i] /\ (i \in finishedBy'[r] => i \in finishedBy[r])
  BY <1>2 DEF Forward
<1>5. kind' = kind
  BY DEF RunsEffect
<1> QED
  BY <1>3, <1>4, <1>5 DEF Stopped

(* A nonempty set of records has an oldest one, which a limit lets through. *)
Before == OpToRel(<, Nat)

LEMMA Oldest ==
  ASSUME NEW S \in SUBSET Nat, S # {}
  PROVE  \E m \in S : \A j \in S : ~(j < m)
<1>1. IsWellFoundedOn(Before, Nat)
  BY NatLessThanWellFounded, Zenon DEF Before
<1>2. PICK m \in S : \A j \in S : ~(<<j, m>> \in Before)
  BY <1>1, WFMin, Zenon
<1>3. \A i, j \in Nat : i < j => <<i, j>> \in Before
  BY DEF Before, OpToRel
<1> QED
  BY <1>2, <1>3

(* An empty selection leaves nothing unfinished.                           *)
LEMMA SelectionAdvances ==
  ASSUME Selection = {}
  PROVE  Records \subseteq Finished
<1> SUFFICES ASSUME Records \ Finished # {} PROVE FALSE
  OBVIOUS
<1>1. Records \ Finished \in SUBSET Nat
  BY DEF Records
<1>2. PICK m \in Records \ Finished : \A j \in Records \ Finished : ~(j < m)
  BY <1>1, Oldest
<1>3. {j \in Records \ Finished : j < m} = {}
  BY <1>2
<1>4. Cardinality({j \in Records \ Finished : j < m}) = 0
  BY <1>3, FS_EmptySet
<1>5. m \in Selection
  BY <1>4 DEF Selection
<1> QED
  BY <1>5

(* Finished records stay finished.                                         *)
LEMMA FinishedGrows ==
  ASSUME Types, Ordered, RunsEffect, Steps' = Steps, Final' = Final, Final \in Nat,
         \A q \in Runs, j \in Records : Forward(q, j) /\ Typed(q, j)'
  PROVE  Finished \subseteq Finished'
<1> SUFFICES ASSUME NEW i \in Records, NEW r \in Runs, status[r] # "none", ~rehearsal[r],
                    state[r][i] = Final \/ Stopped(r, i)
             PROVE  i \in Finished'
  BY DEF Finished, Created
<1>1. status'[r] # "none" /\ ~rehearsal'[r]
  BY DEF RunsEffect, Quiet, Starts
<1>2. state'[r][i] = Final \/ Stopped(r, i)'
  BY DEF Forward, Typed
<1> QED
  BY <1>1, <1>2 DEF Finished, Created

(* A source that comes up empty had nothing to select.                      *)
LEMMA SourceStep ==
  ASSUME TypeOK, AtSomeStep, [Next]_vars
  PROVE  \A q \in Runs : ~sourced[q] /\ sourced'[q] /\ Members(q)' = {} => Selection = {}
<1>0. Types /\ Types' /\ Final \in Nat \ {0}
  BY TypeParts, TypeStep, StepNumbers DEF RunTypes, Types
<1> SUFFICES ASSUME NEW q \in Runs, ~sourced[q], sourced'[q], Members(q)' = {}
             PROVE  Selection = {}
  OBVIOUS
<1>1. ASSUME NEW r \in Runs, NEW d \in BOOLEAN, Create(r, d), UNCHANGED byHand
      PROVE  Selection = {}
  BY <1>1 DEF ledger, Create, Begin
<1>2. ASSUME NEW r \in Runs, NEW d \in BOOLEAN, Resume(r, d), byHand' \in 0 .. MaxByHand
      PROVE  Selection = {}
  BY <1>2 DEF ledger, Resume, Begin
<1>3. ASSUME NEW r \in Runs, NEW i \in Records, NEW s \in Steps, NEW v \in Answers,
         GtmeAnswer(r, i, s, v)
      PROVE  Selection = {}
  BY <1>3 DEF ledger, GtmeAnswer, Recorded
<1>4. ASSUME NEW r \in Runs, NEW cut \in SourceCuts, Source(r, cut) PROVE Selection = {}
  <2>1. r = q /\ cut = WHOLE
    BY <1>0, <1>4 DEF Types, RunTypes, Source
  <2>2. \A i \in Selection : i \in Records /\ i <= WHOLE
    BY DEF Selection, Records, WHOLE
  <2>3. \A i \in Selection : state'[q][i] >= 0
    BY <1>0, <1>4, <2>1, <2>2 DEF Types, StateTypes, Source
  <2> QED
    BY <2>2, <2>3 DEF Members
<1>5. ASSUME NEW r \in Runs, NextStep(r) PROVE Selection = {}
  BY <1>5 DEF ledger, NextStep
<1>6. ASSUME NEW r \in Runs, NEW i \in Records, Gated(r, i) PROVE Selection = {}
  BY <1>6 DEF ledger, Gated, Dealt
<1>7. ASSUME NEW r \in Runs, NEW i \in Records, PrepareFails(r, i) PROVE Selection = {}
  BY <1>7 DEF ledger, PrepareFails, Dealt
<1>8. ASSUME NEW r \in Runs, NEW i \in Records, Pend(r, i) PROVE Selection = {}
  BY <1>8 DEF ledger, Pend, LeavePending, Dealt
<1>9. ASSUME NEW r \in Runs, NEW i \in Records, SessionPends(r, i) PROVE Selection = {}
  BY <1>9 DEF ledger, SessionPends, LeavePending, Dealt
<1>10. ASSUME NEW r \in Runs, NEW i \in Records, NEW cut \in Cuts, Collect(r, i, cut)
      PROVE  Selection = {}
  BY <1>10 DEF ledger, Collect, Judge, Landed, Dealt, Die
<1>11. ASSUME NEW r \in Runs, NEW i \in Records, NEW v \in Answers, NEW cut \in Cuts,
         Ask(r, i, v, cut)
      PROVE  Selection = {}
  BY <1>11 DEF ledger, Ask, Recorded, Judge, Landed, Dealt, Die
<1>12. ASSUME NEW r \in Runs, NEW i \in Records, NEW v \in Answers, NEW cut \in Cuts,
         SessionJudges(r, i, v, cut)
      PROVE  Selection = {}
  BY <1>12 DEF ledger, SessionJudges, Judge, Landed, Dealt, Die
<1>13. ASSUME NEW r \in Runs, NEW i \in Records, NEW cut \in Cuts, Handoff(r, i, cut)
      PROVE  Selection = {}
  BY <1>13 DEF ledger, Handoff, Landed, Dealt, Die
<1>14. ASSUME NEW r \in Runs, NEW S \in SUBSET Records, StepBreaks(r, S)
      PROVE  Selection = {}
  BY <1>14 DEF ledger, StepBreaks
<1>15. ASSUME NEW r \in Runs, InterruptWalk(r) PROVE Selection = {}
  BY <1>15 DEF ledger, InterruptWalk
<1>16. ASSUME NEW r \in Runs, NEW S \in SUBSET Records, End(r, S) PROVE Selection = {}
  BY <1>16 DEF ledger, End, Die
<1>17. ASSUME NEW r \in Runs, Kill(r) PROVE Selection = {}
  BY <1>17 DEF ledger, Kill, Die
<1>18. CASE UNCHANGED vars
  BY <1>18 DEF vars, ledger
<1> QED
  BY <1>1, <1>2, <1>3, <1>4, <1>5, <1>6, <1>7, <1>8, <1>9, <1>10, <1>11, <1>12, <1>13,
     <1>14, <1>15, <1>16, <1>17, <1>18, NextCases DEF StepCase

(* A run without members stays one only when all is done.                  *)
LEMMA EmptyMeansDoneStep ==
  ASSUME TypeOK, AtSomeStep, Ordered, EmptyMeansDone, RunsEffect,
         Steps' = Steps, Final' = Final,
         \A q \in Runs, j \in Records : Forward(q, j) /\ Typed(q, j)',
         [Next]_vars
  PROVE  EmptyMeansDone'
<1>1. Types /\ Types' /\ Final \in Nat
  BY TypeParts, TypeStep, StepNumbers DEF RunTypes, Types
<1>2. Finished \subseteq Finished'
  BY <1>1, FinishedGrows
<1> SUFFICES ASSUME NEW q \in Runs, sourced'[q], Members(q)' = {}
             PROVE  Records \subseteq Finished
  BY <1>2 DEF EmptyMeansDone
<1>3. CASE sourced[q]
  <2>1. \A j \in Records : ~(state'[q][j] >= 0)
    BY DEF Members
  <2>2. \A j \in Records : ~(state[q][j] >= 0)
    BY <1>1, <2>1 DEF Forward, Types, StateTypes
  <2>3. Members(q) = {}
    BY <2>2 DEF Members
  <2> QED
    BY <1>3, <2>3 DEF EmptyMeansDone
<1>4. CASE ~sourced[q]
  BY <1>4, SourceStep, SelectionAdvances
<1> QED
  BY <1>3, <1>4

-----------------------------------------------------------------------------
(* The handoff: its rows and its group.                                    *)
Untorn(i) == \A q \in Runs, s \in Steps : <<q, i, s>> \notin torn

(* A deliveries row stands for a member, unless a kill fell between them.  *)
SentHeld == \A i \in sent : Untorn(i) => i \in book

HandsKept ==
  /\ UNCHANGED <<sent, book>>
  /\ kind[Final] = "handoff" => UNCHANGED finishedBy
HandsOff == \E r \in Runs, i \in Records, cut \in Cuts : Handoff(r, i, cut)

(* Only a handoff hands off.                                               *)
LEMMA HandsStep ==
  ASSUME TypeOK, [Next]_vars
  PROVE  HandsKept \/ HandsOff
<1>0. Types
  BY TypeParts
<1>1. ASSUME NEW r \in Runs, NEW d \in BOOLEAN, Create(r, d), UNCHANGED byHand
      PROVE  HandsKept \/ HandsOff
  BY <1>1 DEF HandsKept, Working, AtKind, ledger, process, history, Create, Begin
<1>2. ASSUME NEW r \in Runs, NEW d \in BOOLEAN, Resume(r, d), byHand' \in 0 .. MaxByHand
      PROVE  HandsKept \/ HandsOff
  BY <1>2 DEF HandsKept, Working, AtKind, ledger, process, history, Resume, Begin
<1>3. ASSUME NEW r \in Runs, NEW i \in Records, NEW s \in Steps, NEW v \in Answers,
         GtmeAnswer(r, i, s, v)
      PROVE  HandsKept \/ HandsOff
  BY <1>3 DEF HandsKept, Working, AtKind, ledger, process, history, GtmeAnswer, Recorded
<1>4. ASSUME NEW r \in Runs, NEW cut \in SourceCuts, Source(r, cut)
      PROVE  HandsKept \/ HandsOff
  BY <1>4 DEF HandsKept, Working, AtKind, ledger, process, history, Source, Die
<1>5. ASSUME NEW r \in Runs, NextStep(r) PROVE HandsKept \/ HandsOff
  BY <1>5 DEF HandsKept, Working, AtKind, ledger, process, history, NextStep
<1>6. ASSUME NEW r \in Runs, NEW i \in Records, Gated(r, i) PROVE HandsKept \/ HandsOff
  BY <1>6 DEF HandsKept, Working, AtKind, ledger, process, history, Gated, Dealt
<1>7. ASSUME NEW r \in Runs, NEW i \in Records, PrepareFails(r, i)
      PROVE  HandsKept \/ HandsOff
  BY <1>7 DEF HandsKept, Working, AtKind, ledger, process, history, PrepareFails, Dealt
<1>8. ASSUME NEW r \in Runs, NEW i \in Records, Pend(r, i) PROVE HandsKept \/ HandsOff
  BY <1>8 DEF HandsKept, Working, AtKind, ledger, process, history, Pend, LeavePending,
     Dealt
<1>9. ASSUME NEW r \in Runs, NEW i \in Records, SessionPends(r, i)
      PROVE  HandsKept \/ HandsOff
  BY <1>9 DEF HandsKept, Working, AtKind, ledger, process, history, SessionPends,
     LeavePending, Dealt
<1>10. ASSUME NEW r \in Runs, NEW i \in Records, NEW cut \in Cuts, Collect(r, i, cut)
      PROVE  HandsKept \/ HandsOff
  BY <1>10 DEF HandsKept, Working, AtKind, ledger, process, history, Collect, Judge, Landed,
     Dealt, Die
<1>11. ASSUME NEW r \in Runs, NEW i \in Records, NEW v \in Answers, NEW cut \in Cuts,
         Ask(r, i, v, cut)
      PROVE  HandsKept \/ HandsOff
  BY <1>11 DEF HandsKept, Working, AtKind, ledger, process, history, Ask, Recorded, Judge,
     Landed, Dealt, Die
<1>12. ASSUME NEW r \in Runs, NEW i \in Records, NEW v \in Answers, NEW cut \in Cuts,
         SessionJudges(r, i, v, cut)
      PROVE  HandsKept \/ HandsOff
  BY <1>12 DEF HandsKept, Working, AtKind, ledger, process, history, SessionJudges, Judge,
     Landed, Dealt, Die
<1>13. ASSUME NEW r \in Runs, NEW i \in Records, NEW cut \in Cuts, Handoff(r, i, cut)
      PROVE  HandsKept \/ HandsOff
  BY <1>13 DEF HandsOff
<1>14. ASSUME NEW r \in Runs, NEW S \in SUBSET Records, StepBreaks(r, S)
      PROVE  HandsKept \/ HandsOff
  BY <1>14 DEF HandsKept, Working, AtKind, ledger, process, history, StepBreaks
<1>15. ASSUME NEW r \in Runs, InterruptWalk(r) PROVE HandsKept \/ HandsOff
  BY <1>15 DEF HandsKept, Working, AtKind, ledger, process, history, InterruptWalk
<1>16. ASSUME NEW r \in Runs, NEW S \in SUBSET Records, End(r, S)
      PROVE  HandsKept \/ HandsOff
  BY <1>16 DEF HandsKept, Working, AtKind, ledger, process, history, End, Die
<1>17. ASSUME NEW r \in Runs, Kill(r) PROVE HandsKept \/ HandsOff
  BY <1>17 DEF HandsKept, Working, AtKind, ledger, process, history, Kill, Die
<1>18. CASE UNCHANGED vars
  BY <1>18 DEF HandsKept, vars, ledger, history
<1> QED
  BY <1>1, <1>2, <1>3, <1>4, <1>5, <1>6, <1>7, <1>8, <1>9, <1>10, <1>11, <1>12, <1>13,
     <1>14, <1>15, <1>16, <1>17, <1>18, NextCases DEF StepCase

(* A row and its member land together, or a kill came between them.        *)
LEMMA HandoffStep ==
  ASSUME TypeOK, SentHeld, HandoffHolds, [Next]_vars, kind' = kind, torn \subseteq torn'
  PROVE  SentHeld' /\ HandoffHolds'
<1>0. Types /\ Steps' = Steps /\ Final' = Final
  BY TypeParts, KindStays
<1>1. \A i \in Records : Untorn(i)' => Untorn(i)
  BY <1>0 DEF Untorn
<1>2. CASE HandsKept
  BY <1>0, <1>1, <1>2 DEF HandsKept, SentHeld, HandoffHolds, Untorn, Types, RunTypes
<1>3. ASSUME NEW r \in Runs, NEW i \in Records, NEW cut \in Cuts, Handoff(r, i, cut)
      PROVE  SentHeld' /\ HandoffHolds'
  <2>1. at[r] \in Steps /\ (cut # WHOLE => ~Untorn(i)')
    <3>1. at[r] \in Steps
      BY <1>0, <1>3, StepNumbers DEF Handoff, AtKind, Types, RunTypes, ProcessTypes
    <3>2. cut # WHOLE => <<r, i, at[r]>> \in torn'
      BY <1>3 DEF Handoff, Landed
    <3> QED
      BY <1>0, <3>1, <3>2 DEF Untorn
  <2>2. book \subseteq book' /\ sent \subseteq sent' /\ sent' \subseteq sent \cup {i}
    BY <1>3 DEF Handoff
  <2>3. i \in sent' => i \in sent \/ cut # WHOLE \/ i \in book'
    BY <1>3 DEF Handoff, RowDue
  <2>4. SentHeld'
    BY <1>0, <1>1, <2>1, <2>2, <2>3 DEF SentHeld, Types, RunTypes
  <2>5. ASSUME NEW q \in Runs, NEW j \in Records, j \in finishedBy'[q],
               kind[Final] = "handoff", Untorn(j)'
        PROVE  j \in book'
    <3>1. CASE j \in finishedBy[q]
      BY <1>1, <2>2, <2>5, <3>1 DEF HandoffHolds, Untorn
    <3>2. CASE j \notin finishedBy[q]
      <4>1. j = i /\ ~dry[r]
        BY <1>0, <1>3, <2>5, <3>2 DEF Handoff, Types, HistoryTypes
      <4>2. cut = WHOLE
        BY <2>1, <2>5, <4>1
      <4>3. i \in sent \/ i \in book'
        BY <1>3, <4>1, <4>2 DEF Handoff, RowDue
      <4> QED
        BY <1>1, <2>2, <2>5, <4>1, <4>3 DEF SentHeld
    <3> QED
      BY <3>1, <3>2
  <2>6. HandoffHolds'
    BY <1>0, <2>5 DEF HandoffHolds, Untorn
  <2> QED
    BY <2>4, <2>6
<1> QED
  BY <1>2, <1>3, HandsStep DEF HandsOff

-----------------------------------------------------------------------------
(* The inductive invariant.                                                *)
IInv ==
  /\ TypeOK /\ LiveRuns
  /\ \A q \in Runs, j \in Records : RecordInv(q, j)
  /\ Ordered /\ Overlaps /\ Disjoint /\ EmptyMeansDone
  /\ SentHeld /\ HandoffHolds

(* The invariant holds initially.                                          *)
LEMMA InitIInv == Init => IInv
<1> SUFFICES ASSUME Init PROVE IInv
  OBVIOUS
<1>1. Final \in Nat \ {0} /\ Steps = 1 .. Final
  BY StepNumbers DEF Init
<1>2. TypeOK
  BY <1>1 DEF Init, TypeOK
<1>3. LiveRuns
  BY DEF Init, LiveRuns
<1>4. ASSUME NEW q \in Runs, NEW j \in Records PROVE RecordInv(q, j)
  <2>1. /\ status[q] = "none" /\ state[q][j] = -1 /\ pc[q] = "dead" /\ todo[q] = {}
        /\ finishedBy[q] = {}
        /\ \A s \in Steps : pending[q][s] = {} /\ verdict[q][j][s] = "none"
    BY DEF Init
  <2>2. NotYet(q, j) /\ Due(q, j) /\ NoHandoffToken(q, j)
    BY <2>1 DEF NotYet, Due, NoHandoffToken
  <2>3. DealtWith(q, j) /\ Remembered(q, j) /\ Spent(q, j)
    BY <2>1 DEF DealtWith, Alive, Remembered, Spent
  <2>4. JudgedBefore(q, j) /\ ReadNewest(q, j) /\ Newest(q, j)
    BY <1>1, <2>1 DEF JudgedBefore, ReadNewest, Newest
  <2>5. TookToTheEnd(q, j) /\ AtTerminus(q, j)
    BY <2>1 DEF TookToTheEnd, AtTerminus
  <2> QED
    BY <2>2, <2>3, <2>4, <2>5 DEF RecordInv
<1>5. Created = {} /\ \A q \in Runs : Members(q) = {}
  BY DEF Init, Created, Members
<1>6. Ordered /\ Overlaps /\ Disjoint /\ EmptyMeansDone
  <2>1. Created = 1 .. 0 /\ 0 \in 0 .. NRuns
    BY <1>5
  <2> QED
    BY <1>5, <2>1 DEF Init, Ordered, Overlaps, Disjoint, EmptyMeansDone
<1>7. SentHeld /\ HandoffHolds
  BY DEF Init, SentHeld, HandoffHolds
<1> QED
  BY <1>2, <1>3, <1>4, <1>6, <1>7 DEF IInv

(* And every step keeps it.                                                *)
LEMMA NextIInv == IInv /\ [Next]_vars => IInv'
<1> SUFFICES ASSUME IInv, [Next]_vars PROVE IInv'
  OBVIOUS
<1>1. /\ TypeOK /\ LiveRuns /\ \A q \in Runs, j \in Records : RecordInv(q, j)
      /\ Ordered /\ Overlaps /\ Disjoint /\ EmptyMeansDone /\ SentHeld /\ HandoffHolds
  BY DEF IInv
<1>2. Types /\ Final \in Nat \ {0} /\ Steps = 1 .. Final
  BY <1>1, TypeParts, StepNumbers DEF RunTypes, Types
<1>3. AtSomeStep /\ ProcessShape
  <2>1. \A q \in Runs, j \in Records : NotYet(q, j) /\ Due(q, j)
    BY <1>1 DEF RecordInv
  <2>2. \A q \in Runs : todo[q] # {} => pc[q] = "step" /\ at[q] \in Steps
    BY <1>2, <2>1 DEF Due, Types, ProcessTypes
  <2> QED
    BY <1>1, <1>2, <2>1, <2>2 DEF AtSomeStep, ProcessShape, LiveRuns, NotYet
<1>4. Types' /\ TypeOK'
  <2>1. Types'
    BY <1>1, <1>3, TypeStep
  <2> QED
    BY <2>1 DEF TypeOK, Types, RunTypes, StateTypes, EventTypes, TokenTypes, ProcessTypes,
       HistoryTypes
<1>5. RunsEffect
  BY <1>1, RunsStep
<1>6. /\ kind' = kind /\ torn \subseteq torn' /\ home \subseteq home' /\ LiveRuns'
      /\ Steps' = Steps /\ Final' = Final
  BY <1>5, KindStays DEF RunsEffect
<1>7. \A q \in Runs, j \in Records : Effect(q, j)
  BY <1>1, <1>3, EffectStep
<1>8. \A q \in Runs, j \in Records : Typed(q, j)
  BY <1>2 DEF Typed, Types, RunTypes, StateTypes, EventTypes, ProcessTypes
<1>9. \A q \in Runs, j \in Records : Typed(q, j)'
  BY <1>4, <1>6 DEF Typed, Types, RunTypes, StateTypes, EventTypes, ProcessTypes
<1>10. ASSUME NEW q \in Runs, NEW j \in Records PROVE RecordInv(q, j)' /\ Forward(q, j)
  <2>1. /\ Typed(q, j) /\ Typed(q, j)' /\ Effect(q, j)
        /\ pc[q] # "dead" => status[q] = "running"
    BY <1>1, <1>7, <1>8, <1>9 DEF LiveRuns
  <2>2. /\ NotYet(q, j) /\ Due(q, j) /\ NoHandoffToken(q, j)
        /\ DealtWith(q, j) /\ Remembered(q, j) /\ Spent(q, j)
        /\ JudgedBefore(q, j) /\ ReadNewest(q, j) /\ Newest(q, j)
        /\ TookToTheEnd(q, j) /\ AtTerminus(q, j)
    BY <1>1 DEF RecordInv
  <2>3. NotYet(q, j)' /\ Due(q, j)' /\ NoHandoffToken(q, j)'
    BY <1>2, <1>6, <2>1, <2>2, NotYetStep, DueStep, NoHandoffTokenStep
  <2>4. DealtWith(q, j)' /\ Remembered(q, j)' /\ Spent(q, j)'
    BY <1>2, <1>6, <2>1, <2>2, DealtWithStep, RememberedStep, SpentStep
  <2>5. JudgedBefore(q, j)' /\ ReadNewest(q, j)' /\ Newest(q, j)'
    BY <1>2, <1>6, <2>1, <2>2, JudgedBeforeStep, ReadNewestStep, NewestStep
  <2>6. TookToTheEnd(q, j)' /\ AtTerminus(q, j)' /\ Forward(q, j)
    BY <1>2, <1>6, <2>1, <2>2, TookToTheEndStep, AtTerminusStep, ForwardStep
  <2> QED
    BY <2>3, <2>4, <2>5, <2>6 DEF RecordInv
<1>11. Ordered' /\ Overlaps'
  BY <1>1, <1>2, <1>5, OrderedStep, OverlapsStep
<1>12. Disjoint'
  <2>1. \A q \in Runs, j \in Records :
          NotYet(q, j) /\ TookToTheEnd(q, j) /\ Forward(q, j) /\ Typed(q, j)'
    BY <1>1, <1>9, <1>10 DEF RecordInv
  <2> QED
    BY <1>1, <1>2, <1>5, <1>6, <2>1, DisjointStep
<1>13. EmptyMeansDone'
  BY <1>1, <1>3, <1>5, <1>6, <1>9, <1>10, EmptyMeansDoneStep
<1>14. SentHeld' /\ HandoffHolds'
  BY <1>1, <1>6, HandoffStep
<1> QED
  BY <1>4, <1>6, <1>10, <1>11, <1>12, <1>13, <1>14 DEF IInv

(* The invariant holds of every behaviour of the pipeline: any number of   *)
(* runs and records, any pipelines, any interleaving of the operators'     *)
(* commands, the processes and their kills.                                *)
THEOREM Invariance == Spec => []IInv
<1> QED
  BY InitIInv, NextIInv, PTL DEF Spec

(* Every part of the ledger and of the processes keeps its type.           *)
THEOREM TypeCorrect == Spec => []TypeOK
<1>1. IInv => TypeOK
  BY DEF IInv
<1> QED
  BY <1>1, Invariance, PTL

(* A run whose status is done forgets no record: FinishRun writes done     *)
(* only when no step broke and none left anyone in flight, and then each   *)
(* member completed, was stopped, or failed or was gated where it stands.  *)
THEOREM DoneForgets == Spec => []DoneForgetsNobody
<1>1. IInv => DoneForgetsNobody
  BY DEF IInv, RecordInv, Remembered, DoneForgetsNobody, Members
<1> QED
  BY <1>1, Invariance, PTL

(* A token is spent with the judgment it waited for, but for a kill        *)
(* between them and for a session's rejection.                             *)
THEOREM TokensSpent == Spec => []SpentTokens
<1>1. IInv => SpentTokens
  BY DEF IInv, RecordInv, Spent, SpentTokens
<1> QED
  BY <1>1, Invariance, PTL

(* The newest answer of a person decides, unless it came after the step    *)
(* had read the answers.                                                   *)
THEOREM NewestDecides == Spec => []NewestAnswerDecides
<1>1. IInv => NewestAnswerDecides
  BY DEF IInv, RecordInv, Newest, NewestAnswerDecides
<1> QED
  BY <1>1, Invariance, PTL

(* once: no later run works what an earlier one finished, and a source     *)
(* comes up empty only when every member is done.                          *)
THEOREM WorkedOnce == Spec => []OnceWorkedOnce
<1>1. IInv => OnceWorkedOnce
  BY DEF IInv, Disjoint, EmptyMeansDone, OnceWorkedOnce
<1> QED
  BY <1>1, Invariance, PTL

(* However a run ended, short of a kill, the terminus group holds whoever  *)
(* completed it.                                                           *)
THEOREM TerminusHolds == Spec => []TerminusHoldsCompleters
<1>1. IInv => TerminusHoldsCompleters
  <2> SUFFICES ASSUME IInv, NEW r \in Runs,
                      status[r] \in {"done", "failed", "pending"}, ~dry[r],
                      NEW j \in Completers(r)
               PROVE  j \in home
    BY DEF TerminusHoldsCompleters
  <2> QED
    BY DEF IInv, RecordInv, AtTerminus, Completers
<1> QED
  BY <1>1, Invariance, PTL

(* A record an armed run took past the handoff is in its group, unless a   *)
(* kill tore a handoff of it.                                              *)
THEOREM HandoffSound == Spec => []HandoffHolds
<1>1. IInv => HandoffHolds
  BY DEF IInv
<1> QED
  BY <1>1, Invariance, PTL

=============================================================================
