------------------------------- MODULE Judgment -------------------------------
(***************************************************************************)
(* What a step already knows of one record: the judgment cache of a        *)
(* participant step (judgment.go, judgmentSkip: the newest done event of   *)
(* any run that carries the same signature and input) and the freshness    *)
(* cache of an enrich step (cacheSkip: its provides projected within the   *)
(* window, or the adapter's last write), on the append-only field_values   *)
(* and their projection (project.go).  Between two runs the operator edits *)
(* the template, other steps learn facts, and a deferred session's answer  *)
(* waits at the provider.                                                  *)
(***************************************************************************)
EXTENDS Integers, Sequences, Functions

CONSTANTS
  Roles,      \* which steps are looked at: "filter", "compose", "enrich"
  Questions,  \* what the judgment signature tells apart: template, model, shape
  Facts,      \* values of the fields the judgment reads
  Provides,   \* fields an enrich step declares, all optional
  Cache,      \* the step's window in ticks, 0 for none
  MaxClock,   \* bound: ticks
  MaxChanges, \* bound: edits of the template and new facts
  MaxEvents,  \* bound: done events
  MaxRows     \* bound: rows of field_values, and calls of an enrich adapter

JudgmentAssumption ==
  /\ Roles \subseteq {"filter", "compose", "enrich"}
  /\ Questions # {} /\ Facts # {}
  /\ Cache \in Nat /\ MaxClock \in Nat /\ MaxChanges \in Nat
  /\ MaxEvents \in Nat /\ MaxRows \in Nat

VARIABLES
  role,       \* the step, "none" before the pipeline is written
  question,   \* the template in the file
  facts,      \* the projection of the fields it reads
  now,        \* the clock
  rows,       \* field_values of the step's own fields, oldest first
  done,       \* its done events, oldest first
  token,      \* what a deferred session was asked, <<>> for no token
  work,       \* the run at the step: idle, or what prepare computed
  \* history, for the properties
  passed,     \* how the record came past the step just now, and on which answer
  left,       \* the questions and facts there were before, oldest first
  calls       \* of an enrich adapter: when each ended, and whether it wrote a field

jvars == <<role, question, facts, now, rows, done, token, work, passed, left, calls>>

Asked == <<question, facts>>
Judging == role \in {"filter", "compose"}
Nobody == [by |-> "nobody", answer |-> "none", about |-> <<>>, key |-> <<>>, draft |-> <<>>]
AtRest == [pc |-> "idle", key |-> <<>>, asked |-> <<>>, collecting |-> FALSE]

(* Project: highest confidence first, then newest, the first inside the    *)
(* window (0: unbounded).                                                  *)
Inside(t, window) == window = 0 \/ now - t <= window
Ranks(m, n) == rows[m].conf > rows[n].conf \/ (rows[m].conf = rows[n].conf /\ m >= n)
Fresh(field, window) == {n \in DOMAIN rows : rows[n].field = field /\ Inside(rows[n].at, window)}
Has(field, window) == Fresh(field, window) # {}
Current(field) == CHOOSE n \in Fresh(field, 0) : \A m \in Fresh(field, 0) : Ranks(n, m)
Draft == IF Has("draft", 0) THEN rows[Current("draft")].about ELSE <<>>

Init ==
  /\ role = "none"
  /\ question = CHOOSE q \in Questions : TRUE
  /\ facts = CHOOSE f \in Facts : TRUE
  /\ now = 0 /\ rows = <<>> /\ done = <<>> /\ token = <<>>
  /\ work = AtRest
  /\ passed = Nobody /\ left = <<>> /\ calls = <<>>

Write(kind) ==
  /\ role = "none" /\ role' = kind
  /\ passed' = Nobody
  /\ UNCHANGED <<question, facts, now, rows, done, token, work, left, calls>>

-----------------------------------------------------------------------------
(* Between runs, and while one waits for a session.                        *)

EditTemplate(q) ==
  /\ Judging /\ Len(left) < MaxChanges /\ q # question /\ work.pc = "idle"
  /\ question' = q
  /\ left' = Append(left, Asked)
  /\ passed' = Nobody
  /\ UNCHANGED <<role, facts, now, rows, done, token, work, calls>>

LearnFact(f) ==
  /\ Judging /\ Len(left) < MaxChanges /\ f # facts
  /\ facts' = f
  /\ left' = Append(left, Asked)
  /\ passed' = Nobody
  /\ UNCHANGED <<role, question, now, rows, done, token, work, calls>>

Tick ==
  /\ now < MaxClock /\ now' = now + 1
  /\ passed' = Nobody
  /\ UNCHANGED <<role, question, facts, rows, done, token, work, left, calls>>

Row(field, by, conf, about) ==
  [field |-> field, by |-> by, conf |-> conf, at |-> now, about |-> about]

(* Another step writes one of the enrich step's fields, as sure or surer.  *)
OtherWrites(field, conf) ==
  /\ role = "enrich" /\ Len(rows) < MaxRows
  /\ rows' = Append(rows, Row(field, "other", conf, <<>>))
  /\ passed' = Nobody
  /\ UNCHANGED <<role, question, facts, now, done, token, work, left, calls>>

-----------------------------------------------------------------------------
(* prepare.                                                                *)

(* Mutant of Matching: the signature alone.                                *)
MatchingQuestion(key) ==
  {n \in DOMAIN done : done[n].key # <<>> /\ done[n].key[1] = key[1] /\ Inside(done[n].at, Cache)}

(* LastJudgment's rows: same signature, same input, inside the window.     *)
Matching(key) == {n \in DOMAIN done : done[n].key = key /\ Inside(done[n].at, Cache)}
Newest(S) == CHOOSE n \in S : \A m \in S : m <= n

(* judgmentSkip: the verdict is applied again; a compose writes nothing.   *)
Reuse ==
  /\ work.pc = "idle" /\ Judging /\ token = <<>> /\ Matching(Asked) # {}
  /\ LET j == done[Newest(Matching(Asked))]
     IN passed' = [by |-> "reuse", answer |-> j.answer, about |-> j.about, key |-> Asked,
                   draft |-> Draft]
  /\ UNCHANGED <<role, question, facts, now, rows, done, token, work, left, calls>>

(* Mutant of Answered: presence of the fields alone.                       *)
AnsweredInFull == \A f \in Provides : Has(f, Cache)

(* cacheSkip: every provided field fresh, or the adapter wrote within the  *)
(* window.                                                                 *)
Answered == \/ \A f \in Provides : Has(f, Cache)
            \/ \E n \in DOMAIN rows : rows[n].by = "own" /\ Inside(rows[n].at, Cache)

SkipFresh ==
  /\ work.pc = "idle" /\ role = "enrich" /\ Cache > 0 /\ Answered
  /\ passed' = [Nobody EXCEPT !.by = "cache"]
  /\ UNCHANGED <<role, question, facts, now, rows, done, token, work, left, calls>>

(* The keys are those of the moment, whether the record is dispatched or   *)
(* collected under a token.                                                *)
Open ==
  /\ work.pc = "idle" /\ role # "none"
  /\ Judging => token # <<>> \/ Matching(Asked) = {}
  /\ role = "enrich" => Cache = 0 \/ ~Answered
  /\ work' = [pc |-> "session", key |-> Asked, collecting |-> token # <<>>,
              asked |-> IF token = <<>> THEN Asked ELSE token]
  /\ passed' = Nobody
  /\ UNCHANGED <<role, question, facts, now, rows, done, token, left, calls>>

-----------------------------------------------------------------------------
(* processChunk: what the session says.                                    *)

InSession == work.pc = "session" /\ Len(done) < MaxEvents
Settle(by, key, answer, draft) ==
  /\ done' = Append(done, [key |-> key, answer |-> answer, about |-> work.asked, at |-> now])
  /\ passed' = [by |-> by, answer |-> answer, about |-> work.asked, key |-> work.key,
                draft |-> draft]
  /\ token' = <<>>
  /\ work' = AtRest

(* A VERDICT, or a RECORD with no fields: nothing acquired, and it says so.*)
Judge(answer) ==
  /\ InSession
  /\ \/ role = "filter" /\ answer \in {"pass", "fail"}
     \/ role = "compose" /\ answer = "empty"
  /\ Settle("session", work.key, answer, Draft)
  /\ UNCHANGED <<role, question, facts, now, rows, left, calls>>

(* A RECORD of a compose: the draft, newest and so current.                *)
Compose ==
  /\ InSession /\ role = "compose" /\ Len(rows) < MaxRows
  /\ rows' = Append(rows, Row("draft", "own", 1, work.asked))
  /\ Settle("session", work.key, "draft", work.asked)
  /\ UNCHANGED <<role, question, facts, now, left, calls>>

(* An enrich adapter was called, and paid.                                 *)
Called(wrote) ==
  /\ Len(calls) < MaxRows
  /\ calls' = Append(calls, [at |-> now, wrote |-> wrote])

(* A RECORD of an enrich with some of what it declares; with none of it,   *)
(* or nulls, and where nothing is said of the record, no row is written.   *)
(* No done event of an enrich is looked for.                               *)
Enrich(fields) ==
  /\ work.pc = "session" /\ role = "enrich"
  /\ Len(rows) + Len(fields) <= MaxRows
  /\ rows' = rows \o [n \in DOMAIN fields |-> Row(fields[n], "own", 1, <<>>)]
  /\ Called(fields # <<>>)
  /\ work' = AtRest
  /\ passed' = Nobody
  /\ UNCHANGED <<role, question, facts, now, done, token, left>>

SilentKey == <<>>

(* Nothing was said of the record: a filter fails it, anything else        *)
(* advances it empty, without a signature.                                 *)
Silent ==
  /\ InSession /\ role = "compose"
  /\ Settle("silence", SilentKey, "silence", Draft)
  /\ UNCHANGED <<role, question, facts, now, rows, left, calls>>

(* A refused answer, a filter's silence, a crash: nothing is remembered.   *)
Fail ==
  /\ work.pc = "session"
  /\ work' = AtRest /\ token' = <<>>
  /\ IF role = "enrich" THEN Called(FALSE) ELSE UNCHANGED calls
  /\ passed' = Nobody
  /\ UNCHANGED <<role, question, facts, now, rows, done, left>>

(* PENDING: the provider works on what it was sent.                        *)
Defer ==
  /\ work.pc = "session" /\ Judging
  /\ token' = work.asked
  /\ work' = AtRest
  /\ passed' = Nobody
  /\ UNCHANGED <<role, question, facts, now, rows, done, left, calls>>

Subseqs == {<<>>} \cup {<<f>> : f \in Provides} \cup {<<f, g>> : f, g \in Provides}

Next ==
  \/ \E kind \in Roles : Write(kind)
  \/ \E q \in Questions : EditTemplate(q)
  \/ \E f \in Facts : LearnFact(f)
  \/ Tick
  \/ \E field \in Provides, conf \in 1 .. 2 : OtherWrites(field, conf)
  \/ Reuse \/ SkipFresh \/ Open \/ Compose \/ Silent \/ Fail \/ Defer
  \/ \E a \in {"pass", "fail", "empty"} : Judge(a)
  \/ \E fields \in Subseqs : Enrich(fields)

Spec == Init /\ [][Next]_jvars

-----------------------------------------------------------------------------
Collected == \E n \in DOMAIN done : done[n].key \notin {<<>>, done[n].about}

TypeOK ==
  /\ role \in Roles \cup {"none"} /\ question \in Questions /\ facts \in Facts
  /\ now \in 0 .. MaxClock
  /\ Len(rows) <= MaxRows /\ Len(done) <= MaxEvents /\ Len(left) <= MaxChanges
  /\ Len(calls) <= MaxRows
  /\ \A n \in DOMAIN rows : rows[n].field \in Provides \cup {"draft"} /\ rows[n].at <= now
  /\ \A key \in {token, work.key, work.asked, passed.key} : key \in {<<>>} \cup (Questions \X Facts)
  /\ work.pc \in {"idle", "session"} /\ work.collecting \in BOOLEAN

(* What is reused was answered: a record comes past a step as same_judgment *)
(* on an answer to that question about those facts, and never on silence.  *)
(* Waived once an answer that was waited for has been recorded under the   *)
(* question and facts of its collection, where SPEC.md:1129 has the same   *)
(* question about the same facts have the same answer.                     *)
ReuseWasAnswered == passed.by = "reuse" =>
  /\ passed.answer # "silence"
  /\ ~Collected => passed.about = passed.key

(* What leaves a compose is the draft about these facts, reused or fresh,  *)
(* as long as the question and the facts are not back where they once were *)
(* (FieldsAreCurrent says what happens then).                              *)
DraftIsAbout ==
  (role = "compose" /\ passed.answer = "draft" /\ passed.key \notin Range(left) /\ ~Collected)
  => passed.draft = passed.key

JudgmentIsReused == ReuseWasAnswered /\ DraftIsAbout

(* An enrich adapter that wrote a field is not called, and paid, again     *)
(* within the window (SPEC.md:1111), whichever of its fields it left out   *)
(* and whoever wrote the same ones.  Waived where it wrote none: a call    *)
(* that failed, and an answer with nothing in it, which leaves no trace    *)
(* that cacheSkip reads, though it asks "have we already paid this adapter *)
(* for this record, recently?".                                            *)
PaidOncePerWindow == role = "enrich" /\ Cache > 0 =>
  \A m, n \in DOMAIN calls : m < n /\ calls[m].wrote => calls[n].at - calls[m].at > Cache

(* DECISIONS.md:1209: a compose has nothing to write, its fields are       *)
(* current with that provenance.                                           *)
FieldsAreCurrent == (role = "compose" /\ passed.by = "reuse" /\ passed.answer = "draft")
  => passed.draft = passed.about
=============================================================================
