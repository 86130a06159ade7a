------------------------------ MODULE SqlStep ------------------------------
(***************************************************************************)
(* The steps the runner answers itself (internal/runner/sqlstep.go,        *)
(* traverse.go, text.go): sql/filter by a pass column or by membership,    *)
(* sql/transform and sql/traverse, with one read-only query that is        *)
(* answered whole before anything is written; text/compose with a          *)
(* template. The answer is applied to the eligible records one ledger      *)
(* write at a time, and a kill may come between any two. A resume asks     *)
(* again, about a ledger that may say something else by then, for the      *)
(* records that are still before the step.                                 *)
(*                                                                         *)
(* A row is [id, said]: the record it is keyed to, a parent for a          *)
(* traverse, and what it says: "yes" or "no" in a pass column; "value",    *)
(* "null" or "bad" (the registry rejects it); a child, or "unknown" (no    *)
(* identity of the ledger, or one of another type). What a template renders *)
(* for a record is told the same way, and no row is a render that fails.   *)
(***************************************************************************)
EXTENDS Integers, Sequences, FiniteSets, Picks

CONSTANTS
  Roles,       \* of "filter", "predicate" (a filter without a pass column), "transform",
               \* "traverse", "text"
  Records,     \* the records that come to the step, numbers in the order of their ids
  Strangers,   \* identities of other runs, or stopped, or of other segments
  Children,    \* identities of the type a traverse leads to
  MaxRows,     \* bound: rows of an answer
  MaxKills     \* bound: kills and failed queries

VARIABLES
  role,        \* the step's kind
  advanced,    \* the records whose state is this step
  verdict,     \* run_records.verdicts of this step
  event,       \* the newest event the step logged of a record
  written,     \* the records that got a derived value
  joined,      \* the children in the run
  pairs,       \* traversed and coalesced events: <<parent, child>>
  rows,        \* the query's answer, in result order
  todo,        \* the records this process has still to settle
  item,        \* what it is writing: a record, a row of a traverse, or Nothing
  left,        \* the writes it has still to make for it
  kills,       \* counted
  cut,         \* history: the items a kill left half-way
  told         \* history: the children an answer named for a parent it finished

sqlVars == <<role, advanced, verdict, event, written, joined, pairs, rows, todo, item, left,
             kills, cut, told>>
ledger == <<advanced, verdict, event, written, joined, pairs>>

Nothing == [id |-> 0, said |-> "nothing"]
Says(kind) ==
  CASE kind = "filter"    -> {"yes", "no"}
    [] kind = "predicate" -> {"yes"}
    [] kind \in {"transform", "text"} -> {"value", "null", "bad"}
    [] kind = "traverse"  -> Children \cup {"unknown"}
Answers == UNION {[1..n -> [id : Records \cup Strangers, said : Says(role)]] : n \in 0..MaxRows}

SqlStepAssumption ==
  /\ Roles \subseteq {"filter", "predicate", "transform", "traverse", "text"}
  /\ Children \cap {"nothing", "record", "unknown"} = {}
  /\ Records \subseteq Nat \ {0} /\ Strangers \subseteq Nat \ (Records \cup {0})
  /\ MaxRows \in Nat /\ MaxKills \in Nat

Init ==
  /\ role \in Roles
  /\ advanced = {} /\ written = {} /\ joined = {} /\ pairs = {}
  /\ verdict = [r \in Records |-> "none"] /\ event = [r \in Records |-> "none"]
  /\ rows = <<>> /\ todo = {} /\ item = Nothing /\ left = <<>>
  /\ kills = 0 /\ cut = {} /\ told = {}

-----------------------------------------------------------------------------
(* The answer.                                                             *)

\* Whom the step deals: still before it, and not frozen by its verdict.
Eligible == {r \in Records \ advanced : verdict[r] # "fail"}

\* sqlResults keeps the last row of an eligible record; sqlTraversePairs
\* every pair of an eligible parent, once.
RowsOf(answer, r) == {i \in DOMAIN answer : answer[i].id = r}
Kept(answer) ==
  LET Last(i) == role # "traverse" /\ \A j \in RowsOf(answer, answer[i].id) : j <= i
      First(i) == role = "traverse" /\ \A j \in 1..(i - 1) : answer[j] # answer[i]
      keep == {i \in DOMAIN answer : answer[i].id \in Eligible /\ (Last(i) \/ First(i))}
  IN Picked(answer, keep)

\* The query is run read-only, within its timebox, and read to the end.
Ask ==
  /\ todo = {} /\ Eligible # {} /\ todo' = Eligible
  /\ \E answer \in Answers : rows' = Kept(answer)
  /\ UNCHANGED <<role, ledger, item, left, kills, cut, told>>

\* It fails or lacks a column: the step fails before its first write.
AskFails ==
  /\ role # "text" /\ todo = {} /\ Eligible # {}
  /\ kills < MaxKills /\ kills' = kills + 1
  /\ UNCHANGED <<role, ledger, rows, todo, item, left, cut, told>>

-----------------------------------------------------------------------------
(* The writes of one record, and of one row of a traverse.                 *)

Said(r) == IF RowsOf(rows, r) = {} THEN "nothing"
           ELSE rows[CHOOSE i \in RowsOf(rows, r) : TRUE].said

\* applySQLVerdict: by the column, NULL and every other value being false, or
\* by being selected at all.
Passes(r) == Said(r) = "yes"

\* Mutant of Writes: the state is set before the event is logged.
WritesStateFirst(r) ==
  CASE role \in {"filter", "predicate"} ->
         IF Passes(r) THEN <<"pass", "state", "out">> ELSE <<"fail", "filtered">>
    [] role = "transform" ->
         IF Said(r) = "bad" THEN <<"failed">>
         ELSE IF Said(r) = "value" THEN <<"write", "state", "out">> ELSE <<"state", "empty">>
    [] role = "traverse" -> <<"claimed", "state", "out">>
    [] role = "text" ->
         IF Said(r) = "value" THEN <<"claimed", "write", "state", "out">>
         ELSE IF Said(r) = "null" THEN <<"claimed", "state", "empty">> ELSE <<"claimed", "failed">>

\* runSQLStep, runSQLTraverse, runTextStep: a verdict, then the event, then
\* the state; a value is checked first and written first; a parent, and a
\* record a template is rendered for, is claimed before all that.
Writes(r) ==
  CASE role \in {"filter", "predicate"} ->
         IF Passes(r) THEN <<"pass", "out", "state">> ELSE <<"fail", "filtered">>
    [] role = "transform" ->
         IF Said(r) = "bad" THEN <<"failed">>
         ELSE IF Said(r) = "value" THEN <<"write", "out", "state">> ELSE <<"empty", "state">>
    [] role = "traverse" -> <<"claimed", "out", "state">>
    [] role = "text" ->
         IF Said(r) = "value" THEN <<"claimed", "write", "out", "state">>
         ELSE IF Said(r) = "null" THEN <<"claimed", "empty", "state">> ELSE <<"claimed", "failed">>

\* admitChild, failChild.
Admission(row) == IF row.said = "unknown" THEN <<"failed">> ELSE <<"join", "pair">>

\* A traverse admits the children of every parent before it finishes one.
TakeRow ==
  /\ item = Nothing /\ todo # {} /\ role = "traverse" /\ rows # <<>>
  /\ item' = Head(rows) /\ left' = Admission(Head(rows)) /\ rows' = Tail(rows)
  /\ UNCHANGED <<role, ledger, todo, kills, cut>>
  /\ told' = told \cup {<<Head(rows).id, Head(rows).said>>}

TakeRecord ==
  /\ item = Nothing /\ (role = "traverse" => rows = <<>>)
  /\ \E r \in todo :
       /\ \A s \in todo : r <= s
       /\ item' = [id |-> r, said |-> "record"] /\ left' = Writes(r)
  /\ UNCHANGED <<role, ledger, rows, todo, kills, cut, told>>

\* The next write; with the last one the item is done.
Write ==
  LET w == Head(left)  r == item.id IN
  /\ left # <<>> /\ left' = Tail(left)
  /\ verdict' = IF w \in {"pass", "fail"} THEN [verdict EXCEPT ![r] = w] ELSE verdict
  /\ event' = IF w \in {"out", "empty", "filtered", "failed", "claimed"}
              THEN [event EXCEPT ![r] = w] ELSE event
  /\ advanced' = IF w = "state" THEN advanced \cup {r} ELSE advanced
  /\ written' = IF w = "write" THEN written \cup {r} ELSE written
  /\ joined' = IF w = "join" THEN joined \cup {item.said} ELSE joined
  /\ pairs' = IF w = "pair" THEN pairs \cup {<<r, item.said>>} ELSE pairs
  /\ item' = IF Len(left) = 1 THEN Nothing ELSE item
  /\ todo' = IF Len(left) = 1 /\ item.said = "record" THEN todo \ {r} ELSE todo
  /\ UNCHANGED <<role, rows, kills, cut, told>>

\* The process dies between two writes; a write that fails ends it the same way.
Kill ==
  /\ todo # {} /\ kills < MaxKills /\ kills' = kills + 1
  /\ cut' = IF left = <<>> THEN cut ELSE cut \cup {item}
  /\ rows' = <<>> /\ todo' = {} /\ item' = Nothing /\ left' = <<>>
  /\ told' = {p \in told : p[1] \in advanced}
  /\ UNCHANGED <<role, ledger>>

Next == Ask \/ AskFails \/ TakeRow \/ TakeRecord \/ Write \/ Kill

Spec == Init /\ [][Next]_sqlVars

-----------------------------------------------------------------------------
(* Properties.                                                             *)

Cut(r) == \E i \in cut : i.id = r

TypeOK ==
  /\ role \in Roles /\ advanced \subseteq Records /\ written \subseteq Records
  /\ verdict \in [Records -> {"none", "pass", "fail"}]
  /\ event \in [Records -> {"none", "out", "empty", "filtered", "failed", "claimed"}]
  /\ joined \subseteq Children /\ pairs \subseteq Records \X Children
  /\ todo \subseteq Records /\ kills \in 0..MaxKills /\ Len(left) <= 4
  /\ told \subseteq Records \X (Children \cup {"unknown"})

\* A record goes past the step only as its newest judgment says, whatever the
\* kills and the answers in between: past a filter with a pass verdict and the
\* event of a pass, past a transform with the value its event tells of. One
\* that is stopped has the event that says so, unless a kill came between.
JudgedAsRecorded ==
  /\ \A r \in advanced :
       /\ event[r] \in {"out", "empty"}
       /\ role \in {"filter", "predicate"} => verdict[r] = "pass"
       /\ role \in {"transform", "text"} /\ event[r] = "out" => r \in written
  /\ \A r \in Records : verdict[r] = "fail" =>
       r \notin advanced /\ (event[r] = "filtered" \/ r = item.id \/ Cut(r))

\* A parent is finished only when each child its answer named is in the run
\* under an event that opens the next segment to it; a child without such an
\* event was cut short by a kill between its two writes.
FinishedWithChildren ==
  /\ \A p \in told : p[1] \in advanced /\ p[2] # "unknown" => p \in pairs /\ p[2] \in joined
  /\ \A c \in joined : (\E p \in pairs : p[2] = c) \/ c = item.said \/ \E i \in cut : i.said = c

SqlHolds == JudgedAsRecorded /\ FinishedWithChildren
=============================================================================
