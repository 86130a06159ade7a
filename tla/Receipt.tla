-------------------------------- MODULE Receipt --------------------------------
(***************************************************************************)
(* What a step says of itself: the counters its process bumps (step.go,    *)
(* the live receipt) and the line gtme runs rebuilds later from the step   *)
(* events (mirror.go, ADR-064), while records are held back, skipped,      *)
(* answered, passed over, left in flight or never sent, over the run's     *)
(* first process and the resumes that follow it.  The two are different    *)
(* code on different data: only the outcome an event carries ties them.    *)
(*                                                                         *)
(* A dry or simulated step counts every record in a column of its own and  *)
(* is left out; an event and the state it goes with are one step here      *)
(* (Delivery tears them apart), and one worker dispatches (Dispatch has    *)
(* the pool).                                                              *)
(***************************************************************************)
EXTENDS Integers, FiniteSets

CONSTANTS
  NRecords,    \* how many the run holds, in the order of the run's table
  Roles,       \* the steps looked at: "filter", "enrich", "deliver"
  MaxSessions, \* bound: role -> the processes of the run
  MaxSaid      \* bound: role -> messages of an adapter about one record

ReceiptAssumption ==
  /\ Roles \subseteq {"filter", "enrich", "deliver"}
  /\ NRecords \in Nat /\ MaxSessions \in [Roles -> Nat] /\ MaxSaid \in [Roles -> Nat]

Records == 1..NRecords
Columns == {"in", "out", "empty", "filtered", "failed", "gated", "skipped", "cached",
            "already_delivered", "unconfirmed", "inflight", "notsent"}

VARIABLES
  role,     \* the step
  phase,    \* of the process: "ready", "preparing", "dispatching", "session", how that ended
            \* ("closed", "crashed", "stopped"), "over", or "halted" by the runner's failure
  process,  \* how many there were
  arrived,  \* records the previous step has completed
  place,    \* record -> "before", "past" the step, or "rejected" by its filter
  todo,     \* records of the loop over the run that are still to come
  work,     \* prepared and not dispatched
  open,     \* records of the open session
  item,     \* record -> what the session said of it
  said,     \* record -> how often
  stopping, \* an ERROR fail_run was heard
  live,     \* StepStat: the counters of this process
  mirror,   \* what LedgerSteps' loop makes of the step events so far
  answered, \* history: records this process settled, or left in flight
  twice     \* history: records some process settled again

rvars == <<role, phase, process, arrived, place, todo, work, open, item, said, stopping, live,
           mirror, answered, twice>>

First(set) == CHOOSE r \in set : \A other \in set : r <= other
Bump(columns) == live' = [c \in Columns |-> live[c] + IF c \in columns THEN 1 ELSE 0]

-----------------------------------------------------------------------------
(* The receipt from the ledger: LedgerSteps' loop over the events, taken as *)
(* they are written.  seen and final are its maps; stop is the latest stop, *)
(* resumed the records first seen after it.  A done, failed or              *)
(* skipped_cache event names its outcome, a claimed or pending one has      *)
(* none; "reused_fail" is cached with pass: false.                          *)
NoEvents == [seen |-> {}, final |-> [r \in Records |-> "none"], stop |-> 0, resumed |-> {}]

Read(rs, outcome) ==
  [mirror EXCEPT
     !.seen = @ \cup rs,
     !.resumed = IF mirror.stop = 0 THEN {} ELSE @ \cup (rs \ mirror.seen),
     !.final = [r \in Records |-> IF r \in rs /\ outcome # "untold" THEN outcome ELSE @[r]]]
ReadStop(n) == [mirror EXCEPT !.stop = n, !.resumed = {}]

NotSent == IF mirror.stop > Cardinality(mirror.resumed)
           THEN mirror.stop - Cardinality(mirror.resumed) ELSE 0
Counted(outcomes) == Cardinality({r \in Records : mirror.final[r] \in outcomes})
Mirror ==
  [in |-> Cardinality(mirror.seen) + NotSent, notsent |-> NotSent,
   out |-> Counted({"out"}), empty |-> Counted({"empty"}), failed |-> Counted({"failed"}),
   filtered |-> Counted({"filtered", "reused_fail"}), skipped |-> Counted({"skipped"}),
   cached |-> Counted({"cached", "reused_fail"}),
   already_delivered |-> Counted({"already_delivered"})]

-----------------------------------------------------------------------------
Init ==
  /\ role \in Roles
  /\ phase = "ready" /\ process = 0
  /\ arrived \in SUBSET Records \ {{}}
  /\ place = [r \in Records |-> "before"]
  /\ todo = {} /\ work = {} /\ open = {}
  /\ item = [r \in Records |-> {}] /\ said = [r \in Records |-> 0]
  /\ stopping = FALSE
  /\ live = [c \in Columns |-> 0] /\ mirror = NoEvents
  /\ answered = {} /\ twice = {}

(* The first process, or a resume: fresh counters, the same ledger; what   *)
(* failed at the previous step may have been completed by it.  Bound: a     *)
(* run whose records were settled twice is not followed any further.        *)
Start ==
  /\ phase \in {"ready", "over", "halted"} /\ process < MaxSessions[role] /\ twice = {}
  /\ arrived' \in IF phase = "ready" THEN {arrived} ELSE {arrived, Records}
  /\ todo' = {r \in arrived' : place[r] = "before"} /\ todo' # {}
  /\ phase' = "preparing" /\ process' = process + 1
  /\ stopping' = FALSE
  /\ live' = [c \in Columns |-> 0] /\ answered' = {}
  /\ UNCHANGED <<role, place, work, open, item, said, mirror, twice>>

(* runStep's loop and prepare: what becomes of a record before any session. *)
(* A record held unconfirmed leaves no event.                               *)
Fate(outcome, columns, to) == [outcome |-> outcome, columns |-> columns, to |-> to]
Unconfirmed == Fate("none", {"unconfirmed"}, "before")
Fates ==
  {Fate("untold", {"gated"}, "before"), Fate("failed", {"failed"}, "before"),
   Fate("skipped", {"skipped"}, "past")}
  \cup (IF role = "deliver"
        THEN {Fate("already_delivered", {"already_delivered"}, "past"), Unconfirmed}
        ELSE {Fate("cached", {"cached"}, "past")})
  \cup (IF role = "filter"
        THEN {Fate("reused_fail", {"cached", "filtered"}, "rejected")} ELSE {})

Settle(r) ==
  \E f \in Fates :
    /\ Bump({"in"} \cup f.columns)
    /\ mirror' = IF f = Unconfirmed THEN mirror ELSE Read({r}, f.outcome)
    /\ place' = [place EXCEPT ![r] = f.to]
    /\ UNCHANGED work
Enlist(r) ==
  /\ Bump({"in"}) /\ work' = work \cup {r}
  /\ UNCHANGED <<mirror, place>>
Prepare ==
  LET r == First(todo) IN
  /\ phase = "preparing"
  /\ todo' = todo \ {r}
  /\ phase' = IF todo' = {} THEN "dispatching" ELSE phase
  /\ Settle(r) \/ Enlist(r)
  /\ UNCHANGED <<role, process, arrived, open, item, said, stopping, answered, twice>>

(* What a process holds in memory of a chunk ends with it.                 *)
Drop == open' = {} /\ work' = {} /\ item' = [r \in Records |-> {}] /\ said' = [r \in Records |-> 0]

(* processChunk: every record of the chunk is claimed, then the session.    *)
(* One that cannot be opened is the runner's failure, and nobody's answer.  *)
Dispatch ==
  /\ phase = "dispatching" /\ ~stopping /\ work # {}
  /\ \E chunk \in {{First(work)}, work} :
       /\ mirror' = Read(chunk, "untold")
       /\ \/ phase' = "session" /\ open' = chunk /\ work' = work \ chunk
             /\ UNCHANGED <<item, said>>
          \/ phase' = "halted" /\ Drop
  /\ UNCHANGED <<role, process, arrived, place, todo, stopping, live, answered, twice>>

Is(r, flag) == flag \in item[r]
Say(r) ==
  /\ phase = "session" /\ r \in open /\ said[r] < MaxSaid[role]
  /\ said' = [said EXCEPT ![r] = @ + 1]
  /\ UNCHANGED <<role, phase, process, arrived, todo, work, open>>
Mark(r, flags) == item' = [item EXCEPT ![r] = @ \cup flags]
Nothing == UNCHANGED <<place, live, mirror, answered, twice>>
(* A VERDICT of fail and a PENDING bar no later answer but of the last loop. *)
Barless(r) == phase # "closed" /\ (Is(r, "verdict") \/ Is(r, "pending"))
Answer(rs) ==
  /\ answered' = answered \cup rs
  /\ twice' = twice \cup {r \in answered \cap rs : Barless(r)}
Count(r, outcome) ==
  /\ mirror' = Read({r}, outcome) /\ Bump({outcome})
  /\ Answer({r})

(* advance and errorSkip; failItem: neither does anything twice, and        *)
(* neither undoes the other.  A rejection by a VERDICT is neither.          *)
Settled(r) == Is(r, "advanced") \/ Is(r, "failed")
Advance(r, outcome, flags, to) ==
  IF Settled(r) THEN Mark(r, flags) /\ Nothing
  ELSE /\ Mark(r, flags \cup {"advanced"}) /\ Count(r, outcome)
       /\ place' = [place EXCEPT ![r] = to]
FailItem(r, flags) ==
  IF Settled(r) THEN Mark(r, flags) /\ Nothing
  ELSE Mark(r, flags \cup {"failed"}) /\ Count(r, "failed") /\ UNCHANGED place

(* applyRecord: no fields is nothing acquired; a filter's RECORD writes its *)
(* fields and waits for the verdict.                                        *)
HearRecord(r) ==
  /\ Say(r) /\ UNCHANGED stopping
  /\ IF Is(r, "errored") THEN UNCHANGED item /\ Nothing
     ELSE \/ FailItem(r, {"output"})
          \/ role = "filter" /\ Mark(r, {"output"}) /\ Nothing
          \/ role = "enrich" /\ Advance(r, "empty", {"output"}, "past")
          \/ role # "filter" /\ Advance(r, "out", {"output"}, "past")

(* applyVerdict: SetVerdict comes before anything that looks at the item.   *)
Rejects(r) ==
  /\ Mark(r, {"verdict"}) /\ Count(r, "filtered")
  /\ place' = [place EXCEPT ![r] = "rejected"]
Passes(r) ==
  \/ ~Settled(r) /\ Advance(r, "out", {"verdict"}, "past")
  \/ /\ Settled(r) /\ Mark(r, {"verdict"}) /\ place' = [place EXCEPT ![r] = "past"]
     /\ UNCHANGED <<live, mirror, answered, twice>>
HearVerdict(r) ==
  /\ Say(r) /\ UNCHANGED stopping /\ role = "filter"
  /\ \/ Is(r, "errored") /\ UNCHANGED item /\ Nothing
     \/ ~Is(r, "errored") /\ Is(r, "failed") /\ Mark(r, {"verdict"}) /\ Nothing
     \/ ~Is(r, "errored") /\ ~Is(r, "failed") /\ (Rejects(r) \/ Passes(r))

(* applyError: fail_record and an exhausted retry, fail_run, skip.          *)
Onwards(r) == IF place[r] = "rejected" THEN "rejected" ELSE "past"
HearError(r) ==
  /\ Say(r)
  /\ \/ FailItem(r, {"errored"}) /\ stopping' \in {stopping, TRUE}
     \/ Advance(r, "skipped", {"errored"}, Onwards(r)) /\ UNCHANGED stopping

(* applyPending: whatever the session did not answer waits at the provider. *)
HearPending ==
  LET waits == {r \in open : item[r] = {}} IN
  /\ phase = "session" /\ waits # {}
  /\ item' = [r \in Records |-> IF r \in waits THEN {"pending"} ELSE item[r]]
  /\ mirror' = Read(waits, "untold")
  /\ Answer(waits)
  /\ live' = [live EXCEPT !["inflight"] = @ + Cardinality(waits)]
  /\ UNCHANGED <<role, phase, process, arrived, place, todo, work, open, said, stopping>>

(* The session ends: well, or by an ERROR fail_run or an auth failure that  *)
(* stops the step, or by a crash that fails its records only; an interrupt  *)
(* leaves a deliver's unanswered sends held.                                *)
Ends ==
  /\ phase = "session"
  /\ \/ phase' \in {"closed", "crashed"} /\ ~stopping /\ UNCHANGED stopping
     \/ phase' = "stopped" /\ stopping' = TRUE
  /\ UNCHANGED <<role, process, arrived, place, todo, work, open, item, said, live, mirror,
                 answered, twice>>
Interrupt ==
  /\ phase = "session" /\ role = "deliver"
  /\ phase' = "halted" /\ Drop
  /\ live' = [live EXCEPT !["unconfirmed"] = @ + Cardinality({r \in open : ~Settled(r)})]
  /\ UNCHANGED <<role, process, arrived, place, todo, stopping, mirror, answered, twice>>

(* processChunk's last loop, chunkFailed and chunkStopped, a record at a    *)
(* time.  Mutant of Quiet: a record in flight counts as one nobody spoke of. *)
QuietAnyway(r) == ~Is(r, "advanced")
Quiet(r) == ~Is(r, "advanced") /\ ~Is(r, "pending")
Heard(r) == IF role = "filter" THEN Is(r, "verdict") ELSE Is(r, "output")
Unsaid(r) ==
  CASE role = "filter"  -> FailItem(r, {})
    [] role = "enrich"  -> Advance(r, "empty", {}, "past")
    [] role = "deliver" -> Advance(r, "out", {}, "past")
Wrap ==
  LET r == First(open) IN
  /\ phase \in {"closed", "crashed", "stopped"}
  /\ open' = open \ {r}
  /\ phase' = IF open' = {} THEN "dispatching" ELSE phase
  /\ said' = [said EXCEPT ![r] = 0]
  /\ \/ phase = "closed"  /\ Quiet(r) /\ ~Heard(r) /\ Unsaid(r)
     \/ phase = "closed"  /\ (~Quiet(r) \/ Heard(r)) /\ UNCHANGED item /\ Nothing
     \/ phase = "crashed" /\ FailItem(r, {})
     \/ phase = "stopped" /\ Quiet(r) /\ FailItem(r, {"errored"})
     \/ phase = "stopped" /\ ~Quiet(r) /\ UNCHANGED item /\ Nothing
  /\ UNCHANGED <<role, process, arrived, todo, work, stopping>>

(* dispatch's finish, and stepStopped.                                      *)
Finish ==
  /\ phase = "dispatching" /\ (work = {} \/ stopping)
  /\ phase' = "over" /\ Drop
  /\ IF ~stopping THEN UNCHANGED <<live, mirror>>
     ELSE /\ live' = [live EXCEPT !["notsent"] = Cardinality(work)]
          /\ mirror' = ReadStop(Cardinality(work))
  /\ UNCHANGED <<role, process, arrived, place, todo, stopping, answered, twice>>

(* The process is killed; the next one is the resume.                       *)
Kill ==
  /\ phase \notin {"ready", "over", "halted"} /\ process < MaxSessions[role]
  /\ phase' = "halted" /\ todo' = {} /\ Drop
  /\ live' = [c \in Columns |-> 0] /\ answered' = {} /\ stopping' = FALSE
  /\ UNCHANGED <<role, process, arrived, place, mirror, twice>>

Next ==
  \/ Start \/ Prepare \/ Dispatch \/ HearPending \/ Ends \/ Interrupt \/ Wrap \/ Finish \/ Kill
  \/ \E r \in Records : HearRecord(r) \/ HearVerdict(r) \/ HearError(r)

Spec == Init /\ [][Next]_rvars

-----------------------------------------------------------------------------
TypeOK ==
  /\ role \in Roles
  /\ phase \in {"ready", "preparing", "dispatching", "session", "closed", "crashed", "stopped",
                "over", "halted"}
  /\ process \in 0..MaxSessions[role]
  /\ arrived \subseteq Records /\ todo \subseteq Records /\ work \subseteq Records
  /\ open \subseteq Records /\ mirror.seen \subseteq Records /\ mirror.resumed \subseteq Records
  /\ place \in [Records -> {"before", "past", "rejected"}]
  /\ said \in [Records -> 0..MaxSaid[role]]
  /\ stopping \in BOOLEAN
  /\ live \in [Columns -> Nat]
  /\ answered \subseteq Records /\ twice \subseteq Records

(* Waived throughout: a record one process settled twice, as an ERROR, a    *)
(* crash or a second VERDICT on top of a filter's fail does, or an answer   *)
(* or a crash on top of a PENDING.  The live line counts it once per answer. *)

(* "A run that finished in one session reads the same both ways" (SPEC.md   *)
(* :3456, ADR-064): every column of the mirror is the live counter, but for *)
(* in, which has no event of a record held unconfirmed; and the live line   *)
(* adds up, in being the records that came.                                 *)
ReadsBothWays ==
  (phase = "over" /\ process = 1 /\ twice = {}) =>
    /\ \A c \in DOMAIN Mirror \ {"in"} : Mirror[c] = live[c]
    /\ Mirror.in = live["in"] - live["unconfirmed"]
    /\ live["in"] = Cardinality(arrived)
    /\ live["in"] = live["out"] + live["empty"] + live["filtered"] + live["failed"]
         + live["gated"] + live["skipped"] + live["cached"] + live["already_delivered"]
         + live["unconfirmed"] + live["inflight"] + live["notsent"] - Counted({"reused_fail"})

(* Over every process of the run, killed ones included, the mirror counts a *)
(* record where the ledger has it: one past the step among those that go    *)
(* on, one its filter rejected as filtered, one that waits as neither (ADR-064: *)
(* its latest outcome across sessions).                                     *)
MirrorIsWhereItIs ==
  \A r \in Records \ twice :
    /\ place[r] = "before" <=> mirror.final[r] \in {"none", "failed"}
    /\ place[r] = "rejected" <=> mirror.final[r] \in {"filtered", "reused_fail"}

ReceiptHolds == ReadsBothWays /\ MirrorIsWhereItIs
=============================================================================
