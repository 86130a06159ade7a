------------------------------ MODULE Delivery ------------------------------
(***************************************************************************)
(* The deliver step of a pipeline against one (target, scope): what        *)
(* internal/runner/step.go does, ledger write by ledger write, in every    *)
(* run of the pipeline, by processes that may be killed between any two    *)
(* writes, interrupted, resumed, rehearsed and resumed again.              *)
(*                                                                         *)
(* The step is adapter-backed, its target does not declare idempotency:    *)
(* native, and redeliver: is therefore never (planner.go refuses any other *)
(* mode there).  Every ledger call is one transaction.  Writes are actions *)
(* of their own where a crash between them changes what the ledger knows   *)
(* of a send; where it only has the record prepared again (a verdict and   *)
(* the event that repeats it) they are one action.                         *)
(***************************************************************************)
EXTENDS Naturals, FiniteSets

CONSTANTS
  Runs,     \* run ids of pipelines that deliver to the target
  Records,  \* identities, each a member of every run
  Keys,     \* idempotency keys
  KeyOf,    \* the key each record delivers under (step.go, idempotencyKey)
  Conc,     \* worker pool size
  Attests,  \* whether the adapter declares attests
  DryModes, \* whether operators pass --dry-run: never, always, or now and then
  NONE      \* no run, no record

ASSUME KeyAssumption  == KeyOf \in [Records -> Keys]
ASSUME ConcAssumption == Conc \in Nat \ {0}
ASSUME NoneAssumption == NONE \notin Runs \cup Records
ASSUME AttestsAssumption == Attests \in BOOLEAN
ASSUME DryModesAssumption == DryModes \subseteq BOOLEAN

VARIABLES
  \* the ledger
  runStatus,   \* runs.status, "none" before the run is created
  recState,    \* run_records.state: before or past the deliver step
  open,        \* records with a dispatched event no done or failed follows
  deliveries,  \* the deliveries row of each key
  \* the process executing a run, if any
  pc,          \* where it is
  dry,         \* it runs with --dry-run
  release,     \* records --resend-unconfirmed releases
  scan,        \* open dispatches read and not yet probed
  hold,        \* open dispatches found dead and not yet held
  item,        \* what it is doing with each record
  \* history, for the properties
  copies,      \* requests that may be at the target: 0, 1, or 2 for more
  torn,        \* keys whose done event was written and whose row never was
  denied,      \* keys answered as not delivered though the target may have them
  raced,       \* keys passed by the pre-send check while already in flight
  peers,       \* runs executing at some time since this process started
  withheld,    \* records a verdict moved past the step without a send
  rehearsed    \* records a dry process moved past the step

ledgerVars  == <<runStatus, recState, open, deliveries>>
processVars == <<pc, dry, release, scan, hold, item>>
historyVars == <<copies, torn, denied, raced, peers, withheld, rehearsed>>
vars == <<ledgerVars, processVars, historyVars>>

Statuses  == {"none", "unconfirmed", "accepted", "confirmed", "contradicted", "settled"}
ItemStates == {"none", "todo", "queued", "claimed", "dispatched", "session",
               "logged", "moved", "recorded", "contra", "over"}

(* An item between the pre-send check and its deliveries row; one whose    *)
(* worker has it; one no worker has taken.                                 *)
Unresolved == {"queued", "claimed", "dispatched", "session", "logged", "moved"}
AtWorker   == {"claimed", "dispatched", "session", "logged", "moved", "recorded", "contra"}
Waiting    == {"todo", "queued"}

(* The row of a key.  Its run and identity are only read while it is held. *)
Row(st)       == [status |-> st, run |-> NONE, id |-> NONE]
HeldRow(r, i) == [status |-> "unconfirmed", run |-> r, id |-> i]
HasRow(k) == deliveries[k].status # "none"
IsHeld(k) == deliveries[k].status = "unconfirmed"
HeldBy(r) == {i \in Records : \E k \in Keys : IsHeld(k) /\ deliveries[k].run = r
                                              /\ deliveries[k].id = i}

Alive(r) == pc[r] # "dead"
InStep(r)   == pc[r] \in {"step", "failing"}
Scanned(r)  == InStep(r) /\ scan[r] = {} /\ hold[r] = {}
Prepared(r) == Scanned(r) /\ \A i \in Records : item[r][i] # "todo"
AtWork(r)   == {i \in Records : item[r][i] \in AtWorker}

(* The pool stops taking work: what no worker has taken stays where it is. *)
Drained(r) == [i \in Records |-> IF item[r][i] \in Waiting THEN "over" ELSE item[r][i]]

Init ==
  /\ runStatus  = [r \in Runs |-> "none"]
  /\ recState   = [r \in Runs |-> [i \in Records |-> "before"]]
  /\ open       = [r \in Runs |-> {}]
  /\ deliveries = [k \in Keys |-> Row("none")]
  /\ pc      = [r \in Runs |-> "dead"]
  /\ dry     = [r \in Runs |-> FALSE]
  /\ release = [r \in Runs |-> {}]
  /\ scan    = [r \in Runs |-> {}]
  /\ hold    = [r \in Runs |-> {}]
  /\ item    = [r \in Runs |-> [i \in Records |-> "none"]]
  /\ copies  = [k \in Keys |-> 0]
  /\ torn    = {}
  /\ denied  = {}
  /\ raced   = {}
  /\ peers   = [r \in Runs |-> {}]
  /\ withheld  = [r \in Runs |-> {}]
  /\ rehearsed = [r \in Runs |-> {}]

-----------------------------------------------------------------------------
(* Starting, resuming, stopping and killing the process of a run.          *)

Start(r, d, rel) ==
  /\ runStatus' = [runStatus EXCEPT ![r] = "running"]
  /\ pc'      = [pc EXCEPT ![r] = "start"]
  /\ dry'     = [dry EXCEPT ![r] = d]
  /\ release' = [release EXCEPT ![r] = rel]
  /\ peers'   = [q \in Runs |->
       IF q = r THEN {p \in Runs : Alive(p)} \cup {r}
                ELSE peers[q] \cup (IF Alive(q) THEN {r} ELSE {})]

(* gtme run, with or without --dry-run: CreateRun and LockRun.  Between    *)
(* the two nothing has been sent, so they are one step here (RunLock       *)
(* takes them apart).                                                      *)
CreateRun(r, d) ==
  /\ runStatus[r] = "none"
  /\ Start(r, d, {})
  /\ UNCHANGED <<recState, open, deliveries, scan, hold, item,
                 copies, torn, denied, raced, withheld, rehearsed>>

(* gtme run --resume r, [--resend-unconfirmed[=rel]]                       *)
(* [--settle-unconfirmed[=settle]]: a bare --resend-unconfirmed releases   *)
(* whatever the run turns out to hold.  A done run is resumed only for its *)
(* held deliveries.                                                        *)
Resume(r, d, rel, settle) ==
  /\ ~Alive(r)
  /\ runStatus[r] \in {"running", "failed", "done"}
  /\ runStatus[r] = "done" => HeldBy(r) # {} /\ (rel # {} \/ settle # {})
  /\ settle \subseteq HeldBy(r)
  /\ rel \subseteq HeldBy(r) \/ (rel = Records /\ settle = {})
  /\ rel \cap settle = {}
  /\ Start(r, d, rel)
  /\ deliveries' = [k \in Keys |->
       IF IsHeld(k) /\ deliveries[k].run = r /\ deliveries[k].id \in settle
         THEN Row("settled")
         ELSE deliveries[k]]
  /\ UNCHANGED <<recState, open, scan, hold, item,
                 copies, torn, denied, raced, withheld, rehearsed>>

(* The process is gone: the kernel frees its lock, nothing of it is left   *)
(* but what the ledger holds.                                              *)
Gone(r) ==
  /\ pc'      = [pc EXCEPT ![r] = "dead"]
  /\ dry'     = [dry EXCEPT ![r] = FALSE]
  /\ release' = [release EXCEPT ![r] = {}]
  /\ scan'    = [scan EXCEPT ![r] = {}]
  /\ hold'    = [hold EXCEPT ![r] = {}]
  /\ item'    = [item EXCEPT ![r] = [i \in Records |-> "none"]]
  /\ peers'   = [peers EXCEPT ![r] = {}]

(* Keys whose done event is written and whose row is not: a process that   *)
(* goes now leaves no open dispatch, and no row or only a held one.        *)
Torn(r, I) == {KeyOf[i] : i \in {j \in I : /\ item[r][j] \in {"logged", "moved"}
                                          /\ deliveries[KeyOf[j]].status \in {"none", "unconfirmed"}}}

(* kill -9, power loss, out of memory.                                     *)
Crash(r) ==
  /\ Alive(r)
  /\ Gone(r)
  /\ torn' = torn \cup Torn(r, Records)
  /\ UNCHANGED <<ledgerVars, copies, denied, raced, withheld, rehearsed>>

(* FinishRun, then the lock is released and the process exits.             *)
Finish(r) ==
  /\ \/ Prepared(r) /\ \A i \in Records : item[r][i] # "queued"
     \/ pc[r] \in {"stopping", "interrupted"}
  /\ AtWork(r) = {}
  /\ runStatus' = [runStatus EXCEPT ![r] = IF pc[r] = "step" THEN "done" ELSE "failed"]
  /\ Gone(r)
  /\ UNCHANGED <<recState, open, deliveries,
                 copies, torn, denied, raced, withheld, rehearsed>>

(* Mutant of Stop: the dispatches still to be held survive the step.       *)
StopKeepsHold(r, why) ==
  /\ pc'   = [pc EXCEPT ![r] = IF @ = "interrupted" THEN @ ELSE why]
  /\ scan' = [scan EXCEPT ![r] = {}]
  /\ UNCHANGED hold

(* The step ends: nothing more is held, prepared or taken by a worker.  An *)
(* interrupted process stays interrupted.                                  *)
Stop(r, why) ==
  /\ pc'   = [pc EXCEPT ![r] = IF @ = "interrupted" THEN @ ELSE why]
  /\ scan' = [scan EXCEPT ![r] = {}]
  /\ hold' = [hold EXCEPT ![r] = {}]

(* Ctrl-C: the context is cancelled, so every ledger call before a session *)
(* opens fails; the sessions already open are worked off.                  *)
Interrupt(r) ==
  /\ Alive(r) /\ pc[r] # "interrupted"
  /\ Stop(r, "interrupted")
  /\ item' = [item EXCEPT ![r] = [i \in Records |->
       IF item[r][i] = "claimed" THEN "over" ELSE Drained(r)[i]]]
  /\ UNCHANGED <<ledgerVars, dry, release, historyVars>>

(* The preflight is blocked, or the ledger refuses a read or a write       *)
(* before anything is dispatched.                                          *)
StepFails(r) ==
  /\ pc[r] \in {"start", "step"} /\ ~Prepared(r)
  /\ Stop(r, "stopping")
  /\ item' = [item EXCEPT ![r] = Drained(r)]
  /\ UNCHANGED <<ledgerVars, dry, release, historyVars>>

-----------------------------------------------------------------------------
(* runStep: hold what dead runs left open, then check every record.        *)

(* RunRecords and OpenDispatches, one read each.                           *)
OpenStep(r) ==
  /\ pc[r] = "start"
  /\ pc'   = [pc EXCEPT ![r] = "step"]
  /\ item' = [item EXCEPT ![r] = [i \in Records |->
       IF recState[r][i] = "before" THEN "todo" ELSE "none"]]
  /\ scan' = [scan EXCEPT ![r] =
       IF dry[r] THEN {} ELSE {d \in Runs \X Records : d[2] \in open[d[1]]}]
  /\ UNCHANGED <<ledgerVars, dry, release, hold, historyVars>>

(* Mutant of Probe: only the run's own dispatches are held.                *)
ProbeOwn(r, d) ==
  LET theirs == {s \in scan[r] : s[1] = d}
  IN /\ pc[r] = "step"
     /\ theirs # {}
     /\ scan' = [scan EXCEPT ![r] = @ \ theirs]
     /\ hold' = [hold EXCEPT ![r] = IF d # r THEN @ ELSE @ \cup theirs]
     /\ UNCHANGED <<ledgerVars, pc, dry, release, item, historyVars>>

(* RunAlive(d), asked once per run: a living run's sends are left alone.   *)
Probe(r, d) ==
  LET theirs == {s \in scan[r] : s[1] = d}
      live   == d # r /\ Alive(d)
  IN /\ pc[r] = "step"
     /\ theirs # {}
     /\ scan' = [scan EXCEPT ![r] = @ \ theirs]
     /\ hold' = [hold EXCEPT ![r] = IF live THEN @ ELSE @ \cup theirs]
     /\ UNCHANGED <<ledgerVars, pc, dry, release, item, historyVars>>

(* Mutant of HoldRow: ON CONFLICT updates the row.                         *)
HoldRowOver(d, i) == deliveries' = [deliveries EXCEPT ![KeyOf[i]] = HeldRow(d, i)]

(* The row HoldDelivery inserts for record i of run d; one already there   *)
(* stands.                                                                 *)
HoldRow(d, i) ==
  deliveries' = [deliveries EXCEPT ![KeyOf[i]] =
    IF @.status = "none" THEN HeldRow(d, i) ELSE @]

HoldDelivery(r, d, i) ==
  /\ pc[r] = "step"
  /\ <<d, i>> \in hold[r]
  /\ HoldRow(d, i)
  /\ hold' = [hold EXCEPT ![r] = @ \ {<<d, i>>}]
  /\ UNCHANGED <<runStatus, recState, open, pc, dry,
                 release, scan, item, historyVars>>

SetItem(r, i, s) == item' = [item EXCEPT ![r][i] = s]
SetState(r, i)   == recState' = [recState EXCEPT ![r][i] = "past"]

(* A done or failed event of run r answers record i's dispatch.  When the  *)
(* key has no row yet and a request of it may have left, that event was    *)
(* the last the ledger knew of it.                                         *)
Answer(r, i) == open' = [open EXCEPT ![r] = @ \ {i}]
Erased(r, i) == IF i \in open[r] /\ ~HasRow(KeyOf[i]) THEN {KeyOf[i]} ELSE {}

Released(r, i) == i \in release[r] /\ deliveries[KeyOf[i]].run = r
Clear(r, i) == ~HasRow(KeyOf[i]) \/ (IsHeld(KeyOf[i]) /\ Released(r, i))

Preparing(r, i) == Scanned(r) /\ item[r][i] = "todo"
PreparedFrame(r) == UNCHANGED <<runStatus, deliveries, pc, dry,
                                release, scan, hold, peers>>

(* Mutant of PrepareFails: the failed record moves past the step.          *)
PrepareFailsAdvances(r, i) ==
  /\ Preparing(r, i)
  /\ SetItem(r, i, "over")
  /\ SetState(r, i)
  /\ Answer(r, i)
  /\ denied' = denied \cup Erased(r, i)
  /\ PreparedFrame(r)
  /\ UNCHANGED <<copies, torn, raced, withheld, rehearsed>>

(* The projection misses what the step needs: a failed event.              *)
PrepareFails(r, i) ==
  /\ Preparing(r, i)
  /\ SetItem(r, i, "over")
  /\ Answer(r, i)
  /\ denied' = denied \cup Erased(r, i)
  /\ PreparedFrame(r)
  /\ UNCHANGED <<recState, copies, torn, raced, withheld, rehearsed>>

(* Mutant of PrepareHeld: a held record is skipped as a delivered one.     *)
PrepareHeldAdvances(r, i) ==
  /\ Preparing(r, i)
  /\ IsHeld(KeyOf[i]) /\ ~Released(r, i)
  /\ SetItem(r, i, "over")
  /\ SetState(r, i)
  /\ PreparedFrame(r)
  /\ UNCHANGED <<open, copies, torn, denied, raced, withheld, rehearsed>>

(* Held, and not released by this process: no event, no move.              *)
PrepareHeld(r, i) ==
  /\ Preparing(r, i)
  /\ IsHeld(KeyOf[i]) /\ ~Released(r, i)
  /\ SetItem(r, i, "over")
  /\ PreparedFrame(r)
  /\ UNCHANGED <<recState, open, copies, torn, denied, raced, withheld, rehearsed>>

(* already_delivered: a skipped_cache event, which answers no dispatch.    *)
PrepareSkip(r, i) ==
  /\ Preparing(r, i)
  /\ HasRow(KeyOf[i]) /\ ~IsHeld(KeyOf[i])
  /\ SetItem(r, i, "over")
  /\ SetState(r, i)
  /\ PreparedFrame(r)
  /\ UNCHANGED <<open, copies, torn, denied, raced, withheld, rehearsed>>

(* suppress: or on_missing: withholds the send: a fail verdict and a done  *)
(* event.                                                                  *)
PrepareWithhold(r, i) ==
  /\ Preparing(r, i)
  /\ Clear(r, i)
  /\ SetItem(r, i, "over")
  /\ SetState(r, i)
  /\ Answer(r, i)
  /\ denied' = denied \cup Erased(r, i)
  /\ withheld' = [withheld EXCEPT ![r] = @ \cup {i}]
  /\ PreparedFrame(r)
  /\ UNCHANGED <<copies, torn, raced, rehearsed>>

(* dryDeliver: a dry_run event, and the record moves past the step.        *)
DryDeliver(r, i) ==
  /\ Preparing(r, i)
  /\ dry[r]
  /\ Clear(r, i)
  /\ SetItem(r, i, "over")
  /\ SetState(r, i)
  /\ rehearsed' = [rehearsed EXCEPT ![r] = @ \cup {i}]
  /\ PreparedFrame(r)
  /\ UNCHANGED <<open, copies, torn, denied, raced, withheld>>

(* Another record of the same key is between its own check and its row, or *)
(* is dispatched and unanswered, in a run this process overlaps.           *)
InFlight(r, i) ==
  \E d \in peers[r], j \in Records :
    /\ <<d, j>> # <<r, i>>
    /\ KeyOf[j] = KeyOf[i]
    /\ j \in open[d] \/ item[d][j] \in Unresolved

(* The record passes the check and joins the work.  A released key starts  *)
(* from the operator's word that the target does not have it.              *)
Queue(r, i) ==
  LET k == KeyOf[i] IN
  /\ Preparing(r, i)
  /\ ~dry[r]
  /\ Clear(r, i)
  /\ SetItem(r, i, "queued")
  /\ raced'  = IF InFlight(r, i) THEN raced \cup {k} ELSE raced
  /\ copies' = IF HasRow(k) THEN [copies EXCEPT ![k] = 0] ELSE copies
  /\ PreparedFrame(r)
  /\ UNCHANGED <<recState, open, torn, denied, withheld, rehearsed>>

-----------------------------------------------------------------------------
(* dispatch and processChunk: one record per session (chunkSize).          *)

(* A worker takes the record and logs claimed.                             *)
Claim(r, i) ==
  /\ Prepared(r)
  /\ item[r][i] = "queued"
  /\ Cardinality(AtWork(r)) < Conc
  /\ SetItem(r, i, "claimed")
  /\ UNCHANGED <<ledgerVars, pc, dry, release, scan, hold, historyVars>>

(* Mutant of Dispatch: only claimed is logged before the session.          *)
DispatchUnlogged(r, i) ==
  /\ item[r][i] = "claimed"
  /\ SetItem(r, i, "dispatched")
  /\ UNCHANGED <<ledgerVars, pc, dry, release, scan, hold, historyVars>>

(* The dispatched event is committed before the session opens.             *)
Dispatch(r, i) ==
  /\ item[r][i] = "claimed"
  /\ SetItem(r, i, "dispatched")
  /\ open' = [open EXCEPT ![r] = @ \cup {i}]
  /\ UNCHANGED <<runStatus, recState, deliveries, pc, dry,
                 release, scan, hold, historyVars>>

(* From here the request may reach the target, now or after the process    *)
(* is gone.                                                                *)
OpenSession(r, i) ==
  /\ item[r][i] = "dispatched"
  /\ SetItem(r, i, "session")
  /\ copies' = [copies EXCEPT ![KeyOf[i]] = IF @ = 0 THEN 1 ELSE 2]
  /\ UNCHANGED <<ledgerVars, pc, dry, release, scan, hold,
                 torn, denied, raced, peers, withheld, rehearsed>>

(* An error out of processChunk that is not a session's: the pool stops    *)
(* (halt), and the record is left as the ledger has it.                    *)
ChunkError(r, i) ==
  /\ item[r][i] \in AtWorker
  /\ Stop(r, "stopping")
  /\ item'  = [item EXCEPT ![r] = [Drained(r) EXCEPT ![i] = "over"]]
  /\ torn'  = torn \cup Torn(r, {i})
  /\ UNCHANGED <<ledgerVars, dry, release, copies, denied, raced, peers,
                 withheld, rehearsed>>

InSession(r, i) == item[r][i] = "session"
SessionFrame == UNCHANGED <<runStatus, dry, release, raced, peers, rehearsed>>
Onward == UNCHANGED <<pc, scan, hold>>

(* The chunk's error is kept for the end of the step; the pool goes on.    *)
Failing(r) ==
  /\ pc' = [pc EXCEPT ![r] = IF @ = "step" THEN "failing" ELSE @]
  /\ UNCHANGED <<scan, hold>>

(* The record is answered.  Its session may still die afterwards, which    *)
(* fails the step and changes nothing of the record.                       *)
EndSession(r, i) ==
  /\ SetItem(r, i, "over")
  /\ Onward \/ Failing(r)
  /\ SessionFrame

(* The adapter says the request was not delivered.                         *)
NotDelivered(k) == copies' = [copies EXCEPT ![k] = IF @ = 1 THEN 0 ELSE @]

(* RECORD, or a session that ends well and says nothing, or an ATTEST that *)
(* does not contradict: advance logs done first.                           *)
Acknowledge(r, i) ==
  /\ InSession(r, i)
  /\ SetItem(r, i, "logged")
  /\ Answer(r, i)
  /\ Onward /\ SessionFrame
  /\ UNCHANGED <<recState, deliveries, copies, torn, denied, withheld>>

(* advance, second write: the record's state.                              *)
AdvanceState(r, i) ==
  /\ item[r][i] = "logged"
  /\ SetItem(r, i, "moved")
  /\ SetState(r, i)
  /\ Onward /\ SessionFrame
  /\ UNCHANGED <<open, deliveries, copies, torn, denied, withheld>>

(* advance, third write: the deliveries row, replacing what is there.  An  *)
(* attesting adapter's verdict then refines it.                            *)
RecordDelivery(r, i) ==
  /\ item[r][i] = "moved"
  /\ deliveries' = [deliveries EXCEPT ![KeyOf[i]] = Row("accepted")]
  /\ IF Attests
       THEN SetItem(r, i, "recorded") /\ Onward /\ SessionFrame
       ELSE EndSession(r, i)
  /\ UNCHANGED <<recState, open, copies, torn, denied, withheld>>

(* ATTEST confirmed refines the row; inconclusive leaves it accepted.      *)
Attested(r, i) ==
  /\ item[r][i] = "recorded"
  /\ EndSession(r, i)
  /\ deliveries' \in {deliveries, [deliveries EXCEPT ![KeyOf[i]] = Row("confirmed")]}
  /\ UNCHANGED <<recState, open, copies, torn, denied, withheld>>

(* ATTEST contradicted: the row comes first ...                            *)
Contradict(r, i) ==
  /\ InSession(r, i) /\ Attests
  /\ SetItem(r, i, "contra")
  /\ deliveries' = [deliveries EXCEPT ![KeyOf[i]] = Row("accepted")]
  /\ Onward /\ SessionFrame
  /\ UNCHANGED <<recState, open, copies, torn, denied, withheld>>

(* ... then its status and the failed event.                               *)
FailContradicted(r, i) ==
  /\ item[r][i] = "contra"
  /\ EndSession(r, i)
  /\ deliveries' = [deliveries EXCEPT ![KeyOf[i]] = Row("contradicted")]
  /\ Answer(r, i)
  /\ UNCHANGED <<recState, copies, torn, denied, withheld>>

(* ERROR fail_record or retry: a failed event, the record stays.           *)
FailRecord(r, i) ==
  /\ InSession(r, i)
  /\ EndSession(r, i)
  /\ Answer(r, i)
  /\ NotDelivered(KeyOf[i])
  /\ UNCHANGED <<recState, deliveries, torn, denied, withheld>>

(* ERROR skip: a withheld send, done, no row.                              *)
SkipRecord(r, i) ==
  /\ InSession(r, i)
  /\ EndSession(r, i)
  /\ Answer(r, i)
  /\ SetState(r, i)
  /\ NotDelivered(KeyOf[i])
  /\ withheld' = [withheld EXCEPT ![r] = @ \cup {i}]
  /\ UNCHANGED <<deliveries, torn, denied>>

(* A RECORD whose fields the manifest or the registry refuses: the         *)
(* acknowledgement fails the record, though the target has it.             *)
RejectAck(r, i) ==
  /\ InSession(r, i)
  /\ EndSession(r, i)
  /\ Answer(r, i)
  /\ denied' = denied \cup Erased(r, i)
  /\ UNCHANGED <<recState, deliveries, copies, torn, withheld>>

(* ERROR fail_run, or an exit of the auth class: chunkStopped.             *)
StopStep(r, i) ==
  /\ InSession(r, i)
  /\ Stop(r, "stopping")
  /\ item'  = [item EXCEPT ![r] = [Drained(r) EXCEPT ![i] = "over"]]
  /\ Answer(r, i)
  /\ NotDelivered(KeyOf[i])
  /\ SessionFrame
  /\ UNCHANGED <<recState, deliveries, torn, denied, withheld>>

(* The session dies on its own: its exit is its answer (chunkFailed),      *)
(* whether or not the target took the request, and the pool keeps          *)
(* draining.                                                               *)
SessionFails(r, i) ==
  /\ InSession(r, i) /\ pc[r] # "interrupted"
  /\ SetItem(r, i, "over")
  /\ Answer(r, i)
  /\ \/ NotDelivered(KeyOf[i]) /\ UNCHANGED denied
     \/ denied' = denied \cup Erased(r, i) /\ UNCHANGED copies
  /\ Failing(r) /\ SessionFrame
  /\ UNCHANGED <<recState, deliveries, torn, withheld>>

(* Mutant of HoldInterrupted: the record is failed, not held.              *)
FailInterrupted(r, i) ==
  /\ InSession(r, i) /\ pc[r] = "interrupted"
  /\ SetItem(r, i, "over")
  /\ Answer(r, i)
  /\ Onward /\ SessionFrame
  /\ UNCHANGED <<recState, deliveries, copies, torn, denied, withheld>>

(* The interrupt killed the session: it may have sent (holdInterrupted).   *)
HoldInterrupted(r, i) ==
  /\ InSession(r, i) /\ pc[r] = "interrupted"
  /\ SetItem(r, i, "over")
  /\ HoldRow(r, i)
  /\ Onward /\ SessionFrame
  /\ UNCHANGED <<recState, open, copies, torn, denied, withheld>>

-----------------------------------------------------------------------------
Operate(r) ==
  \/ \E d \in DryModes : CreateRun(r, d)
  \/ \E d \in DryModes, rel, settle \in SUBSET Records : Resume(r, d, rel, settle)
  \/ Interrupt(r)
  \/ Crash(r)

Hold(r) ==
  \/ OpenStep(r)
  \/ \E d \in Runs : Probe(r, d)
  \/ \E d \in Runs, i \in Records : HoldDelivery(r, d, i)
  \/ StepFails(r)

Prepare(r, i) ==
  \/ PrepareFails(r, i) \/ PrepareHeld(r, i) \/ PrepareSkip(r, i)
  \/ PrepareWithhold(r, i) \/ DryDeliver(r, i) \/ Queue(r, i)

Process(r, i) ==
  \/ Claim(r, i) \/ Dispatch(r, i) \/ OpenSession(r, i) \/ ChunkError(r, i)
  \/ Acknowledge(r, i) \/ AdvanceState(r, i) \/ RecordDelivery(r, i) \/ Attested(r, i)
  \/ Contradict(r, i) \/ FailContradicted(r, i)
  \/ FailRecord(r, i) \/ SkipRecord(r, i) \/ RejectAck(r, i) \/ StopStep(r, i)
  \/ SessionFails(r, i) \/ HoldInterrupted(r, i)

Next == \E r \in Runs :
  \/ Operate(r) \/ Hold(r) \/ Finish(r)
  \/ \E i \in Records : Prepare(r, i) \/ Process(r, i)

Spec == Init /\ [][Next]_vars

-----------------------------------------------------------------------------
(* Properties.                                                             *)

RowType == [status : Statuses, run : Runs \cup {NONE}, id : Records \cup {NONE}]

(* Types, and what the process variables say of a run nobody executes.     *)
TypeOK ==
  /\ runStatus  \in [Runs -> {"none", "running", "failed", "done"}]
  /\ recState   \in [Runs -> [Records -> {"before", "past"}]]
  /\ open       \in [Runs -> SUBSET Records]
  /\ deliveries \in [Keys -> RowType]
  /\ pc      \in [Runs -> {"dead", "start", "step", "failing", "stopping", "interrupted"}]
  /\ dry     \in [Runs -> BOOLEAN]
  /\ release \in [Runs -> SUBSET Records]
  /\ scan    \in [Runs -> SUBSET (Runs \X Records)]
  /\ hold    \in [Runs -> SUBSET (Runs \X Records)]
  /\ item    \in [Runs -> [Records -> ItemStates]]
  /\ copies  \in [Keys -> 0..2]
  /\ torn \subseteq Keys /\ denied \subseteq Keys /\ raced \subseteq Keys
  /\ peers   \in [Runs -> SUBSET Runs]
  /\ withheld  \in [Runs -> SUBSET Records]
  /\ rehearsed \in [Runs -> SUBSET Records]
  /\ \A r \in Runs : Alive(r) => runStatus[r] # "none"
  /\ \A r \in Runs : ~InStep(r) => scan[r] = {} /\ hold[r] = {}
  /\ \A r \in Runs : pc[r] \in {"dead", "start"} => \A i \in Records : item[r][i] = "none"
  /\ \A k \in Keys : IsHeld(k) => deliveries[k].run \in Runs /\ deliveries[k].id \in Records
                                  /\ KeyOf[deliveries[k].id] = k

(* The windows in which the step cannot keep its promise about a key.      *)
Waived == torn \cup denied \cup raced

(* At most one request per key is ever at the target, whatever the runs    *)
(* and crashes, except for a key of the named windows: it was acknowledged *)
(* and the process died between advance's writes, it was answered as not   *)
(* delivered although it was, or two records passed prepare's check on the *)
(* deliveries table before either had a row.                               *)
NoDoubleSend == \A k \in Keys : copies[k] > 1 => k \in Waived

(* The ledger never forgets a request that may have left: there is a       *)
(* deliveries row, an unanswered dispatched event for the next process to  *)
(* hold, or a process about to write the row.                              *)
NothingForgotten ==
  \A k \in Keys \ Waived : copies[k] > 0 =>
    \/ HasRow(k)
    \/ \E r \in Runs, i \in Records :
         KeyOf[i] = k /\ (i \in open[r] \/ item[r][i] \in {"logged", "moved"})

(* A record is past the deliver step only when its key has its row, a      *)
(* verdict withheld it, or it was rehearsed: no record is dropped without  *)
(* a send and without a reason, except in the torn window.                 *)
PassedMeansHandled ==
  \A r \in Runs, i \in Records : recState[r][i] = "past" =>
    \/ HasRow(KeyOf[i]) \/ item[r][i] = "moved" \/ KeyOf[i] \in torn
    \/ i \in withheld[r] \cup rehearsed[r]

(* A held delivery can be released: its record is still before the step in *)
(* the run that holds it, so that run's resume prepares it again, unless   *)
(* a verdict withheld it or a dry resume moved it.                         *)
HeldIsReleasable ==
  \A k \in Keys \ torn : IsHeld(k) =>
    LET row == deliveries[k]
    IN recState[row.run][row.id] = "before" \/ item[row.run][row.id] = "moved"
         \/ row.id \in withheld[row.run] \cup rehearsed[row.run]

(* A process is between prepare and the adapter's answer with the key.     *)
InHands(k) == \E r \in Runs, i \in Records : KeyOf[i] = k /\ item[r][i] \in Unresolved

(* What the deliveries table claims of a key: one that has its row, held   *)
(* or settled, counts as released while a process that may send it has it. *)
Claim_ == [k \in Keys |->
  IF ~HasRow(k) THEN "free"
  ELSE IF InHands(k) THEN "released"
  ELSE IF IsHeld(k) THEN "held" ELSE "delivered"]

Abstract == INSTANCE DeliveryPromise WITH claim <- Claim_, waived <- Waived

(* The step implements what ADR-060 decides about one destination.         *)
Promise == Abstract!Spec

(* ADR-060, Consequences: at-most-once delivery holds across a crash.      *)
CrashSafe == \A k \in Keys : copies[k] > 1 => k \in denied \cup raced

(* step.go, dryDeliver: the armed run behaves as if the dry run never      *)
(* happened, so an armed process that finishes a run as done leaves no     *)
(* record behind that was only rehearsed.                                  *)
ArmedSends ==
  [][\A r \in Runs :
       runStatus[r] = "running" /\ runStatus'[r] = "done" /\ ~dry[r] =>
         rehearsed[r] \subseteq withheld[r] \cup {i \in Records : HasRow(KeyOf[i])}]_vars
=============================================================================
