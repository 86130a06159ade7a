# A formal model of gtme

gtme runs go-to-market pipelines from YAML files. A planner checks a pipeline, a runner
takes records through its steps, and an append-only SQLite ledger is the only thing that
outlives a process. This directory models gtme where processes, crashes, operators,
adapters, vendors and files can meet in an order no test was written for. TLC checks small
instances of every part, and TLAPS proves the main invariants of all twenty-one, and the
refinement of one, for any instance.

Source paths below are relative to `src/internal/`; SPEC.md and DECISIONS.md are in `src/`.

## 1. Inventory

Which parts are modelled is said again, part by part, in `PROJECT.json`, and which hazard
each property is about.

| Component | State | Operations | What is hard | What makes it correct |
|---|---|---|---|---|
| Deliver step (`runner/step.go`, `ledger/runs.go`) | `deliveries`, `step_events`, `run_records.state`, the items of a process | hold open dispatches, prepare, dispatch, acknowledge, attest, fail, skip, hold, release, settle, rehearse | a crash between two writes; overlapping runs; an interrupt in a session; resume after resume | at most one copy of a key at the target; a send that may have left is never forgotten; a held row can be released |
| Run lock (`ledger/lock.go`, `runner/runner.go`) | `runs.status`, `locks/<run>.lock`, advisory locks | create, lock, reopen, finish, release, probe | unlink against open against flock; probes take the lock too | one process per run; a probe tells the truth; files stay only after deaths |
| Run life (`runner/runner.go`, `runner/participant.go`, `ledger/answers.go`, `cli/run.go`, `planner/once.go`) | pending events, tokens, answers, the run's status | run, resume, collect first, PENDING, answer, gate, hand off, end | late answers, superseded tokens, two collectors, kills between writes | a record is asked once and settled once; a done run forgets nobody |
| Intake (`runner/runner.go`, `runSource`) | records of a run, references, the source's done event | take a row, coalesce, drop, relate, select a group under a limit | a source that dies half-way and answers otherwise the second time | nobody is missing, nobody is doubled, the count is of the run |
| Identities (`ledger/identities.go`) | `identities`, `identity_aliases` | upsert, ensure, resolve, upgrade | weak and strong keys arriving in any order | a key leads to one identity and goes on doing so |
| Registry of types (`registry/`) | type files, embedded and discovered | discover, add, resolve, keys, contract | files that disagree, in any order | order does not matter; the planner and the run read one list of keys |
| Worker pool (`runner/step.go`, `dispatch`) | goroutines, an unbuffered channel, a stop channel, a context | offer, take, session, stop, crash, join | stop, crash and interrupt at once | it returns; nothing is sent after a stop; the counts add up |
| Sessions and the wire (`adapters/session.go`, `protocol/`) | pipes, a sending goroutine, a reader | send, hear, end of stream, wait | each side waits for the other to read | every session ends, and truthfully |
| Judgment cache (`runner/judgment.go`, `ledger/project.go`) | `fields`, done events with signatures | write, project, reuse, skip | edited templates, facts that change back, deferred answers | a reuse is of the same question and facts; nothing is paid twice in a window |
| AI steps (`adapters/aisteps/`, `ai/`) | batches, calls, tokens | ask, retry, halve, submit, collect | half a batch fails; a batch whose token is lost | one answer each, every call reported |
| Groups (`ledger/groups.go`, suppression in `runner/step.go`) | `groups`, `group_events` | add, remove, touch, gate, suppress, assert at the terminus | check-then-add by several runs | one type; a clean trail; windows hold |
| Traverse (`runner/traverse.go`) | relations, child records | relate, admit, coalesce, finish | a resume after a traverse | the next leg is exactly the children |
| SQL and text steps (`runner/sqlstep.go`, `runner/text.go`) | verdicts, values, children | ask once, apply record by record | a kill between the writes of one record | a record goes on only as judged |
| Receipts (`runner/receipt.go`, `runner/mirror.go`) | step events, live counts | count, rebuild | two derivations of one line | both agree |
| HTTP client and bindings (`httpx/`, `binding/`) | attempts, pages, errors | retry, paginate, map errors | a retry of what was done | a source is exact; a session says one true thing of each record |
| csv/deliver (`adapters/csvdeliver/`) | a file, a mutex, a file lock | create with a header, append, check the size | several processes, network file systems | an acknowledged row is in the file |
| instantly (`adapters/instantly/`) | a campaign, its leads | preflight, add a lead, attest | a campaign half readable, edited, full | nobody is mailed a hole; an attestation is true |
| Planner (`planner/`) | none | walk, refuse | legs, types, open sources, shared groups | what is accepted can run |
| Installation (`cli/adapters.go`, `adapterinstall/`) | adapter directories, pins | add, update | a kill between two renames | whole and pinned, or not there |
| Bundles (`cli/freeze.go`, `bundle/`, `pipeline/`) | a folder, a manifest | freeze, load, resolve | another machine, updated adapters, a copy cut short | what runs is what was frozen |
| Ledger storage, migrations, payloads (`ledger/`) | the SQLite file | transact, migrate, evict | two processes migrate | assumed here: a call is a transaction |
| Command line, secrets, templates, demo and csv sources, docs generator | files | parse, render, print | nothing concurrent | not modelled (section 6) |

How they interact: `cli/run.go` plans, then calls `Execute`, which creates or reopens the run
and holds its **run lock** while it takes each step in turn. The **source** brings records
in through the **identity** operations, whose key is the default idempotency key of a
delivery and whose rules come from the **registry**. A step reads `run_records`,
**prepares** every eligible record (cache, judgment, gates, suppression) and hands the rest
to the **pool**, whose workers open adapter **sessions** over the wire and write what they
say to the ledger. A **deliver** step asks the run lock, through `RunAlive`, which of the
runs with unanswered dispatches are dead. What a step says of itself is counted as it goes
and rebuilt later from its events. Processes share the ledger, `locks/` and the files of
their adapters, nothing else.

## 2. Modules

| Module | Models |
|---|---|
| `Delivery` | the deliver step, with the processes that execute its runs |
| `DeliveryPromise` | what that step promises of one destination (ADR-060), without runs, processes or events |
| `DeliveryProofs` | the proofs about `Delivery`, with the refinement of `DeliveryPromise` |
| `RunLock`, `RunLockProofs` | the lock file and the life of one run around it; the proofs about it |
| `RunLife`, `RunLifeProofs` | `gtme run`, `--resume` and `answer`: steps, in-flight records, the handoff, the terminus, the status; the proofs about them |
| `Intake` | what the rows of a source, or the members of a group, become in a run |
| `Identity` | identities, aliases and the default idempotency key |
| `Types`, `TypesTexts` | the registry of type files and the keys it yields |
| `Dispatch`, `DispatchProofs` | the worker pool of one step; the proofs about it |
| `Wire` | the pipes of one session |
| `Judgment` | what is remembered of a judgment and an enrichment, and when it is used again |
| `AiSteps` | the sessions of an AI step over a batch |
| `Groups` | a group's type and trail under concurrent writers |
| `Suppression` | the window of `suppress:` |
| `Traverse`, `SqlStep` | the traverses of an adapter; every `sql/` step and `text/compose` |
| `Receipt` | the counters of a step and the line rebuilt from its events |
| `Fetch`, `FetchTexts` | a binding's session over the HTTP client |
| `CsvFile`, `Instantly` | the two adapters that deliver |
| `Plan`, `PlanTexts` | the planner's walk, and the run of what it accepted |
| `Install`, `Bundle` | adapters on a disk; a frozen pipeline on another machine |
| `Picks` | the elements of a list that a loop keeps, used by `AiSteps`, `Fetch`, `Intake` and `SqlStep` |
| `*Texts` | inputs of `Plan`, `Fetch` and `Types` that need a name |
| `MC*` | instances for TLC: definitions of constants, symmetry sets |
| `LedgerProofs` | the proofs about `Identity` and `Groups` |
| `StepProofs` | the proofs about `Receipt`, `Instantly`, `SqlStep`, `Intake`, `AiSteps`, `Fetch` and `Wire` |
| `MachineProofs` | the proofs about `Suppression`, `Traverse`, `Install`, `CsvFile`, `Judgment`, `Types`, `Bundle` and `Plan` |
| `PartsProofs` | what a run of `MCParts` checks of a part, and the types of all parts, follow from the proofs about each |

Operators commented as "Mutant of X" are faulty variants of an action. They are no
part of any specification: each records a bug that one property is known to catch.

Where the code cannot keep what a property asks, the exception is a named operator or
history variable (`torn`, `raced`, `late`, `unseen`, `twice`, `Deaf`, `Outsider`...), and the
property is stated around it: the exception says what the code does, the rest is what
holds in spite of it.

### Delivery

One (target, scope). Every run is a possible process. The variables are the ledger's
(`runStatus`, `recState`, `open`, `deliveries`), the process's (`pc`, `dry`, `release`,
`scan`, `hold`, `item`) and history (`copies`, `torn`, `denied`, `raced`, `peers`, `withheld`,
`rehearsed`), which no action's guard reads.

`open[r]` is what `OpenDispatches` computes from `step_events`: records of run `r` whose
dispatched event no later done or failed event follows. `item[r][i]` is the place of record
`i` in the step: `todo` (eligible, not yet prepared), `queued` (prepared), `claimed`,
`dispatched` (the event is committed), `session` (the request may leave), `logged`, `moved`
(between the three writes of `advance`), `recorded` and `contra` (between those of
`applyAttest`), `over`.

Writes are separate actions where a crash between them changes what the ledger knows of a
send, and one action where it only has the record prepared again (a verdict and the event that
repeats it). A chunk of a deliver step is one record, as `chunkSize` makes it for a target
that is not natively idempotent.

`copies[k]` counts the requests of key `k` that may be at the target: from `OpenSession` on a
request counts as arrived, since no one can know. It goes back to 0 on an adapter's answer that
the request was not delivered (`ERROR`, an exit of the auth class) and on the operator's
`--resend-unconfirmed`, which is the operator's word that the target does not have it. Both
words are taken as true. A session that dies on its own may or may not have delivered; both
outcomes are in the model.

Three windows in which the ledger cannot keep the promise are named by history variables, and
a key that falls into one is *waived*:

- `torn`: the done event is written and the process dies before the row is;
- `denied`: the record is answered failed, although the target may have it (an acknowledgement
  with refused fields, a session that died after it sent, a withheld or failed retry of a
  record whose earlier dispatch has no row yet);
- `raced`: two records of one key pass the check in `prepare` before either has a row.

`denied` and `raced` are decisions of the code; `torn` contradicts ADR-060 (see 4).

### DeliveryPromise

Per key a `claim` (`free`, `held`, `released`, `delivered`), `copies` and `waived`. The promise:
delivered stays delivered, even for a waived key; a held key is sent only after a release; a
send finds no other copy. `Delivery!Promise` is the refinement: `claim` is read off the
deliveries table, except that a key counts as released while a process that passed the check of
`prepare` has it in hand (`InHands`: from the queue to the adapter's answer) and its row is held
or settled. Three runs show why. `r1`'s send is refused as not delivered and `r1` dies before it
says so; `r2` scanned before the refusal, probes `r1` dead and holds the dispatch; `r3` has the key
queued since there was no row. An operator may settle the row while `r3` sends. A hold, or the
operator's word, does not call back a process that passed the check. Two runs cannot do this and
TLC had not met it: the proof did.

### RunLock

A lock file is an inode: `path` names one or none, `fd` and `flock` are per process, an unlinked
inode lives as long as it is open and may be created again afterwards. `LockRun` is taken apart
into open, lock (or miss), compare with the path; `Release` into unlink and unlock; `RunAlive`
into open, lock, drop. A process may be killed between any two. `idle` (a prober has seen a
moment without an executing process) and `leftover` are history.

### Identity

A record is the set of keys its fields yield, at most one per tier (`Candidates`); which keys,
is an input. `Strength` ranks a key by its tier, 1 to `Tiers`, as `registry/keys.go` counts a
type's list of keys down. `UpsertIdentity` is `Create`, `Keep` or `Upgrade`; `Enrich` is the upsert that
`applyRecord` makes of an enrichment's fields alone. `Deliver` is a deliver step without
`idempotency:`.

### Dispatch

The dispatcher, its workers, the unbuffered channel (a send is one step with a worker that is
idle), the stop channel, the cancelled context, and the four ways a chunk ends: answered, a
session crash, a step stop, an error of the runner's own. `PoolAccounts` is what may be said
at any time: no chunk is opened after a stop, the step line adds up, an ok outcome means all
answered, and crashes leave nothing claimed.

### RunLife and Intake

`RunLife` is a pipeline of two steps, `kind` their kinds: a participant step (a person answers
with `gtme answer`, at any time, in another process), a session that may answer PENDING, or a
handoff to a group. A run's process reads the answers once, deals with its eligible records,
ends with a status, and asserts the terminus. A kill may come between any two writes.
`torn` and `late` name what such a kill, or an answer after the reading, leaves behind.

`Intake` is `runSource` row by row: resolve the identity, write its fields, add the record
(or log that it coalesced), relate it. A resume runs a source without a done event again, from
the start, over what the vendor gives by then (`Change`).

### Judgment, AiSteps

`Judgment` follows one record and one step: facts and the question change, values are appended,
the newest surest one is projected; `Reuse` and `SkipFresh` are `judgmentSkip` and `cacheSkip`.
An enrich adapter may answer with any of its fields or with none (`Enrich`); `calls`, history, has
when each of its sessions ended and whether it wrote a field.
`AiSteps` has a stack of halves, answers that are whole, invalid or cut off, and a deferred
batch with its token; `spent` is what the provider charged, `billed` what COST said.

### Groups, Suppression, Traverse, SqlStep

`Groups` takes `EnsureGroup`, the reading of the membership and the appending apart;
`Suppression` the check before a send and the touch after it. `Traverse` has three identities,
one of them a parent and a child at once, with sessions per parent and restarts. `SqlStep` asks
one query, whose answer may name strangers, two rows of one record, or unknown children, and
writes verdict, event and state one by one.

### Receipt, Wire

`Receipt` counts as `step.go` does and as `mirror.go` does later, on separate data. `Wire` is
SendStream's goroutine, the adapter, which may do anything, and the runner's reader, over
pipes that are synchronous (built-in) or hold a line (external).

### Fetch, CsvFile, Instantly

`Fetch` is one engine for six roles: pages by number, offset or cursor, attempts with their
fates, the errors: map, and what the session says. `CsvFile` is the file of `csv/deliver` as a
sequence of lines: `EnsureHeader` and `WriteHeader` (under `fileMu` only), then per row the
mutex, the lock, the size, the write, the size. Each of these calls may fail (`CallFails`), the
header's and a row's write also after part of it (`HeaderCut`, `WriteCut`). On a network file
system the lock holds within a process only and a row may go to where the file ended before.
`Instantly` is a step's sessions: the preflight reads all or parts of the campaign, each record
is sent the text values of its variables (a number is no text to `http.go:202`), the answer may
be lost and the request repeated, and what Instantly stored is read again, in part. An adapter
killed between an acknowledgement and its attestation is in `Delivery`, where the runner's writes
are, and not in `Instantly`.

### Plan, Types, Install, Bundle

`Plan` writes a pipeline text by text as `Build` walks it, then takes one record through it.
`Types` discovers files in any order and checks a fetched binding's own against them; a type's
tiers are read by field names (`Contract`) and by values (`Candidates`), and the two are
compared. `Install` moves versions through a directory, its staging directory and its pin,
write by write, with a publisher who moves meanwhile. `Bundle` freezes a run's pipeline, copies
the folder, possibly cut short, to a machine with adapters of its own, and plans it there. On the
way a file may be lost or changed, and its line in the manifest be left, dropped or made to fit; or
the manifest itself is lost or spoilt (`Spoil`). `Load` asks what `bundle.Load` asks: that the
manifest can be read and each file it still lists is as it lists it.

## 3. Runs

| Run | Instance | Shows |
|---|---|---|
| `delivery_two_runs` | 2 runs, 1 record, 1 key, attesting, armed | the invariants of the send across overlapping and dead runs, and the refinement of `DeliveryPromise` |
| `delivery_one_run` | 1 run, 2 records, 2 workers, attesting, armed or dry at will | the same within a run, with rehearsals; no record is passed without a reason |
| `run_lock` | 3 processes, 1 probe, 4 inodes, 2 attempts | exclusion, truthful probes, no stray files |
| `run_life` | 2 runs of 2 records; participant and handoff, or one session; a rehearsal first; kills and one answer by hand bounded | nobody is forgotten, asked twice, judged by an old answer, or left out of a group |
| `parts` | nineteen machines, one per behaviour | everything else, below |
| `delivery_crash`, `delivery_rehearsal`, `identity_double_add`, `identity_enrich`, `judgment_reuse`, `plan_groups`, `fetch_webhook` | smallest instances | the divergences of section 4 |

`parts` (`MCParts`) puts the components that share no state side by side: `Init` chooses one,
`part`, and only its machine moves; the others stay in one initial state, and each property is
checked while its own part moves. TLC so explores the union of the machines, not their
product. Its bounds:

| Part | Instance | Property |
|---|---|---|
| identity | 3 identities, 2 emails, 1 slug, 1 name hash | `OnceWhileKeyed`, `KnownKeysStand` |
| dispatch | 2 workers, 4 chunks | `PoolAccounts`, `Returns` (liveness) |
| life | 1 run, 1 record, a session then a person; 1 kill, 1 resume by hand | `ProcessEnds`, `AnswersAreCollected` (liveness) |
| groups, suppression | 2 writers, 2 members of different types, 3 events; 2 senders, a window of 1 in 4 ticks | `BookHolds`, `WindowHolds` |
| judgment | 2 questions, 2 facts, 2 provided fields, 2 changes, as many calls as rows, a window of 1 in 2 ticks | `JudgmentIsReused`, `PaidOncePerWindow` |
| traverse, sql | 3 identities, 2 starts; 2 records, a stranger, 2 rows, 1 kill | `SegmentHolds`, `SqlHolds` |
| plan, types | 4 steps, 3 fields, 2 types, 4 groups; 2 files of 2 types, sound and unsound | `PlanHolds`, `RegistryHolds` |
| fetch | 2 lists with blanks, every kind of paging, reply and rule, 2 sessions | `FetchHolds` |
| ai | 3 records, filter, compose, deferred, 2 sessions | `AnswersArePaid` |
| receipt | 2 records; a filter with 2 messages each, an enrich, a deliver and its resume | `ReceiptHolds` |
| wire | a pipe of 1 line, 3 messages, 3 lines | `SessionEnds` (liveness) |
| install, bundle | 1 adapter, 3 versions, 1 kill; 5 pipelines, 2 versions, 1 update, one file or the manifest spoilt | `InstallHolds`, `BundleHolds` |
| intake | 4 tables of rows that share keys, 3 identities, 1 break, 1 change; groups of 2 and 3 under a limit of 2 | `IntakeHolds` |
| csv | 2 sessions of one process, 1 of another, local and network, 1 kill, cut write or failed call | `FileHolds` |
| instantly | 2 records, 3 mappings, 4 campaigns, 2 sessions, 1 lost answer, 1 edit | `InstantlyHolds` |

Why the bounds are enough:

- Every hazard of the deliver step is between two actors at one key: two processes of different
  runs, two successive processes of one run, or two records of one pool. The two passing runs
  have these pairs; what a third run adds to the refinement is told under `DeliveryPromise`, and
  the proofs of all its properties need no bound. No action has a step counter: crashes,
  resumes and releases are unlimited. `copies` stops at 2, which stands for more.
- The lock needs a process that unlinks, one that waits on the old inode and one that creates
  the next, and an inode for each open file. The code tries five times; with two a refusal, a
  retry after a miss and one after a replaced file still happen, and the proofs hold for any
  number.
- An identity's history needs a key of each of three tiers, two of one tier to tell "another
  record" from "this one", and a third identity to be created in error.
- With fewer workers than chunks a worker takes a second chunk after a stop or a crash.
- A run's life needs an earlier and a later run, one record that goes on while another waits,
  and a kill; a third run repeats what the second meets.
- One kill is enough where a resume ends in the states a first process starts from: `Intake`,
  `SqlStep`, `Install`, `CsvFile` differ after a kill only by what it left, which the second
  start sees.
- Two of whatever is compared (facts, questions, versions, writers, files, texts of a step) tell
  same from other; three where a middle one matters (`Traverse`'s parent that is a child,
  `Install`'s version skipped, the records of a batch that is halved).
- A pipe that holds one line blocks whenever one that holds many does, only sooner.

`CHECK_DEADLOCK FALSE` stands where the system really stops: every identity is created and
delivered, all inodes are in use by processes that wait for an operator, a run, a session or a
command is over, a bound is reached. Hangs are looked for as liveness instead: `Returns`,
`ProcessEnds` and `SessionEnds`.

Fairness, weak throughout: in `Dispatch` of the dispatcher and of each worker (goroutines are
scheduled by the Go runtime, and a session ends because the adapter answers, its process exits,
or its timeout or the interrupt kills it); in `RunLife` of the steps of a living process, and,
for `AnswersAreCollected` alone, of an operator who runs the pipeline again while its last run
is pending, which is how answers are collected (`cli/run.go:94`); in `Wire` of the sending
goroutine, of the runner and of the adapter, which is assumed to go on reading, writing or to
exit, since an adapter that does nothing for ever is ended by an interrupt only. Nothing else is
assumed of operators. Deliveries have no liveness: a run that died waits for a person by decision
(ADR-061).

What the properties say, by hazard, is in the comment above each and in `PROJECT.json`.

## 4. Divergences found

Checked, each by a run that expects the violation:

1. **A crash inside `advance`** (`runner/step.go:1542-1551`). The done event is written before the
   deliveries row, and `OpenDispatches` takes it as the dispatch's answer. A process that dies
   between the two leaves no evidence of the send. ADR-060 says at-most-once holds across a
   crash. `NoDoubleSend` holds with that window waived; `CrashSafe` does not.
2. **A rehearsal that an armed run takes for a send** (`runner/step.go:664-683`). A dry run dies
   after it rehearsed a record and is resumed armed: the record is past the step, so the armed
   process finishes as done without sending it. The comment says the armed run behaves as if the
   dry run never happened. The same lines do it to an armed run that failed, is resumed dry and
   then armed again. (`ArmedSends`)
3. **The default idempotency key moves** (`runner/step.go:1061`). An identity delivered under a
   weak key is delivered again once its key is upgraded; SPEC.md says the same record can never
   double-add. What holds is `OnceWhileKeyed`. (`NeverDoubleAdds`)
4. **An enrichment may duplicate** (`runner/step.go:1462`). Its fields are upserted without the
   key of the record they enrich. (`EnrichmentAddsNobody`)
5. **A judgment comes back, its draft does not** (`runner/step.go:958-1001`). When the facts return
   to an earlier value the earlier judgment is reused and nothing is written, while the current
   draft is the one composed in between. (`FieldsAreCurrent`)
6. **A plan whose second leg cannot be recorded** (`runner/step.go:1576`). Deliver steps in legs of
   two types share the default touch group, and the second one's sends fail after they were
   made. (`GroupsAdmit`)
7. **A delivery answered in plain text is sent again** (`httpx/httpx.go:247`). The 2xx body is
   decoded as JSON though the caller ignores it; the error fails the record. (`AtMostOneCopy`)

Met while modelling; each is inside a model, as a named exception where a property would
otherwise fail, and has no run of its own:

- *Identities.* `UpsertIdentity` compares an incoming key with the one the record matched by, which
  may be an alias, and may so replace the stored key by a weaker one (`identities.go:116`, against
  the comment at 54). `NormalizeHandle` is not idempotent (`@@jane`).
- *Instantly.* A variable whose value is a number is held to be there by the runner
  (`step.go:583`, `stringify` renders it) and dropped by the adapter (`http.go:112`, `str` takes
  strings only): the lead is added without it and confirmed, though SPEC.md has blank merge
  fields never sent (`NotText`). Copy of step 2 that stands only in another step passes the
  preflight if step 2 has a single text (`Elsewhere`; SPEC.md:1718). A custom tag of the campaign
  that no variable fills, and `{{jobTitle}}`, are not looked for.
- *csv/deliver.* The header goes to offset 0 under the process's mutex only: another process that
  finds the file created may append a row before, which the header then overwrites after it was
  acknowledged, or has its row reported failed because the file grew by more (`Outsider`;
  `csvdeliver.go:176`). A creator killed before its header leaves a file that never gets one, and
  so does one whose header write fails or is cut short (`headless`; `csvdeliver.go:163-167`): the
  session fails, the file stays, and the later sessions of the same process, which find it there
  (156), append acknowledged rows under no header, against the comment at 147-150. A row whose
  size cannot be read after the write is in the file and reported failed (`blind`; 217-220). A
  write the disk cut short leaves half a row, to which the next acknowledged one is glued
  (`Glued`).
- *Sources.* A row that coalesces within a run returns before its references are written
  (`runner.go:1085`): the company is in its fields and never an edge (`absorbed`). After a kill
  the done event counts the new rows only, and a group source killed half-way selects again, so
  that a run may hold more than its `limit:`. `csv/source` lets the later of two canonical names
  for one header win in silence (`csvsource.go:246`).
- *Run life.* A record that arrives late at a step lowers `not_sent` of the mirror, and one seen in
  an earlier process and not sent by a later stop is counted in twice (`mirror.go:145`). A record
  settled twice in a process counts once per answer live and once in the mirror (`twice`). An
  answer after the step has read the answers is accepted and collected by nobody (`late`).
- *Judgments.* A collected judgment is recorded under the question and facts of its collection
  (`Collected`; SPEC.md:1129). An enrich adapter that answers with no field, with nulls, or with
  nothing at all (`step.go:1434-1438`, 1266-1277) leaves no row for `cacheSkip` to find
  (`step.go:932-936`), and is called and paid again within the window, though the question there
  is "have we already paid this adapter for this record, recently?" (SPEC.md:1111). What holds is
  of calls that wrote a field (`wrote`).
- *Traverse.* A resumed parent coalesces its child again and moves the child's state back; a record
  coalesced as a child before its own turn is never traversed if that session fails.
- *SQL steps.* A kill behind a fail verdict leaves a stopped record without an event; one between a
  done event and the state has the record judged, and counted, twice; one between a child's row
  and its event leaves a child the next leg does not see, unless an answer names it again.
- *Planner.* `plan.Wildcard` survives a traverse (`planner.go:562-571`; SPEC.md:894-897), so an open
  source in the first leg hides unmet needs of the second. `redeliver:` on a step that does not
  deliver and `uses:` on a group source are ignored in silence (`Unchecked`).
- *AI steps.* A refusal is charged and reported by no COST; a crash between the submit and PENDING
  pays again; a kill behind a collection's COST reports it twice; an error in the second half
  throws away the paid answers of the first.
- *Bindings.* A page already emitted is never costed when the source ends in an error; `cost.per:
  request` on enrich and deliver bindings emits nothing; a deliver POST that timed out is repeated
  within its session, and a later 404 or 429 then reports a failure though the first arrived
  (`unsure`).
- *Sessions.* After a bad line the runner waits for an adapter that may be waiting to be read
  (`Deaf`; `step.go:1148`).
- *Installation.* A kill during `add` leaves a directory that both `add` and `update` refuse
  (`torn`); one during `update` leaves `<dir>.update`, whose files are mixed into the next update
  under its pin (`mixed`) and whose types are discovered; an update whose shipped type changed is
  refused (`adapters.go:567`).
- *Bundles.* The `types/` files of a binding are not packed (`freeze.go` says self-contained);
  ids that flatten to one directory lose one of them (`Collide`); a template's fallback name may
  overwrite another's (`Overwritten`). The bindings packed are those of the moment, not the run's.
  The manifest vouches for the files and nothing for the manifest: a line dropped or made to fit
  passes with its file changed or gone (`Vouched`; `bundle.go:205-224`), against the words "a
  tampered or truncated bundle fails loudly" (201-203).

## 5. Proofs

The `*Proofs` modules are checked by TLAPS from the named assumption of the component's
module: the constants have their types, `NONE` is none of the values, processes and probers are
different, a legacy membership fits the trail, the versions of an adapter are numbered from one
and each has its document, a step that is judged has a question and facts. Of the parts added last:
a type of the binary parses and a hash tier has a component, as `field-registry.schema.json`
asks; the names a bundle gives its templates are no names of its bindings, its document or its
manifest (they lie in directories of their own), and a process finds version 1 of what it uses;
the rows and the members a source may give are sequences of them, and a group lists nobody
twice; the identities a query traverses to are none of the words that mark a row; every manifest but a
missing one declares a type or `*`, its needs and provides are fields, and only a source is a group,
of a name the ledger may have; a target whose answer is decoded has acted on
the request, and one that refuses it with 401, 404 or 429 has not. Nothing else is
assumed; sets whose size nothing counts may be infinite. Every module has the same plan: an inductive invariant `IInv`,
`InitIInv`, `NextIInv` (one step per action), `Invariance`, and from it the theorems that
name a property of a run.

| Module | Theorems | Property |
|---|---|---|
| `DeliveryProofs` | `TypeCorrect`, `AtMostOnce`, `Remembered`, `PassedSound`, `HeldSound`, `ImplementsPromise` | `TypeOK`, `NoDoubleSend`, `NothingForgotten`, `PassedMeansHandled`, `HeldIsReleasable`, `Promise` |
| `RunLockProofs` | `TypeCorrect`, `Exclusion`, `ProbesTellTheTruth`, `FilesLeftOver` | `TypeOK`, `MutualExclusion`, `ProbeTruth`, `FilesAreLeftovers` |
| `RunLifeProofs` | `DoneForgets`, `TokensSpent`, `NewestDecides`, `WorkedOnce`, `TerminusHolds`, `HandoffSound` | `DoneForgetsNobody`, `SpentTokens`, `NewestAnswerDecides`, `OnceWorkedOnce`, `TerminusHoldsCompleters`, `HandoffHolds` |
| `DispatchProofs` | `TypeCorrect`, `Accounts` | `PoolAccounts` |
| `LedgerProofs` | `IdentityTypeCorrect`, `SentWhileKeyed`, `KeysNeverStray`; `BookIsKept` | `OnceWhileKeyed`, `KnownKeysStand`; `BookHolds` |
| `StepProofs` | `ReceiptIsTrue`, `CampaignIsKept`, `SqlIsKept`, `IntakeIsWhole`, `ModelIsPaid`, `FetchIsKept`; `WireIsTruthful` | `ReceiptHolds`, `InstantlyHolds`, `SqlHolds`, `IntakeHolds`, `AnswersArePaid`, `FetchHolds`; the `EndsTruthfully` of `SessionEnds` |
| `MachineProofs` | `WindowIsKept`, `SegmentIsKept`, `InstallIsKept`, `FileIsKept`, `ReuseIsSound`, `PaidOnce`, `RegistryIsSound`, `BundleIsKept`, `PlanIsKept` | `WindowHolds`, `SegmentHolds`, `InstallHolds`, `FileHolds`, `JudgmentIsReused`, `PaidOncePerWindow`, `RegistryHolds`, `BundleHolds`, `PlanHolds` |
| `PartsProofs` | `PoolIsAccounted`, `IdentityIsSentOnce`, `KeysStandForEver`, `BookIsKept`, `JudgmentsStand`, and those of `StepProofs` and `MachineProofs` by their names; `SessionIsTruthful`; `TypesAreKept` | the same nineteen, as the run `parts` states them; `EndsTruthfully`; `TypeOK` of all its parts |

**Delivery.** The invariant behind `NoDoubleSend` and `NothingForgotten` adds to them what each
needs:

- `PeersKnown`: overlapping processes know of each other, so that a race is recognised as one;
- `DispatchedFirst`: no session without a committed dispatched event;
- `OneAtATime`: outside `raced`, one item of a key at most is between the check and its row;
- `DeadDispatchesHeld`: an armed process that is past `OpenStep` has seen to every unanswered
  dispatch: it will hold it, the key has its row, it is its own, or that of a run it overlaps.
  That is what `holdOpenDispatches` is for, and why it must run before the first `prepare`;
- `FreshStart`: what is about to be sent finds no copy at the target. It follows from the last
  one and `NothingForgotten`: a copy without row or open dispatch is waived.

`NothingForgotten` is proved through `EvidenceKept`, which says pair by pair, without a
quantifier to instantiate, what a step does to the evidence.

`RInv` adds `SentCounts` (the request of a session, or one acknowledged and not yet in the
table, counts at the target), `RowWritten` (a worker attests only what has its row),
`PassedMeansHandled` and `HeldIsReleasable`. `HeldIsReleasable` needs
`PassedMeansHandled`: a row becomes held for a record that has no row yet and so is before the
step, or that something else accounts for, and the row stays with that record.

The refinement goes key by key, as the promise does. For a key the step does not act on,
`Onlooks` says what may happen: the count of requests stands, nobody takes the key in hand, a new
row is a held one; that is a stutter, a `Hold` or a `Settle`. For the key it does act on, each
action (`Acts`) is matched with `Send`, `Refuse`, `Deliver`, `Release` or a stutter, from `OneAtATime` (who
ends a session was the only one with the key in hand) and `SentCounts` (the request it sent is the
one that counts). A key that is waived owes `Waived` only. A process's death, which touches every key
it had in hand, only looks on at each.

**RunLock.** `Exclusion`, `ProbesTellTheTruth` and `FilesLeftOver` rest on `Exclusive` (an
exclusive lock is alone on its inode) and `PathKept` (whoever executes has the inode of the path
open, whoever has unlinked it has another). Exclusion follows: two executing processes would
both hold exclusive locks on the inode of the path. `ProbeSees` and `AbandonedIsLeftover`
strengthen the other two.

**RunLife.** `IInv` is, beside the types, a formula for each record of each run (`RecordInv`) and
three about the runs together. For a record: it is not there before its run is (`NotYet`); what a
process has still to do stands at its step (`Due`); a handoff has no tokens; what a living process
has behind it is dealt with (`DealtWith`), and what a run that is done forgot about nobody needed
(`Remembered`); a spent token (`Spent`, `JudgedBefore`); what was read is the newest answer or a
late one came (`ReadNewest`, `Newest`); who completed is in the terminus or on the way there
(`TookToTheEnd`, `AtTerminus`). For the runs: they are created in order (`Ordered`), an earlier
one that still works has been overtaken (`Overlaps`), and otherwise what it finished is no member
of a later one (`Disjoint`). `EffectStep` reduces the seventeen actions to the eleven things that
can happen to one record of one run, and each part of `RecordInv` is carried over those eleven.
The proof corrected the model twice, where more records than TLC has would have mattered: `WHOLE`
(all of a step's writes landed) is no number of rows that a kill can leave, and a source that is
killed is not one whose rows all landed.

**Dispatch.** `Offered` says where the dispatcher is by what it has offered, `Joined` that no worker
is left once the pool was joined, `Taken` that a chunk enters a session after the look at the stop
channel, `Flags` and `Lates` what the flags say of chunks, `Reported` that what was returned is
what was counted. The step line adds up since the chunks are those that wait and the others
(`WaitingCount`).

**Identity.** `SentHasRow` (an identity that was sent and whose key stands has its row under it)
makes `OnceWhileKeyed` inductive. The upsert has a strongest key to choose because there are
finitely many tiers (`StrongestIs`, by well-foundedness). An action either stores a new identity,
moves a key to an alias, or touches no key; `KnownKeysStand` is shown for each.

**Groups and Suppression.** `Groups` needs that a group that is not there is empty and nobody is
past its insert, what each writer is there for (`Purpose`), that who was admitted is of the group's
type still (`AdmittedFits`), and that what a writer read of a member it edits alone is still so
(`ViewStands`). `Suppression` needs that a contact is with one sender at a time (`OneSender`), that
a send left no later than its touch says (`Recorded`), and that what was found outside the window
stays outside until it is sent (`StillOutside`), each with the senders the ledger could not see
(`unseen`) left out.

`Suppression`, `Traverse`, `Install`, `CsvFile`, `Judgment`, `Types`, `Bundle` and `Plan` share the
module `MachineProofs`, `Receipt`, `Instantly`, `SqlStep`, `Intake`, `AiSteps`, `Fetch` and `Wire` the
module `StepProofs`. Each has them as instances of its own; the lemmas of a machine carry its name
(`TraverseInit`, `TraverseNext`).

**Traverse.** `SegmentHolds` falls into `OnlyChildren` (who is past the traverse is a child, or
stopped), `AllChildren` (the children of a finished parent have arrived, unless dropped) and
`Traversed`. Behind them: only an open session emits, and what it has not emitted yet is still to
come (`OnlyOpenEmit`, `Arrived`); the segment is what the sessions related (`OfTheSegment`); and
who is still before the traverse has its turn to come or has failed, so that once the run came past
it only a parent that failed is dispatched again (`TurnToCome`). `OnlyRetriesUndo` is part of the
invariant and follows from that.

**Install.** Each of the four directories is absent, whole, or the one the command is at work in.
`Command` says what the command has fetched and verified where it is, `HalfCopied` that a directory
under copy has the files that are no longer to be done, `Replaces` and `PlaceIsFree` where the old
directory is while the new one moves, `StaysWhole` that a command which has not come so far has not
touched the adapter. A kill may come between any two of these steps.

**CsvFile.** `Owners` has who holds `fileMu` and the file's lock by where a session is; `Created`
and `UnderHeader` that the creator's process has tried to write the header before any row of it:
it is in, was written over, or its write failed (`HeaderTried`); `Landed`
that what is to be acknowledged is in the file or was written over; `InOrder` that a session writes
its rows in order and each once; `Beyond` that no row of the own process comes between a look at
the size and the write, so that only another process can be written over; and `Steady` that on a
local file system nothing comes between for the process that created the file, which is why a row
of it is denied only if it is not there. The argument needs `fileMu` as well as the file lock: the
lock alone leaves the header and the rows of one process unordered.

**Judgment.** For `PaidOnce`, a call that wrote a field has left a row of its time
(`CallsLeaveRows`); an enrich session is open only when every such row is out of the window
(`Apart`), and it is the only one. For `ReuseIsSound`: silence is recorded without
a key (`SilentUnkeyed`); nothing was asked but what is asked now or was before (`KeysWere`), so that
a question asked for the first time finds nothing; a session opened on an earlier question ends
before one on this is opened (`SessionFirst`); so the newest draft is about these facts once one is
(`LastDraft`). Of the rows of a compose the newest is the current one, since all have one
confidence (`LastIsCurrent`).

**Receipt.** The mirror is where the record is (`MirrorOf`), record by record; for that, what a
session said of a record is what its events say (`ItemOf`). While the first process runs, the
counters are the cardinalities of what the events say (`Columnwise`), the line adds up with those
still waiting or in the session (`Sums`), and who has no answer has no event (`Fresh`). Whoever is
settled twice is left out by name. The proof corrected the model: a process that halts forgets its
session, and what it had heard of a record must not be there when the next one starts (`Drop`).

**Instantly.** Each lead in the campaign was made of texts the record has, under a reading of the
campaign that did not block (`LeadsAdded`), because a session that sends read such a one
(`SeenPasses`); the lead that answered is known to be of the record at hand (`InHand`). Of the
leads of a record with a text in them there is one, or one more for each answer lost (`Once`).

**SqlStep.** The writes left of a record are the tail of one of twelve lists (`Lefts`), and the
first of them says which of the others have been made (`Stands`): a verdict of fail before the
event, a pass before the done event, the value before the event, the event before the state. A
kill cuts the record (`cut`) and so what it stands for. A row of a traverse leaves a child with no
event only while it is in hand (`ToldWritten`, `RowsWait`).

**Intake.** Where a row is written, the strongest of its keys leads to the identity in hand
(`KeyLeads`), and that of a row already dealt with to a member (`RowsDealt`). An upgrade of a key
moves none of this, since a key once owned stays with its owner. A company is related, or one of
the four reasons is named, or it is the row in hand (`RowsRelated`). The count is that of the
members less those of before (`RowsCounted`), and of a group the members are the places of the
selection behind `pos` (`OneChoice`), each once.

**AiSteps.** Halving keeps each record at one place of one batch (`Apart`): it is yet to be asked,
answered as the model said, or cut off (`AnswerOwed`). An answer whose items name as many records
as the batch has, each another one and all of the batch, has one for every record (`Surjects`). What was billed and what was spent differ by what a submitted batch still owes
(`Billed`).

**Types.** What the registry has of a name is told by the set of documents found under it, not by
their order (`TypeTold`): none, one sound one, or a problem, that is, two different ones or an
unsound one; and of a name of the binary nothing but that. `Agreement` follows of any order. That
the planner and the run read one list of tiers is a fact about a sound document alone
(`ToldKeysAgree`): from the fields a contract has a record is made that has every one of them good.

**Bundle.** The files are what the freeze put together (`PutTogether`) of the versions it froze.
What is in the folder and was not frozen has replaced what was, of its name; and what was planned
has every file its manifest lists (`Carried`, kept by `SpoilKeeps`). So what the manifest still
vouches for is there as it was frozen, and the manifest of the freeze is planned whole
(`WholeLoads`). A template found
by its name is the step's, unless a later step wrote it over (`Overwritten`): for that every file
packed has the name of a step up to here, or was replaced, an induction over the pipeline.

**Plan.** What the walk knows where it stands is what the steps behind it say: the type is that of the
step that opened the leg, each available field has a writer in the leg or the traverse into it, and
`Wildcard` has its open step (`WalkStands`). `StepsJudged` says the same of each step as it was
judged, and stays when steps are appended, since a step is judged by those before it only
(`OlderStands`). The run's type is that of the step that opened the leg it is in (`RunTyped`), and a
leg always has such a step (`SomeOpens`, by the least one backwards). The proof asked for what the
parser guarantees and the model had not said: a manifest that is there has a type.

**Fetch.** A page that is asked for begins at the number served times the size, or where the list ends,
and what was brought in before it lists exactly what is filled up to there (`PageAt`, with `Lists` for
a list of all of a set in order). Of two such lists that of the smaller set begins the other
(`ListsBegin`), and a page adds what lies between, cut at the limit (`CutAdds`): so what was brought in
always begins what is wanted, and is all of it when `terminated` or the limit ends the walk, whichever
strategy told it (`PagesSoFar`). A record is spoken of once in a session it is given to, and is not
given again when it was acknowledged (`OneWord`, which counts its copies against the attempts that
left open what the target did).

**Wire.** What the adapter wrote was heard or is in the pipe, until a bad line (`LinesHeard`); the
runner listens no more after a bad line or at the end of the stream of an adapter that is gone, and
takes the session for good only after a good exit (`StoppedWell`). That is the safety half of
`SessionEnds`; that a session ends is liveness.

Such inductions over data (`Packed`, `Picked`) are done by the least counterexample (`Least`, from
`NatLessThanWellFounded` and `WFMin`), which needs no operator as a parameter.

**PartsProofs.** `MCParts` instantiates the proof modules, and its `ASSUME` has each part's
assumption of its instance; a step of `MCParts` is a step of the part or a stutter of it, so the
part's lemmas apply. Every part's invariant has its types in it, so `TypesAreKept` needs no induction
of its own, except for `Bundle`, whose invariant leaves some types out (`BundleTypesNext`).

What stays model-checked only: liveness under fairness (`Returns`, `ProcessEnds`,
`AnswersAreCollected`, the ending of `SessionEnds`) and `ENABLED`, which are out of the prover's
reach. Every invariant and every action property of the passing runs is a theorem. The violations of section 4 are counterexamples and need none.

## 6. Not modelled, and plan

- In `Delivery`: `redeliver:` and resends of natively idempotent targets, a PENDING from a
  deliver adapter. `--settle-unconfirmed` settles all its rows in one step. The gap between
  `CreateRun` and `LockRun` is in `RunLock`, not in `Delivery`.
- A ledger call is atomic; SQLite's own retries, the migrations, payload retention and eviction
  are assumed. They have no order of the program's own.
- Computation without state or order is left out: the normalisation of keys, the parsing of
  pipelines, the rendering of templates and their field transforms, `csv/source` and
  `demo/enrich`, the printing of receipts and plans, the read-only queries, the secrets file, the
  documentation generator. What such code decides (a record's keys, whether a template renders,
  which header a column has) is an input of the model that uses it.
- `Receipt`: the columns of dry and simulated steps and runs recorded before ADR-064.
- `Wire`: the tail of stderr and the classes of an exit. `AiSteps`: the prompt's text.
- `Instantly`: one session at a time; edits of a stored lead by people; the dry run, which never
  reaches the adapter (`Delivery` has it).
- `Bundle`: the run of what was planned; `SqlStep`: how deep a text's fence looks.
- Composition: the parts meet in the ledger, whose calls are atomic; `RunLife` composes gates,
  handoffs, sessions and answers, `Delivery` the send with the run's life. The other parts are
  checked by themselves, against anything their neighbours may give them.
