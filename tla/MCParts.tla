-------------------------------- MODULE MCParts -------------------------------
(* The components that share no state in the code, side by side: Init picks *)
(* one, part, and only its machine moves.  One run of TLC then checks each  *)
(* of them on its small instance.                                           *)
EXTENDS Integers, Sequences, FiniteSets, PlanTexts, FetchTexts, TypesTexts

VARIABLES
  part,
  \* Identity
  live, alias, delivered, requests, rekeyed, strays,
  \* Dispatch
  dpc, next, cancelled, wpc, chunk, fate, interrupted, stop, stopped, fatal, notSent,
  result, overdue,
  \* RunLife
  kind, status, rehearsal, sourced, state, verdict, outcome, pending, answer, sent, book, home,
  pc, dry, at, todo, open, read, inflight, broken, kills, byHand, torn, late, overtaken,
  finishedBy,
  \* Groups
  gtype, trail, writer, mixed, raced,
  \* Suppression
  sender, clock, touched, shots, unseen,
  \* Judgment
  role, question, facts, now, rows, done, token, work, passed, left, calls,
  \* Traverse
  place, segment, related, finished, failed, stops, phase, queue, emitting, open_at, starts,
  dropped, absorbed, undone,
  \* Plan
  steps, avail, wild, ptype, leg, stage, walked, rtype, has, judged, gtypes, lacking, turned,
  \* Fetch
  bind, fphase, given, record, tries, page, emitted, served, charged, said, class, opened,
  copies, unsure,
  \* AiSteps
  step, aphase, waiting, stack, attempt, answers, cutoff, messages, batch, spent, billed,
  sessions, meant, astray,
  \* Receipt
  rrole, rphase, process, arrived, rplace, rtodo, rwork, ropen, item, rsaid, stopping,
  tally, mirror, answered, twice,
  \* Wire
  wkind, wsender, put, input, shut, adapter, drained, line, lines, code, output, reader,
  heard, garbled, wresult,
  \* Types
  found, byEntity, problems, shipped, bound,
  \* Install
  ikind, ihead, irow, disk, verb, ipc, ifetched, itodo, ikills, iverified, itorn, imixed,
  \* Intake
  nkind, owner, minted, company, edges, members, ndone, npc, table, pos, ident, count,
  merged, oldest, ended, changes, breaks, before, ncut, coalesced, bare,
  \* SqlStep
  srole, advanced, sverdict, event, written, sjoined, pairs, asked, stodo, sitem, sleft,
  skills, scut, told,
  \* Bundle
  pipeline, here, there, files, btodo, folder, bpc, resolved, texts, updates, frozen,
  \* CsvFile
  fs, exists, clines, mutex, flocks, cat, size, csent, acked, denied, faults, creator, lost,
  headless, blind,
  \* Instantly
  mapping, checks, skip, campaign, room, leads, lphase, seen, lat, lacked, attested,
  lsessions, llost, edits

identityVars == <<live, alias, delivered, requests, rekeyed, strays>>
dispatchVars == <<dpc, next, cancelled, wpc, chunk, fate, interrupted, stop, stopped, fatal,
                  notSent, result, overdue>>
lifeVars     == <<kind, status, rehearsal, sourced, state, verdict, outcome, pending, answer, sent,
                  book, home, pc, dry, at, todo, open, read, inflight, broken, kills, byHand,
                  torn, late, overtaken, finishedBy>>
groupsVars   == <<gtype, trail, writer, mixed, raced>>
suppressVars == <<sender, clock, touched, shots, unseen>>
judgmentVars == <<role, question, facts, now, rows, done, token, work, passed, left,
                  calls>>
traverseVars == <<place, segment, related, finished, failed, stops, phase, queue, emitting,
                  open_at, starts, dropped, absorbed, undone>>
planVars     == <<steps, avail, wild, ptype, leg, stage, walked, rtype, has, judged, gtypes,
                  lacking, turned>>
fetchVars    == <<bind, fphase, given, record, tries, page, emitted, served, charged, said, class,
                  opened, copies, unsure>>
aiVars       == <<step, aphase, waiting, stack, attempt, answers, cutoff, messages, batch, spent,
                  billed, sessions, meant, astray>>
receiptVars  == <<rrole, rphase, process, arrived, rplace, rtodo, rwork, ropen, item, rsaid,
                  stopping, tally, mirror, answered, twice>>
wireVars     == <<wkind, wsender, put, input, shut, adapter, drained, line, lines, code,
                  output, reader, heard, garbled, wresult>>
typesVars    == <<found, byEntity, problems, shipped, bound>>
installVars  == <<ikind, ihead, irow, disk, verb, ipc, ifetched, itodo, ikills, iverified,
                  itorn, imixed>>
intakeVars   == <<nkind, owner, minted, company, edges, members, ndone, npc, table, pos,
                  ident, count, merged, oldest, ended, changes, breaks, before, ncut,
                  coalesced, bare>>
sqlVars      == <<srole, advanced, sverdict, event, written, sjoined, pairs, asked, stodo,
                  sitem, sleft, skills, scut, told>>
bundleVars   == <<pipeline, here, there, files, btodo, folder, bpc, resolved, texts,
                  updates, frozen>>
csvVars      == <<fs, exists, clines, mutex, flocks, cat, size, csent, acked, denied,
                  faults, creator, lost, headless, blind>>
instantlyVars == <<mapping, checks, skip, campaign, room, leads, lphase, seen, lat, lacked,
                   attested, lsessions, llost, edits>>

-----------------------------------------------------------------------------
(* The instances.                                                           *)

Ledger == INSTANCE LedgerProofs WITH
  Ids <- {"i1", "i2", "i3"}, Keys <- {"email1", "email2", "slug", "hash"}, NONE <- "none",
  Tiers <- 3, Strength <- [email1 |-> 3, email2 |-> 3, slug |-> 2, hash |-> 1],
  Writers <- {"w1", "w2"}, Members <- {"a", "c"}, TypeOf <- [a |-> "person", c |-> "company"],
  Legacy <- {"a"}, MaxTrail <- 3

Dispatch == INSTANCE DispatchProofs WITH
  Workers <- {"w1", "w2"}, Chunks <- 4, work <- chunk, late <- overdue

(* One run, so that it is collected again and again: an adapter, a person.  *)
Life == INSTANCE RunLifeProofs WITH
  NRuns <- 1, NRecords <- 1, Kinds <- {<<"session", "participant">>}, Exclude <- {}, Limit <- 0,
  DryModes <- <<{FALSE}>>, Answers <- {"pass", "fail", "bad"}, MaxKills <- 1, MaxByHand <- 1

(* Two ids of one directory; two templates of one base beside one whose own  *)
(* name is the name that tells them apart.                                   *)
Frozen(id, use, base, text) == [id |-> id, use |-> use, base |-> base, text |-> text]
Bare(use) == Frozen("s", use, "no file", "no text")
FlatOf(use) == IF use = "other" THEN "bind" ELSE use
NameOf(id, base) == IF id = "s" /\ base = "p" THEN "sp" ELSE IF id = "" THEN base ELSE id \o base
(* Three versions: the second adds a file, the third changes the types.      *)
Release(doc, types, extra) ==
  [f \in {"doc", "types", "extra"} |->
    CASE f = "doc" -> doc [] f = "types" -> types [] f = "extra" -> extra]
(* In the traverse b is sourced and a child of a, c a child of both. Two     *)
(* sessions of one process and one of another write one row each to a file.  *)
(* An embedded person, a job told by two contents and by unsound ones.       *)
Proved == INSTANCE MachineProofs WITH
  Types <- {"person", "company"}, Signals <- {}, Fields <- {"f", "g", "h"},
  Uses <- DOMAIN Adapters, Manifest <- Adapters, Texts <- EveryText, Terminus <- "",
  Groups <- DOMAIN GroupsBefore, GroupTypes <- GroupsBefore, MaxSteps <- 4, psteps <- steps,
  Senders <- {"q1", "q2"}, Contacts <- {"a"}, Window <- 1, MaxClock <- 4,
  Nodes <- {"a", "b", "c"}, Parents <- {"a", "b"}, MaxStarts <- 2,
  Offers <- [a |-> {"b", "c"}, b |-> {"c"}, c |-> {}],
  Kinds <- {"binding", "process"}, Files <- {"doc", "types", "extra"}, Sound <- 1..3,
  Content <- <<Release(1, 1, 0), Release(2, 1, 2), Release(3, 3, 0)>>, MaxKills <- 1,
  Sessions <- {"s1", "s2", "t1"}, ProcessOf <- [s1 |-> "p", s2 |-> "p", t1 |-> "q"],
  FileSystems <- {"local", "network"}, RowsEach <- 1, MaxFaults <- 1,
  Roles <- {"filter", "compose", "enrich"}, Questions <- {"q1", "q2"}, Facts <- {"f1", "f2"},
  Provides <- {"p1", "p2"}, Cache <- 1, JudgmentClock <- 2, MaxChanges <- 2, MaxEvents <- 2,
  MaxRows <- 3,
  Names <- {"person", "job"}, Embedded <- SmallEmbedded, Documents <- SmallDocuments,
  MaxFiles <- 2,
  Pipelines <- {
    <<Bare("csv"), Bare("bind"), Bare("mail")>>, <<Bare("bind"), Bare("tool"), Bare("sql")>>,
    <<Bare("bind"), Bare("other"), Bare("mail")>>,
    <<Frozen("r", "csv", "sp", "t1"), Frozen("q", "mail", "p", "t2"),
      Frozen("s", "sql", "p", "t3")>>,
    <<Frozen("r", "csv", "p", "t1"), Frozen("q", "mail", "p", "t2"),
      Frozen("s", "sql", "p", "t1")>>},
  KindOf <- [bind |-> "binding", other |-> "binding", mail |-> "shipped", tool |-> "process",
             csv |-> "builtin", sql |-> "runner"],
  Flat <- FlatOf, Named <- NameOf, ShipsType <- {"bind"}, Versions <- 1..2, MaxUpdates <- 1

AStep(mode, fields, deferred, surface) ==
  [mode |-> mode, fields |-> fields, deferred |-> deferred, surface |-> surface]

(* Rows that name one person by two keys, a row dropped, one keyed beside.   *)
Sourcing(keys, beside, org) ==
  [valid |-> TRUE, keys |-> keys, given |-> beside, company |-> org]
ByEmail == Sourcing({"email"}, "no key", "c1")
BySlug  == Sourcing({"slug"}, "no key", "c2")
ByBoth  == Sourcing({"email", "slug"}, "no key", "no company")

(* A filter is followed through one process, a deliver through a resume.  A  *)
(* campaign whose second step has the copy in both texts, in another step    *)
(* only, and in one of two texts; a score that is a number for one record.   *)
Live(emails) == [status |-> "active", steps |-> emails]
(* Two records that one query may answer with two rows, a stranger's too.    *)
(* A pipe that holds one line, an adapter that writes three.                 *)
Step == INSTANCE StepProofs WITH
  Bindings <- SomeBindings, Replies <- EveryReply, Listings <- TwoLists, PageDefault <- 2,
  FetchSessions <- 2, fsaid <- said,
  WireKinds <- {"builtin", "process"}, Messages <- 3, Room <- 1, MaxLines <- 3,
  NRecords <- 2, Roles <- {"filter", "enrich", "deliver"},
  MaxSessions <- [filter |-> 1, enrich |-> 1, deliver |-> 2],
  MaxSaid <- [filter |-> 2, enrich |-> 1, deliver |-> 1],
  Records <- {"a", "b"},
  Values <- [a |-> [fn |-> "text", copy |-> "text", score |-> "number"],
             b |-> [fn |-> "text", copy |-> "blank", score |-> "text"]],
  Mappings <- {[first_name |-> "fn", body_step_2 |-> "copy"],
               [body_step_2 |-> "copy", line |-> "score"],
               [first_name |-> "fn", firstName |-> "score"]},
  LeadField <- [first_name |-> "first_name", firstName |-> "first_name",
                body_step_2 |-> "custom", line |-> "custom"],
  StepIndex <- [first_name |-> 0, firstName |-> 0, body_step_2 |-> 2, line |-> 0],
  CheckedTags <- {"first_name"},
  Campaigns <- {
    Live(<< <<{"first_name", "line"}>>, <<{"body_step_2"}, {"body_step_2", "line"}>> >>),
    Live(<< <<{"body_step_2", "line"}>>, <<{}>> >>),
    Live(<< <<{"first_name"}>>, <<{"body_step_2"}, {}>> >>),
    [status |-> "paused", steps |-> << <<{"line"}>> >>]},
  Rooms <- {2}, LeadSessions <- 2, MaxLost <- 1, MaxEdits <- 1,
  SqlRoles <- {"filter", "predicate", "transform", "traverse", "text"}, SqlRecords <- {1, 2},
  Strangers <- {3}, Children <- {"c", "d"}, MaxRows <- 2, MaxKills <- 1,
  Kinds <- {"adapter", "group", "once"}, Keys <- <<"email", "slug">>, Companies <- {"c1", "c2"},
  Tables <- {<<ByEmail, BySlug, [ByEmail EXCEPT !.company = "c2"]>>, <<BySlug, ByBoth, ByEmail>>,
             <<ByBoth, [ByEmail EXCEPT !.valid = FALSE], BySlug>>,
             <<Sourcing({}, "email", "c2"), ByEmail>>},
  Limit <- 2, Books <- {<<2, 1, 3>>, <<1, 3>>}, MaxIds <- 3, MaxBreaks <- 1, MaxChanges <- 1,
  AiRecords <- 3, AiSessions <- 2, MaxOrphans <- 1,
  AiStepsOf <- {AStep("filter", TRUE, FALSE, TRUE), AStep("compose", TRUE, TRUE, FALSE),
                AStep("filter", FALSE, TRUE, TRUE)}

ASSUME PartsAssumptions ==
  /\ Ledger!Identity!IdentityAssumption /\ Dispatch!DispatchAssumption /\ Life!RunLifeAssumption
  /\ Ledger!Groups!GroupsAssumption /\ Proved!Suppression!SuppressionAssumption
  /\ Proved!Judgment!JudgmentAssumption /\ Proved!Traverse!TraverseAssumption
  /\ Proved!Plan!PlanAssumption
  /\ Step!Fetch!FetchAssumption /\ Step!AiSteps!AiStepsAssumption
  /\ Step!Receipt!ReceiptAssumption
  /\ Step!Wire!WireAssumption
  /\ Proved!TypeFiles!TypesAssumption
  /\ Proved!Install!InstallAssumption
  /\ Step!Intake!IntakeAssumption
  /\ Step!SqlStep!SqlStepAssumption
  /\ Proved!Bundle!BundleAssumption
  /\ Proved!CsvFile!CsvFileAssumption
  /\ Step!Instantly!InstantlyAssumption

-----------------------------------------------------------------------------
(* A machine that does not move stays in one initial state.                *)
Init ==
  /\ part \in {"identity", "dispatch", "life", "groups", "suppression", "judgment",
               "traverse", "plan", "fetch", "ai", "receipt", "wire", "types", "install",
               "intake", "sql", "bundle", "csv", "instantly"}
  /\ Ledger!Identity!Init /\ Ledger!Groups!Init /\ Dispatch!Init /\ Life!Init
  /\ Proved!Suppression!Init
  /\ Proved!Judgment!Init /\ Proved!Traverse!Init /\ Proved!Plan!Init
  /\ Step!Fetch!Init   /\ (part # "fetch" => bind.role = "http/enrich")
  /\ Step!AiSteps!Init /\ (part # "ai" => step.mode = "compose")
  /\ Step!Receipt!Init /\ (part # "receipt" => rrole = "enrich" /\ arrived = {1})
  /\ Step!Wire!Init /\ (part # "wire" => wkind = "builtin")
  /\ Proved!TypeFiles!Init
  /\ Proved!Install!Init /\ (part # "install" => ikind = "binding" /\ irow = 0)
  /\ Step!Intake!Init /\ (part # "intake" => nkind = "adapter" /\ Len(oldest) = 2)
  /\ Step!SqlStep!Init /\ (part # "sql" => srole = "filter")
  /\ Proved!Bundle!Init /\ (part # "bundle" => pipeline[2].use = "tool")
  /\ Proved!CsvFile!Init /\ (part # "csv" => fs = "local")
  /\ Step!Instantly!Init
  /\ part # "instantly" =>
       /\ skip /\ checks /\ leads = <<>> /\ campaign.status = "paused"
       /\ DOMAIN mapping = {"first_name", "body_step_2"}

Next ==
  /\ UNCHANGED part
  /\ IF part = "identity"    THEN Ledger!Identity!Next    ELSE UNCHANGED identityVars
  /\ IF part = "dispatch"    THEN Dispatch!Next    ELSE UNCHANGED dispatchVars
  /\ IF part = "life"        THEN Life!Next        ELSE UNCHANGED lifeVars
  /\ IF part = "groups"      THEN Ledger!Groups!Next        ELSE UNCHANGED groupsVars
  /\ IF part = "suppression" THEN Proved!Suppression!Next ELSE UNCHANGED suppressVars
  /\ IF part = "judgment"    THEN Proved!Judgment!Next    ELSE UNCHANGED judgmentVars
  /\ IF part = "traverse"    THEN Proved!Traverse!Next    ELSE UNCHANGED traverseVars
  /\ IF part = "plan"        THEN Proved!Plan!Next        ELSE UNCHANGED planVars
  /\ IF part = "fetch"       THEN Step!Fetch!Next       ELSE UNCHANGED fetchVars
  /\ IF part = "ai"          THEN Step!AiSteps!Next     ELSE UNCHANGED aiVars
  /\ IF part = "receipt"     THEN Step!Receipt!Next     ELSE UNCHANGED receiptVars
  /\ IF part = "wire"        THEN Step!Wire!Next        ELSE UNCHANGED wireVars
  /\ IF part = "types"       THEN Proved!TypeFiles!Next   ELSE UNCHANGED typesVars
  /\ IF part = "install"     THEN Proved!Install!Next     ELSE UNCHANGED installVars
  /\ IF part = "intake"      THEN Step!Intake!Next      ELSE UNCHANGED intakeVars
  /\ IF part = "sql"         THEN Step!SqlStep!Next     ELSE UNCHANGED sqlVars
  /\ IF part = "bundle"      THEN Proved!Bundle!Next      ELSE UNCHANGED bundleVars
  /\ IF part = "csv"         THEN Proved!CsvFile!Next     ELSE UNCHANGED csvVars
  /\ IF part = "instantly"   THEN Step!Instantly!Next   ELSE UNCHANGED instantlyVars

(* The fairness of Dispatch, RunLife and Wire, each for its own part.        *)
Fairness ==
  /\ WF_dispatchVars(part = "dispatch" /\ Dispatch!Dispatcher)
  /\ \A w \in {"w1", "w2"} : WF_dispatchVars(part = "dispatch" /\ Dispatch!Worker(w))
  /\ WF_lifeVars(part = "life" /\ Life!StepWork(1))
  /\ WF_wireVars(part = "wire" /\ Step!Wire!Sender)
  /\ WF_wireVars(part = "wire" /\ Step!Wire!Adapter)
  /\ WF_wireVars(part = "wire" /\ Step!Wire!Runner)
  /\ WF_lifeVars(part = "life" /\ Life!LastPending(1) /\ Life!GtmeRun(1, FALSE))

vars == <<part, identityVars, dispatchVars, lifeVars, groupsVars, suppressVars,
          judgmentVars, traverseVars, planVars, fetchVars, aiVars, receiptVars, wireVars,
          typesVars, installVars, intakeVars, sqlVars, bundleVars, csvVars, instantlyVars>>
Spec == Init /\ [][Next]_vars /\ Fairness

-----------------------------------------------------------------------------
(* What is checked is stated, with its reasons, in the part's own module,   *)
(* and checked while that part's machine moves.                             *)
TypeOK ==
  /\ part = "identity"      => Ledger!Identity!TypeOK
  /\ part = "dispatch"      => Dispatch!TypeOK
  /\ part = "life"          => Life!TypeOK
  /\ part = "groups"        => Ledger!Groups!TypeOK
  /\ part = "suppression"   => Proved!Suppression!TypeOK
  /\ part = "judgment"      => Proved!Judgment!TypeOK
  /\ part = "traverse"      => Proved!Traverse!TypeOK
  /\ part = "plan"          => Proved!Plan!TypeOK
  /\ part = "fetch"         => Step!Fetch!TypeOK
  /\ part = "ai"            => Step!AiSteps!TypeOK
  /\ part = "receipt"       => Step!Receipt!TypeOK
  /\ part = "wire"          => Step!Wire!TypeOK
  /\ part = "types"         => Proved!TypeFiles!TypeOK
  /\ part = "install"       => Proved!Install!TypeOK
  /\ part = "intake"        => Step!Intake!TypeOK
  /\ part = "sql"           => Step!SqlStep!TypeOK
  /\ part = "bundle"        => Proved!Bundle!TypeOK
  /\ part = "csv"           => Proved!CsvFile!TypeOK
  /\ part = "instantly"     => Step!Instantly!TypeOK
OnceWhileKeyed      == part = "identity" => Ledger!Identity!OnceWhileKeyed
KnownKeysStand      == Ledger!Identity!KnownKeysStand
PoolAccounts        == part = "dispatch" => Dispatch!PoolAccounts
Returns             == part = "dispatch" => Dispatch!Returns
ProcessEnds         == part = "life" => Life!ProcessEnds
AnswersAreCollected == part = "life" => Life!AnswersAreCollected
BookHolds           == part = "groups" => Ledger!Groups!BookHolds
WindowHolds         == part = "suppression" => Proved!Suppression!WindowHolds
JudgmentIsReused    == part = "judgment" => Proved!Judgment!JudgmentIsReused
PaidOncePerWindow   == part = "judgment" => Proved!Judgment!PaidOncePerWindow
SegmentHolds        == part = "traverse" => Proved!Traverse!SegmentHolds
PlanHolds           == part = "plan" => Proved!Plan!PlanHolds
FetchHolds          == part = "fetch" => Step!Fetch!FetchHolds
AnswersArePaid      == part = "ai" => Step!AiSteps!AnswersArePaid
ReceiptHolds        == part = "receipt" => Step!Receipt!ReceiptHolds
SessionEnds         == part = "wire" => Step!Wire!SessionEnds
RegistryHolds       == part = "types" => Proved!TypeFiles!RegistryHolds
InstallHolds        == part = "install" => Proved!Install!InstallHolds
IntakeHolds         == part = "intake" => Step!Intake!IntakeHolds
SqlHolds            == part = "sql" => Step!SqlStep!SqlHolds
BundleHolds         == part = "bundle" => Proved!Bundle!BundleHolds
FileHolds           == part = "csv" => Proved!CsvFile!FileHolds
InstantlyHolds      == part = "instantly" => Step!Instantly!InstantlyHolds
=============================================================================
