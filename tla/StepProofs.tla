------------------------------- MODULE StepProofs ------------------------------
(***************************************************************************)
(* Proofs about what a step says of itself (Receipt), about the adapter    *)
(* that adds records to a campaign (Instantly), about the steps that ask   *)
(* the ledger (SqlStep) or a model (AiSteps), about the source (Intake)    *)
(* and a binding at work (Fetch), which share no state, for any values of  *)
(* their constants.  Variables have the names MCParts gives them.          *)
(***************************************************************************)
EXTENDS Picks, FiniteSetTheorems, SequenceTheorems, WellFoundedInduction, TLAPS

CONSTANTS
  \* Receipt
  NRecords, Roles, MaxSessions, MaxSaid,
  \* Instantly
  Records, Values, Mappings, LeadField, StepIndex, CheckedTags, Campaigns, Rooms,
  LeadSessions, MaxLost, MaxEdits,
  \* SqlStep
  SqlRoles, SqlRecords, Strangers, Children, MaxRows, MaxKills,
  \* Intake
  Kinds, Keys, Companies, Tables, Limit, Books, MaxIds, MaxBreaks, MaxChanges,
  \* AiSteps
  AiRecords, AiStepsOf, AiSessions, MaxOrphans,
  \* Fetch
  Bindings, Replies, Listings, PageDefault, FetchSessions,
  \* Wire
  WireKinds, Messages, Room, MaxLines

VARIABLES
  \* Receipt
  rrole, rphase, process, arrived, rplace, rtodo, rwork, ropen, item, rsaid, stopping,
  tally, mirror, answered, twice,
  \* Instantly
  mapping, checks, skip, campaign, room, leads, lphase, seen, lat, lacked, attested,
  lsessions, llost, edits,
  \* SqlStep
  srole, advanced, sverdict, event, written, sjoined, pairs, asked, stodo, sitem, sleft,
  skills, scut, told,
  \* Intake
  nkind, owner, minted, company, edges, members, ndone, npc, table, pos, ident, count,
  merged, oldest, ended, changes, breaks, before, ncut, coalesced, bare,
  \* AiSteps
  step, aphase, waiting, stack, attempt, answers, cutoff, messages, batch, spent, billed,
  sessions, meant, astray,
  \* Fetch
  bind, fphase, given, record, tries, page, emitted, served, charged, fsaid, class, opened,
  copies, unsure,
  \* Wire
  wkind, wsender, put, input, shut, adapter, drained, line, lines, code, output, reader, heard,
  garbled, wresult

Receipt == INSTANCE Receipt WITH
  role <- rrole, phase <- rphase, place <- rplace, todo <- rtodo, work <- rwork,
  open <- ropen, said <- rsaid, live <- tally
Instantly == INSTANCE Instantly WITH
  MaxSessions <- LeadSessions, phase <- lphase, at <- lat, acked <- lacked,
  sessions <- lsessions, lost <- llost
SqlStep == INSTANCE SqlStep WITH
  Roles <- SqlRoles, Records <- SqlRecords, role <- srole, verdict <- sverdict,
  joined <- sjoined, rows <- asked, todo <- stodo, item <- sitem, left <- sleft,
  kills <- skills, cut <- scut
Intake == INSTANCE Intake WITH
  kind <- nkind, done <- ndone, pc <- npc, book <- oldest, finished <- ended, cut <- ncut,
  absorbed <- coalesced
AiSteps == INSTANCE AiSteps WITH
  NRecords <- AiRecords, Steps <- AiStepsOf, MaxSessions <- AiSessions, phase <- aphase,
  dropped <- cutoff
Fetch == INSTANCE Fetch WITH
  Items <- Listings, MaxSessions <- FetchSessions, phase <- fphase, at <- record,
  billed <- charged, sessions <- opened, said <- fsaid
Wire == INSTANCE Wire WITH
  Kinds <- WireKinds, kind <- wkind, sender <- wsender, result <- wresult

-----------------------------------------------------------------------------
(* Receipt.                                                                *)

(* What Receipt counts is what the theorems about finite sets count.        *)
LEMMA RecordsCounted ==
  ASSUME NEW S
  PROVE  Receipt!Cardinality(S) = Cardinality(S)
BY Zenon DEF Receipt!Cardinality, Cardinality

Counted(outcomes) == Cardinality({r \in Receipt!Records : mirror.final[r] \in outcomes})
NotSent == IF mirror.stop > Cardinality(mirror.resumed)
           THEN mirror.stop - Cardinality(mirror.resumed) ELSE 0

LEMMA CountedIs == NotSent = Receipt!NotSent /\ \A o : Counted(o) = Receipt!Counted(o)
BY RecordsCounted DEF Counted, NotSent, Receipt!Counted, Receipt!NotSent

InSession == {"session", "closed", "crashed", "stopped"}
Flags     == {"output", "verdict", "errored", "advanced", "failed", "pending"}
Outcomes  == {"out", "empty", "failed", "skipped", "cached", "already_delivered", "filtered",
              "reused_fail"}
Tallied   == {"out", "empty", "failed", "skipped", "already_delivered"}

(* The ledger's events, and what a session heard.                          *)
EventsOK ==
  /\ mirror \in [seen : SUBSET Receipt!Records,
                 final : [Receipt!Records -> Outcomes \cup {"none"}],
                 stop : Nat, resumed : SUBSET Receipt!Records]
  /\ item \in [Receipt!Records -> SUBSET Flags]

(* A record is still to come, prepared, or with the session; in the first  *)
(* two cases nothing became of it.                                         *)
Loops ==
  /\ rtodo \cap rwork = {} /\ rtodo \cap ropen = {} /\ rwork \cap ropen = {}
  /\ rtodo \subseteq arrived /\ (rphase = "preparing" <=> rtodo # {})
  /\ ropen # {} <=> rphase \in InSession
  /\ rphase \in {"ready", "over", "halted"} => rwork = {} /\ item = [r \in Receipt!Records |-> {}]
  /\ \A r \in rtodo \cup rwork : rplace[r] = "before" /\ r \notin answered /\ item[r] = {}
  /\ rphase = "ready" <=> process = 0
  /\ process = 0 => mirror = Receipt!NoEvents /\ twice = {}
     /\ \A r \in Receipt!Records : rplace[r] = "before"

(* What the session said of a record and what was made of it.              *)
ItemOf(r) ==
  /\ r \in answered <=> Receipt!Settled(r) \/ Receipt!Is(r, "verdict") \/ Receipt!Is(r, "pending")
  /\ Receipt!Is(r, "errored") => Receipt!Settled(r)
  /\ Receipt!Is(r, "verdict") => rrole = "filter"
  /\ Receipt!Is(r, "output") /\ rrole # "filter" => Receipt!Settled(r)
  /\ rrole = "filter" /\ Receipt!Is(r, "advanced") /\ ~Receipt!Is(r, "errored")
     => Receipt!Is(r, "verdict")
  /\ r \notin twice => /\ rplace[r] = "past" <=> Receipt!Is(r, "advanced")
                       /\ rplace[r] = "rejected" => Receipt!Is(r, "verdict")
Items == \A r \in ropen : ItemOf(r)

(* MirrorIsWhereItIs, of one record.                                       *)
MirrorOf(r) == r \notin twice =>
  /\ rplace[r] = "before" <=> mirror.final[r] \in {"none", "failed"}
  /\ rplace[r] = "rejected" <=> mirror.final[r] \in {"filtered", "reused_fail"}

(* While the first process runs, and nobody is settled twice, the counters  *)
(* are what the events say, and whoever is not settled is counted by none.  *)
FirstRun == process = 1 /\ rphase # "halted" /\ twice = {}
Unsettled == ropen \ answered
Columnwise ==
  /\ \A c \in Tallied : tally[c] = Counted({c})
  /\ tally["filtered"] = Counted({"filtered", "reused_fail"})
  /\ tally["cached"] = Counted({"cached", "reused_fail"})
SaidOf  == tally["out"] + tally["empty"] + tally["failed"] + tally["skipped"] + tally["filtered"]
NotSaid == tally["gated"] + tally["cached"] + tally["already_delivered"] + tally["unconfirmed"]
           + tally["inflight"] + tally["notsent"]
Sums ==
  /\ tally["in"] = Cardinality(arrived \ rtodo)
  /\ tally["in"] + Counted({"reused_fail"}) =
       SaidOf + NotSaid + Cardinality(rwork) + Cardinality(Unsettled)
  /\ tally["in"] = Cardinality(mirror.seen) + Cardinality(rwork) + tally["unconfirmed"]
                  + tally["notsent"]
Fresh ==
  /\ rphase # "over" => mirror.stop = 0 /\ tally["notsent"] = 0
  /\ rphase = "over" => NotSent = tally["notsent"]
  /\ ropen \subseteq mirror.seen
  /\ \A r \in rtodo \cup rwork : r \notin mirror.seen /\ mirror.final[r] = "none"
  /\ \A r \in Unsettled : mirror.final[r] = "none"
Counts == FirstRun => Columnwise /\ Sums /\ Fresh

ReceiptInv == Receipt!TypeOK /\ EventsOK /\ Loops /\ Items /\ Receipt!MirrorIsWhereItIs /\ Counts

LEMMA LiveAre ==
  ASSUME tally \in [Receipt!Columns -> Nat]
  PROVE  /\ tally["in"] \in Nat /\ tally["out"] \in Nat /\ tally["empty"] \in Nat
         /\ tally["filtered"] \in Nat /\ tally["failed"] \in Nat /\ tally["gated"] \in Nat
         /\ tally["skipped"] \in Nat /\ tally["cached"] \in Nat
         /\ tally["already_delivered"] \in Nat /\ tally["unconfirmed"] \in Nat
         /\ tally["inflight"] \in Nat /\ tally["notsent"] \in Nat
BY DEF Receipt!Columns

LEMMA ReceiptKept == ASSUME Receipt!ReceiptAssumption, ReceiptInv PROVE Receipt!ReceiptHolds
<1>1. ASSUME rphase = "over", process = 1, twice = {} PROVE Receipt!ReadsBothWays
  <2>1. Columnwise /\ Sums /\ NotSent = tally["notsent"] /\ rwork = {} /\ ropen = {} /\ rtodo = {}
    BY <1>1 DEF ReceiptInv, Counts, FirstRun, Fresh, Loops, InSession
  <2>2. Cardinality({}) = 0 /\ arrived \ {} = arrived /\ Unsettled = {}
    BY <2>1, FS_EmptySet DEF Unsettled
  <2>3. tally["in"] = Cardinality(arrived)
    BY <2>1, <2>2 DEF Sums
  <2>4. /\ tally \in [Receipt!Columns -> Nat] /\ arrived \subseteq Receipt!Records
        /\ mirror.seen \subseteq Receipt!Records
    BY DEF ReceiptInv, Receipt!TypeOK, EventsOK
  <2>5. Cardinality(mirror.seen) \in Nat /\ Counted({"reused_fail"}) \in Nat
    <3>1. IsFiniteSet(Receipt!Records)
      BY FS_Interval DEF Receipt!Records, Receipt!ReceiptAssumption
    <3> QED
      BY <2>4, <3>1, FS_Subset, FS_CardinalityType DEF Counted
  <2>6. \A c \in DOMAIN Receipt!Mirror \ {"in"} : Receipt!Mirror[c] = tally[c]
    <3>1. DOMAIN Receipt!Mirror \ {"in"} = {"notsent", "out", "empty", "failed",
                                         "filtered", "skipped", "cached", "already_delivered"}
      BY DEF Receipt!Mirror
    <3>2. /\ Receipt!Mirror["notsent"] = NotSent /\ Receipt!Mirror["out"] = Counted({"out"})
          /\ Receipt!Mirror["empty"] = Counted({"empty"})
          /\ Receipt!Mirror["failed"] = Counted({"failed"})
          /\ Receipt!Mirror["filtered"] = Counted({"filtered", "reused_fail"})
          /\ Receipt!Mirror["skipped"] = Counted({"skipped"})
          /\ Receipt!Mirror["cached"] = Counted({"cached", "reused_fail"})
          /\ Receipt!Mirror["already_delivered"] = Counted({"already_delivered"})
      BY CountedIs DEF Receipt!Mirror
    <3> QED
      BY <2>1, <3>1, <3>2 DEF Columnwise, Tallied
  <2>7. Receipt!Mirror.in = Cardinality(mirror.seen) + NotSent
    BY CountedIs, RecordsCounted DEF Receipt!Mirror
  <2>8. /\ tally["in"] = Cardinality(mirror.seen) + tally["unconfirmed"] + tally["notsent"]
        /\ tally["in"] + Counted({"reused_fail"}) =
             tally["out"] + tally["empty"] + tally["filtered"] + tally["failed"]
             + tally["gated"] + tally["skipped"] + tally["cached"] + tally["already_delivered"]
             + tally["unconfirmed"] + tally["inflight"] + tally["notsent"]
    <3>1. tally["in"] + Counted({"reused_fail"}) = SaidOf + NotSaid
      BY <2>1, <2>2, <2>4, LiveAre DEF Sums, SaidOf, NotSaid
    <3>2. tally["in"] = Cardinality(mirror.seen) + tally["unconfirmed"] + tally["notsent"]
      BY <2>1, <2>2, <2>4, <2>5, LiveAre DEF Sums
    <3> QED
      BY <2>4, <3>1, <3>2, LiveAre DEF SaidOf, NotSaid
  <2>10. Receipt!Mirror.in = tally["in"] - tally["unconfirmed"]
    BY <2>1, <2>4, <2>5, <2>7, <2>8, LiveAre
  <2>11. tally["in"] = tally["out"] + tally["empty"] + tally["filtered"] + tally["failed"]
         + tally["gated"] + tally["skipped"] + tally["cached"] + tally["already_delivered"]
         + tally["unconfirmed"] + tally["inflight"] + tally["notsent"] - Counted({"reused_fail"})
    BY <2>4, <2>5, <2>8, LiveAre
  <2>12. tally["in"] = Receipt!Cardinality(arrived)
    BY <2>3, RecordsCounted
  <2> QED
    BY <2>6, <2>10, <2>11, <2>12, CountedIs DEF Receipt!ReadsBothWays
<1>2. Receipt!ReadsBothWays
  BY <1>1 DEF Receipt!ReadsBothWays
<1> QED
  BY <1>2 DEF ReceiptInv, Receipt!ReceiptHolds

(* Records are counted.                                                    *)
LEMMA RecordsFinite ==
  ASSUME Receipt!ReceiptAssumption
  PROVE  \A set \in SUBSET Receipt!Records : IsFiniteSet(set) /\ Cardinality(set) \in Nat
<1>1. IsFiniteSet(Receipt!Records)
  BY FS_Interval DEF Receipt!Records, Receipt!ReceiptAssumption
<1> QED
  BY <1>1, FS_Subset, FS_CardinalityType

LEMMA MoreCounted ==
  ASSUME Receipt!ReceiptAssumption, NEW set \in SUBSET Receipt!Records, NEW r \in Receipt!Records
  PROVE  /\ r \notin set => Cardinality(set \cup {r}) = Cardinality(set) + 1
         /\ r \in set => Cardinality(set \ {r}) = Cardinality(set) - 1
<1>1. IsFiniteSet(set) /\ Cardinality(set) \in Nat
  BY RecordsFinite
<1>2. CASE r \notin set
  BY <1>1, <1>2, FS_AddElement
<1>3. CASE r \in set
  BY <1>1, <1>3, FS_RemoveElement
<1> QED
  BY <1>2, <1>3

LEMMA MovedCounted ==
  ASSUME Receipt!ReceiptAssumption, NEW from \in SUBSET Receipt!Records,
        NEW to \in SUBSET Receipt!Records,
         NEW some \in SUBSET from, some \cap to = {}
  PROVE  /\ Cardinality(to \cup some) = Cardinality(to) + Cardinality(some)
         /\ Cardinality(from \ some) = Cardinality(from) - Cardinality(some)
<1>1. /\ IsFiniteSet(from) /\ IsFiniteSet(to) /\ IsFiniteSet(some)
      /\ Cardinality(from) \in Nat /\ Cardinality(to) \in Nat /\ Cardinality(some) \in Nat
  BY RecordsFinite
<1>2. Cardinality(to \cup some) = Cardinality(to) + Cardinality(some)
  <2>1. Cardinality(to \cup some) = Cardinality(to) + Cardinality(some) - Cardinality(to \cap some)
    BY <1>1, FS_Union
  <2>2. Cardinality(to \cap some) = 0
    <3>1. to \cap some = {} /\ Cardinality({}) = 0
      BY FS_EmptySet
    <3> QED
      BY <3>1
  <2> QED
    BY <1>1, <2>1, <2>2
<1>3. Cardinality(from \ some) = Cardinality(from) - Cardinality(from \cap some)
  BY <1>1, FS_Difference
<1>4. from \cap some = some
  OBVIOUS
<1> QED
  BY <1>2, <1>3, <1>4

(* The first of some records is one of them.                               *)
LEMMA FirstIs ==
  ASSUME NEW set \in SUBSET Nat, set # {} PROVE Receipt!First(set) \in set
<1>1. \E r \in set : \A other \in set : r <= other
  <2>1. \E r \in set : \A other \in set : ~(<<other, r>> \in OpToRel(<, Nat))
    BY NatLessThanWellFounded, WFMin
  <2>2. PICK r \in set : \A other \in set : ~(<<other, r>> \in OpToRel(<, Nat))
    BY <2>1
  <2>3. \A other \in set : ~(other < r)
    BY <2>2 DEF OpToRel
  <2> QED
    BY <2>3
<1> QED
  BY <1>1 DEF Receipt!First

(* What an event changes of the receipt rebuilt from them.                 *)
LEMMA ReadIs ==
  ASSUME EventsOK, NEW rs \in SUBSET Receipt!Records, NEW outcome \in Outcomes \cup {"untold"},
         mirror' = Receipt!Read(rs, outcome)
  PROVE  /\ mirror' \in [seen : SUBSET Receipt!Records,
                         final : [Receipt!Records -> Outcomes \cup {"none"}],
                         stop : Nat, resumed : SUBSET Receipt!Records]
         /\ mirror'.seen = mirror.seen \cup rs /\ mirror'.stop = mirror.stop
         /\ \A q \in Receipt!Records :
              mirror'.final[q] = IF q \in rs /\ outcome # "untold" THEN outcome
                    ELSE mirror.final[q]
<1>1. PICK last : last = [q \in Receipt!Records |->
                            IF q \in rs /\ outcome # "untold" THEN outcome ELSE mirror.final[q]]
  OBVIOUS
<1>2. PICK back :
        back = IF mirror.stop = 0 THEN {} ELSE mirror.resumed \cup (rs \ mirror.seen)
  OBVIOUS
<1>3. mirror' = [seen |-> mirror.seen \cup rs, final |-> last, stop |-> mirror.stop,
                 resumed |-> back]
  BY <1>1, <1>2 DEF Receipt!Read, EventsOK
<1>4. last \in [Receipt!Records -> Outcomes \cup {"none"}] /\ back \in SUBSET Receipt!Records
  BY <1>1, <1>2 DEF EventsOK
<1>5. /\ mirror'.seen = mirror.seen \cup rs /\ mirror'.stop = mirror.stop
      /\ mirror'.final = last
  BY <1>3
<1>6. mirror.seen \cup rs \in SUBSET Receipt!Records /\ mirror.stop \in Nat
  BY DEF EventsOK
<1>7. mirror' \in [seen : SUBSET Receipt!Records,
                   final : [Receipt!Records -> Outcomes \cup {"none"}],
                   stop : Nat, resumed : SUBSET Receipt!Records]
  BY <1>3, <1>4, <1>6
<1> QED
  BY <1>1, <1>5, <1>7

LEMMA CountOne ==
  ASSUME Receipt!ReceiptAssumption, EventsOK, NEW r \in Receipt!Records,
        NEW outcome \in Outcomes \cup {"untold"},
         mirror.final[r] = "none", mirror' = Receipt!Read({r}, outcome)
  PROVE  \A X \in SUBSET Outcomes :
           Counted(X)' = Counted(X) + (IF outcome \in X THEN 1 ELSE 0)
<1> SUFFICES ASSUME NEW X \in SUBSET Outcomes
             PROVE  Counted(X)' = Counted(X) + (IF outcome \in X THEN 1 ELSE 0)
  OBVIOUS
<1> DEFINE set == {q \in Receipt!Records : mirror.final[q] \in X}
<1>1. \A q \in Receipt!Records :
        mirror'.final[q] = IF q \in {r} /\ outcome # "untold" THEN outcome ELSE mirror.final[q]
  <2>1. {r} \in SUBSET Receipt!Records
    OBVIOUS
  <2> QED
    BY ZenonT(60), <2>1, ReadIs
<1>2. "none" \notin X /\ "untold" \notin X
  BY DEF Outcomes
<1>3. {q \in Receipt!Records : mirror'.final[q] \in X} = IF outcome \in X THEN set \cup {r}
      ELSE set
  BY <1>1, <1>2
<1>4. r \notin set /\ set \in SUBSET Receipt!Records
  BY <1>2
<1> HIDE DEF set
<1>5. Cardinality(set) \in Nat
  BY <1>4, RecordsFinite
<1>6. Counted(X)' = Cardinality({q \in Receipt!Records : mirror'.final[q] \in X})
  BY DEF Counted
<1>7. Counted(X) = Cardinality(set)
  BY DEF Counted, set
<1>8. Cardinality(set \cup {r}) = Cardinality(set) + 1
  BY <1>4, MoreCounted
<1>9. CASE outcome \in X
  BY <1>3, <1>6, <1>7, <1>8, <1>9
<1>10. CASE outcome \notin X
  <2>1. Counted(X)' = Counted(X) /\ Counted(X) \in Nat
    BY <1>3, <1>5, <1>6, <1>7, <1>10
  <2> QED
    BY <1>10, <2>1
<1> QED
  BY <1>9, <1>10

LEMMA CountNone ==
  ASSUME EventsOK, NEW rs \in SUBSET Receipt!Records, mirror' = Receipt!Read(rs, "untold")
  PROVE  /\ \A X : Counted(X)' = Counted(X)
         /\ \A q \in Receipt!Records : mirror'.final[q] = mirror.final[q]
<1>1. \A q \in Receipt!Records : mirror'.final[q] = mirror.final[q]
  <2>1. mirror'.final = [q \in Receipt!Records |-> mirror.final[q]]
    BY DEF Receipt!Read, EventsOK
  <2> QED
    BY <2>1
<1> QED
  BY <1>1 DEF Counted

-----------------------------------------------------------------------------
(* A message about a record of the session, or its turn in the last loop.  *)
Turn(r) ==
  /\ r \in ropen /\ rphase \in InSession
  /\ UNCHANGED <<rrole, process, arrived, rtodo, rwork>>
  /\ \/ ropen' = ropen /\ rphase' = rphase /\ rphase = "session"
     \/ /\ ropen' = ropen \ {r} /\ rphase # "session"
        /\ rphase' = IF ropen' = {} THEN "dispatching" ELSE rphase
  /\ rsaid' \in [Receipt!Records -> 0..MaxSaid[rrole]] /\ stopping' \in BOOLEAN
Marks(r, flags) ==
  /\ item' \in [Receipt!Records -> SUBSET Flags] /\ item'[r] = item[r] \cup flags
  /\ \A q \in Receipt!Records \ {r} : item'[q] = item[q]
Counting == {"out", "empty", "failed", "skipped", "filtered"}

LEMMA OutcomeIs ==
  ASSUME EventsOK, NEW r \in Receipt!Records, NEW outcome \in Counting, Receipt!Count(r, outcome)
  PROVE  /\ mirror' \in [seen : SUBSET Receipt!Records,
                         final : [Receipt!Records -> Outcomes \cup {"none"}],
                         stop : Nat, resumed : SUBSET Receipt!Records]
         /\ mirror'.final[r] = outcome
         /\ \A q \in Receipt!Records \ {r} : mirror'.final[q] = mirror.final[q]
<1>1. PICK one \in SUBSET Receipt!Records : one = {r}
  OBVIOUS
<1>2. mirror' = Receipt!Read(one, outcome) /\ outcome \in Outcomes \cup {"untold"}
      /\ outcome # "untold"
  BY <1>1 DEF Receipt!Count, Counting, Outcomes
<1>3. /\ mirror' \in [seen : SUBSET Receipt!Records,
                      final : [Receipt!Records -> Outcomes \cup {"none"}],
                      stop : Nat, resumed : SUBSET Receipt!Records]
      /\ \A q \in Receipt!Records :
           mirror'.final[q] = IF q \in one /\ outcome # "untold" THEN outcome ELSE mirror.final[q]
  BY <1>2, ReadIs
<1> QED
  BY <1>1, <1>2, <1>3

(* An outcome counted is counted on both sides.                            *)
LEMMA TurnCounts ==
  ASSUME Receipt!ReceiptAssumption, ReceiptInv, NEW r \in Receipt!Records, Turn(r),
        NEW outcome \in Counting,
         Receipt!Count(r, outcome), r \in answered => Receipt!Barless(r)
  PROVE  Counts' /\ tally' \in [Receipt!Columns -> Nat]
<1>1. /\ tally \in [Receipt!Columns -> Nat] /\ EventsOK /\ ropen \subseteq Receipt!Records
      /\ rwork \subseteq Receipt!Records
      /\ Loops /\ Counts
  BY DEF ReceiptInv, Receipt!TypeOK
<1>2. /\ mirror' = Receipt!Read({r}, outcome) /\ answered' = answered \cup {r}
      /\ \A c \in Receipt!Columns : tally'[c] = tally[c] + (IF c = outcome THEN 1 ELSE 0)
      /\ r \in answered => r \in twice' /\ twice \subseteq twice'
      /\ twice \subseteq twice'
  BY DEF Receipt!Count, Receipt!Answer, Receipt!Bump
<1>3. tally' \in [Receipt!Columns -> Nat]
  BY <1>1, <1>2 DEF Receipt!Count, Receipt!Bump
<1>4. ASSUME FirstRun' PROVE Columnwise' /\ Sums' /\ Fresh'
  <2>1. /\ process = 1 /\ twice = {} /\ r \notin answered /\ rphase # "over" /\ rphase' # "over"
        /\ FirstRun /\ r \in Unsettled /\ r \in ropen /\ UNCHANGED <<rtodo, rwork, arrived>>
        /\ ropen' \subseteq ropen
    BY <1>2, <1>4 DEF FirstRun, Turn, InSession, Unsettled
  <2>2. Columnwise /\ Sums /\ Fresh
    BY <1>1, <2>1 DEF Counts
  <2>3. mirror.final[r] = "none" /\ r \in mirror.seen
    BY <2>1, <2>2 DEF Fresh
  <2>4. \A X \in SUBSET Outcomes : Counted(X)' = Counted(X) + (IF outcome \in X THEN 1 ELSE 0)
    <3>1. outcome \in Outcomes \cup {"untold"}
      BY DEF Counting, Outcomes
    <3> QED
      BY <1>1, <1>2, <2>3, <3>1, CountOne
  <2>5. /\ mirror'.seen = mirror.seen /\ mirror'.stop = mirror.stop
        /\ \A q \in Receipt!Records \ {r} : mirror'.final[q] = mirror.final[q]
    <3>1. outcome \in Outcomes \cup {"untold"} /\ {r} \in SUBSET Receipt!Records
      BY DEF Counting, Outcomes
    <3>2. mirror.seen \cup {r} = mirror.seen
      BY <2>3
    <3> QED
      BY <1>1, <1>2, <3>1, <3>2, ReadIs
  <2>6. Unsettled' = Unsettled \ {r}
    BY <1>2, <2>1 DEF Turn, Unsettled
  <2>7. Columnwise'
    <3>1. \A c \in Tallied : Counted({c})' = Counted({c}) + (IF outcome = c THEN 1 ELSE 0)
      BY <2>4 DEF Tallied, Outcomes
    <3>2. /\ Counted({"filtered", "reused_fail"})' =
               Counted({"filtered", "reused_fail"}) + (IF outcome = "filtered" THEN 1 ELSE 0)
          /\ Counted({"cached", "reused_fail"})' = Counted({"cached", "reused_fail"})
      <4>1. /\ {"filtered", "reused_fail"} \in SUBSET Outcomes
            /\ {"cached", "reused_fail"} \in SUBSET Outcomes
            /\ outcome \in {"filtered", "reused_fail"} <=> outcome = "filtered"
            /\ outcome \notin {"cached", "reused_fail"}
        BY DEF Outcomes, Counting
      <4>2. Counted({"cached", "reused_fail"}) \in Nat
        BY <1>1, <2>2, LiveAre DEF Columnwise
      <4> QED
        BY <2>4, <4>1, <4>2
    <3>3. Tallied \subseteq Receipt!Columns /\ {"filtered", "cached"} \subseteq Receipt!Columns
      BY DEF Tallied, Receipt!Columns
    <3>4. outcome # "cached"
      BY DEF Counting
    <3>5. \A c \in Tallied : tally'[c] = Counted({c})'
      BY <1>2, <2>2, <3>1, <3>3 DEF Columnwise
    <3>6. tally'["filtered"] = Counted({"filtered", "reused_fail"})'
      BY <1>2, <2>2, <3>2, <3>3 DEF Columnwise
    <3>7. tally'["cached"] = Counted({"cached", "reused_fail"})'
      BY <1>1, <1>2, <2>2, <3>2, <3>3, <3>4, LiveAre DEF Columnwise
    <3> QED
      BY <3>5, <3>6, <3>7 DEF Columnwise
  <2>8. Sums'
    <3>1. Counted({"reused_fail"})' = Counted({"reused_fail"}) /\ Counted({"reused_fail"}) \in Nat
      <4>1. Counted({"reused_fail"}) \in Nat
        <5>1. {q \in Receipt!Records :
              mirror.final[q] \in {"reused_fail"}} \in SUBSET Receipt!Records
          OBVIOUS
        <5> QED
          BY <5>1, RecordsFinite DEF Counted
      <4>2. {"reused_fail"} \in SUBSET Outcomes /\ outcome \notin {"reused_fail"}
        BY DEF Outcomes, Counting
      <4> QED
        BY <2>4, <4>1, <4>2
    <3>2. Cardinality(Unsettled') = Cardinality(Unsettled) - 1 /\ Cardinality(Unsettled) \in Nat
      <4>1. Unsettled \in SUBSET Receipt!Records
        BY <1>1 DEF Unsettled
      <4> QED
        BY <2>1, <2>6, <4>1, MoreCounted, RecordsFinite
    <3>3. Cardinality(rwork) \in Nat /\ rwork' = rwork /\ arrived' = arrived /\ rtodo' = rtodo
      BY <1>1, <2>1, RecordsFinite
    <3>4. /\ tally'["in"] = tally["in"] /\ tally'["gated"] = tally["gated"]
          /\ tally'["cached"] = tally["cached"] /\ tally'["unconfirmed"] = tally["unconfirmed"]
          /\ tally'["already_delivered"] = tally["already_delivered"]
          /\ tally'["inflight"] = tally["inflight"] /\ tally'["notsent"] = tally["notsent"]
          /\ tally'["out"] + tally'["empty"] + tally'["failed"] + tally'["skipped"]
             + tally'["filtered"]
             = tally["out"] + tally["empty"] + tally["failed"] + tally["skipped"]
               + tally["filtered"] + 1
      <4>1. /\ tally'["in"] = tally["in"] /\ tally'["gated"] = tally["gated"]
            /\ tally'["cached"] = tally["cached"] /\ tally'["unconfirmed"] = tally["unconfirmed"]
            /\ tally'["already_delivered"] = tally["already_delivered"]
            /\ tally'["inflight"] = tally["inflight"] /\ tally'["notsent"] = tally["notsent"]
        BY <1>1, <1>2, LiveAre DEF Receipt!Columns, Counting
      <4>2. /\ tally'["out"] = tally["out"] + (IF outcome = "out" THEN 1 ELSE 0)
            /\ tally'["empty"] = tally["empty"] + (IF outcome = "empty" THEN 1 ELSE 0)
            /\ tally'["failed"] = tally["failed"] + (IF outcome = "failed" THEN 1 ELSE 0)
            /\ tally'["skipped"] = tally["skipped"] + (IF outcome = "skipped" THEN 1 ELSE 0)
            /\ tally'["filtered"] = tally["filtered"] + (IF outcome = "filtered" THEN 1 ELSE 0)
        BY <1>1, <1>2, LiveAre DEF Receipt!Columns, Counting
      <4> QED
        BY <1>1, <4>1, <4>2, LiveAre DEF Counting
    <3>5. SaidOf' = SaidOf + 1 /\ NotSaid' = NotSaid /\ SaidOf \in Nat /\ NotSaid \in Nat
      BY <1>1, <3>4, LiveAre DEF SaidOf, NotSaid
    <3>6. tally["in"] + Counted({"reused_fail"}) =
            SaidOf + NotSaid + Cardinality(rwork) + Cardinality(Unsettled)
      BY <2>2 DEF Sums
    <3>7. tally'["in"] + Counted({"reused_fail"})' =
            SaidOf' + NotSaid' + Cardinality(rwork') + Cardinality(Unsettled')
      BY <3>1, <3>2, <3>3, <3>4, <3>5, <3>6
    <3> QED
      BY <2>2, <2>5, <3>3, <3>4, <3>7 DEF Sums
  <2>9. Fresh'
    <3>1. tally'["notsent"] = tally["notsent"]
      BY <1>1, <1>2, LiveAre DEF Receipt!Columns, Counting
    <3>2. \A q \in rtodo \cup rwork : q # r /\ q \in Receipt!Records
      BY <1>1, <2>1 DEF Loops, ReceiptInv, Receipt!TypeOK
    <3> QED
      BY <1>1, <2>1, <2>2, <2>5, <2>6, <3>1, <3>2 DEF Fresh, Unsettled
  <2> QED
    BY <2>7, <2>8, <2>9
<1> QED
  BY <1>3, <1>4 DEF Counts

(* Nothing counted leaves the counters right.                              *)
LEMMA TurnStays ==
  ASSUME Receipt!ReceiptAssumption, ReceiptInv, NEW r \in Receipt!Records, Turn(r),
         UNCHANGED <<tally, mirror, answered, twice>>, rphase # "session" => r \in answered
  PROVE  Counts'
<1>1. Loops /\ Counts
  BY DEF ReceiptInv
<1>2. ASSUME FirstRun' PROVE Columnwise' /\ Sums' /\ Fresh'
  <2>1. FirstRun /\ rphase # "over" /\ rphase' # "over" /\ ropen' \subseteq ropen
        /\ UNCHANGED <<rtodo, rwork, arrived>>
    BY <1>2 DEF FirstRun, Turn, InSession
  <2>2. Unsettled' = Unsettled
    BY DEF Turn, Unsettled
  <2>3. Columnwise /\ Sums /\ Fresh
    BY <1>1, <2>1 DEF Counts
  <2>4. /\ \A X : Counted(X)' = Counted(X)
        /\ SaidOf' = SaidOf /\ NotSaid' = NotSaid
    BY DEF Counted, SaidOf, NotSaid
  <2> QED
    BY <2>1, <2>2, <2>3, <2>4 DEF Columnwise, Sums, Fresh
<1> QED
  BY <1>2 DEF Counts

(* A turn keeps what it keeps of its record.                               *)
LEMMA TurnKeeps ==
  ASSUME Receipt!ReceiptAssumption, ReceiptInv, NEW r \in Receipt!Records, Turn(r), NEW flags,
        Marks(r, flags),
         rplace' \in [Receipt!Records -> {"before", "past", "rejected"}],
         \A q \in Receipt!Records \ {r} : rplace'[q] = rplace[q],
         \/ UNCHANGED <<tally, mirror, answered, twice>>
         \/ \E outcome \in Counting : Receipt!Count(r, outcome)
            /\ (r \in answered => Receipt!Barless(r)),
         ItemOf(r)', MirrorOf(r)', rphase # "session" => r \in answered'
  PROVE  ReceiptInv'
<1>1. Receipt!TypeOK /\ EventsOK /\ Loops /\ Items /\ Receipt!MirrorIsWhereItIs /\ Counts
  BY DEF ReceiptInv
<1>2. Counts' /\ tally' \in [Receipt!Columns -> Nat]
  BY <1>1, TurnCounts, TurnStays DEF Receipt!TypeOK
<1>3. /\ answered' \subseteq answered \cup {r} /\ answered \subseteq answered'
      /\ twice' \subseteq twice \cup {r} /\ twice \subseteq twice'
      /\ EventsOK'
      /\ \A q \in Receipt!Records \ {r} : mirror'.final[q] = mirror.final[q]
  <2>1. CASE UNCHANGED <<tally, mirror, answered, twice>>
    BY <1>1, <2>1 DEF EventsOK, Marks
  <2>2. ASSUME NEW outcome \in Counting, Receipt!Count(r, outcome) PROVE <1>3
    <3>1. /\ answered' = answered \cup {r} /\ mirror' = Receipt!Read({r}, outcome)
          /\ twice \subseteq twice' /\ twice' \subseteq twice \cup {r}
      BY <2>2 DEF Receipt!Count, Receipt!Answer
    <3>3. /\ mirror' \in [seen : SUBSET Receipt!Records,
                          final : [Receipt!Records -> Outcomes \cup {"none"}],
                          stop : Nat, resumed : SUBSET Receipt!Records]
          /\ \A q \in Receipt!Records \ {r} : mirror'.final[q] = mirror.final[q]
      BY <1>1, <2>2, OutcomeIs
    <3> QED
      BY <3>1, <3>3 DEF EventsOK, Marks
  <2> QED
    BY <2>1, <2>2
<1>4. /\ UNCHANGED <<rrole, process, arrived, rtodo, rwork>> /\ ropen' \subseteq ropen
      /\ ropen' = ropen \/ ropen' = ropen \ {r}
      /\ rphase' \in InSession \cup {"dispatching"} /\ (ropen' # {} <=> rphase' \in InSession)
      /\ rsaid' \in [Receipt!Records -> 0..MaxSaid[rrole]] /\ stopping' \in BOOLEAN
      /\ r \notin rtodo \cup rwork
  BY <1>1 DEF Turn, Loops, InSession
<1>5. Receipt!TypeOK'
  <2>1. /\ mirror'.seen \subseteq Receipt!Records /\ mirror'.resumed \subseteq Receipt!Records
    BY <1>3 DEF EventsOK
  <2> QED
    BY <1>1, <1>2, <1>3, <1>4, <2>1 DEF Receipt!TypeOK, InSession
<1>6. Loops'
  <2>1. rphase \in InSession /\ process # 0 /\ process' # 0
    BY <1>1, <1>4 DEF Loops, Turn, InSession
  <2>2. \A q \in rtodo \cup rwork : q # r /\ q \in Receipt!Records
    BY <1>1, <1>4 DEF Receipt!TypeOK
  <2>3. \A q \in rtodo \cup rwork : rplace'[q] = "before" /\ q \notin answered' /\ item'[q] = {}
    BY <1>1, <1>3, <2>2 DEF Loops, Marks
  <2> QED
    BY <1>1, <1>4, <2>1, <2>3 DEF Loops, InSession
<1>7. Items'
  <2>1. ASSUME NEW q \in ropen', q # r PROVE ItemOf(q)'
    <3>1. q \in ropen /\ q \in Receipt!Records /\ ItemOf(q)
      BY <1>1, <1>4 DEF Items, Receipt!TypeOK
    <3>2. item'[q] = item[q] /\ rplace'[q] = rplace[q] /\ (q \in answered' <=> q \in answered)
          /\ (q \in twice' <=> q \in twice) /\ rrole' = rrole
      BY <1>3, <1>4, <2>1, <3>1 DEF Marks
    <3> QED
      BY <3>1, <3>2 DEF ItemOf, Receipt!Settled, Receipt!Is
  <2> QED
    BY <2>1 DEF Items
<1>8. Receipt!MirrorIsWhereItIs'
  <2>1. ASSUME NEW q \in Receipt!Records \ {r}, q \notin twice' PROVE MirrorOf(q)'
    BY <1>1, <1>3, <2>1 DEF Receipt!MirrorIsWhereItIs, MirrorOf
  <2> QED
    BY <2>1 DEF Receipt!MirrorIsWhereItIs, MirrorOf
<1> QED
  BY <1>2, <1>3, <1>5, <1>6, <1>7, <1>8 DEF ReceiptInv

(* The five ways a turn goes. Nothing is made of it.                       *)
LEMMA NothingMade ==
  ASSUME Receipt!ReceiptAssumption, ReceiptInv, NEW r \in Receipt!Records, Turn(r), NEW flags,
        Marks(r, flags),
         Receipt!Nothing, flags \subseteq {"output", "verdict", "errored"},
         "output" \in flags => rrole = "filter" \/ Receipt!Settled(r),
         "errored" \in flags => Receipt!Settled(r),
         "verdict" \in flags => rrole = "filter" /\ Receipt!Settled(r),
         rphase # "session" => r \in answered
  PROVE  ReceiptInv'
<1>1. ItemOf(r) /\ Receipt!MirrorIsWhereItIs /\ Receipt!TypeOK
  BY DEF ReceiptInv, Turn, Items
<1>2. UNCHANGED <<rplace, tally, mirror, answered, twice, rrole>>
  BY DEF Receipt!Nothing, Turn
<1>3. ItemOf(r)'
  BY <1>1, <1>2 DEF ItemOf, Receipt!Settled, Receipt!Is, Marks
<1>4. MirrorOf(r)'
  BY <1>1, <1>2 DEF Receipt!MirrorIsWhereItIs, MirrorOf
<1>5. rplace' \in [Receipt!Records -> {"before", "past", "rejected"}]
  BY <1>1, <1>2 DEF Receipt!TypeOK
<1> QED
  BY <1>2, <1>3, <1>4, <1>5, TurnKeeps DEF Receipt!Nothing

LEMMA MarksAre ==
  ASSUME EventsOK, NEW r \in Receipt!Records, NEW flags \in SUBSET Flags, Receipt!Mark(r, flags)
  PROVE  Marks(r, flags)
BY DEF Receipt!Mark, Marks, EventsOK

(* It goes on with an outcome.                                             *)
LEMMA AdvanceMade ==
  ASSUME Receipt!ReceiptAssumption, ReceiptInv, NEW r \in Receipt!Records, Turn(r),
         NEW flags \in SUBSET {"output", "verdict", "errored"}, NEW outcome \in {"out",
               "empty", "skipped"},
         NEW to \in {"past", Receipt!Onwards(r)}, Receipt!Advance(r, outcome, flags, to),
         "verdict" \in flags => rrole = "filter",
         rrole = "filter" => "verdict" \in flags \/ "errored" \in flags,
         rphase = "closed" => ~Receipt!Is(r, "verdict") /\ ~Receipt!Is(r, "pending")
  PROVE  ReceiptInv'
<1>1. ItemOf(r) /\ Receipt!TypeOK /\ EventsOK
  BY DEF ReceiptInv, Turn, Items
<1>2. CASE Receipt!Settled(r)
  <2>1. Receipt!Mark(r, flags) /\ Receipt!Nothing /\ flags \in SUBSET Flags
    BY <1>2 DEF Receipt!Advance, Flags
  <2>2. r \in answered
    BY <1>1, <1>2 DEF ItemOf
  <2> QED
    BY <1>1, <1>2, <2>1, <2>2, MarksAre, NothingMade
<1>3. CASE ~Receipt!Settled(r)
  <2>1. /\ Receipt!Mark(r, flags \cup {"advanced"}) /\ Receipt!Count(r, outcome)
        /\ rplace' = [rplace EXCEPT ![r] = to]
    BY <1>3 DEF Receipt!Advance
  <2>2. Marks(r, flags \cup {"advanced"})
    <3>1. flags \cup {"advanced"} \in SUBSET Flags
      BY DEF Flags
    <3> QED
      BY <1>1, <2>1, <3>1, MarksAre
  <2>3. r \in answered => Receipt!Barless(r) /\ r \in twice'
    <3>1. r \in answered => Receipt!Barless(r)
      BY <1>1, <1>3 DEF ItemOf, Receipt!Barless
    <3> QED
      BY <2>1, <3>1 DEF Receipt!Count, Receipt!Answer
  <2>4. r \in answered' /\ twice \subseteq twice' /\ mirror' = Receipt!Read({r}, outcome)
        /\ rrole' = rrole
    BY <2>1 DEF Receipt!Count, Receipt!Answer, Turn
  <2>5. rplace' \in [Receipt!Records -> {"before", "past", "rejected"}] /\ rplace'[r] = to
        /\ \A q \in Receipt!Records \ {r} : rplace'[q] = rplace[q]
    BY <1>1, <2>1 DEF Receipt!TypeOK, Receipt!Onwards
  <2>6. r \notin twice' => to = "past"
    <3>1. r \notin twice' => ~Receipt!Is(r, "verdict") /\ r \notin twice
      BY <1>1, <2>3, <2>4 DEF ItemOf
    <3> QED
      BY <1>1, <3>1 DEF ItemOf, Receipt!Onwards
  <2>7. ItemOf(r)'
    BY <1>1, <1>3, <2>2, <2>4, <2>5, <2>6 DEF ItemOf, Receipt!Settled, Receipt!Is, Marks
  <2>8. mirror'.final[r] = outcome
    <3>1. outcome \in Counting
      BY DEF Counting
    <3> QED
      BY <1>1, <2>1, <3>1, OutcomeIs
  <2>9. MirrorOf(r)'
    BY <2>5, <2>6, <2>8 DEF MirrorOf
  <2>10. outcome \in Counting
    BY DEF Counting
  <2> QED
    BY <2>1, <2>2, <2>3, <2>4, <2>5, <2>7, <2>9, <2>10, TurnKeeps
<1> QED
  BY <1>2, <1>3

(* It fails.                                                               *)
LEMMA FailMade ==
  ASSUME Receipt!ReceiptAssumption, ReceiptInv, NEW r \in Receipt!Records, Turn(r),
         NEW flags \in SUBSET {"output", "errored"}, Receipt!FailItem(r, flags),
         rphase = "closed" => ~Receipt!Is(r, "verdict") /\ ~Receipt!Is(r, "pending")
  PROVE  ReceiptInv'
<1>1. ItemOf(r) /\ Receipt!TypeOK /\ EventsOK /\ Receipt!MirrorIsWhereItIs
  BY DEF ReceiptInv, Turn, Items
<1>2. CASE Receipt!Settled(r)
  <2>1. Receipt!Mark(r, flags) /\ Receipt!Nothing /\ flags \in SUBSET Flags
    BY <1>2 DEF Receipt!FailItem, Flags
  <2>2. r \in answered
    BY <1>1, <1>2 DEF ItemOf
  <2> QED
    BY <1>1, <1>2, <2>1, <2>2, MarksAre, NothingMade
<1>3. CASE ~Receipt!Settled(r)
  <2>1. Receipt!Mark(r, flags \cup {"failed"}) /\ Receipt!Count(r, "failed") /\ UNCHANGED rplace
    BY <1>3 DEF Receipt!FailItem
  <2>2. Marks(r, flags \cup {"failed"})
    <3>1. flags \cup {"failed"} \in SUBSET Flags
      BY DEF Flags
    <3> QED
      BY <1>1, <2>1, <3>1, MarksAre
  <2>3. r \in answered => Receipt!Barless(r) /\ r \in twice'
    <3>1. r \in answered => Receipt!Barless(r)
      BY <1>1, <1>3 DEF ItemOf, Receipt!Barless
    <3> QED
      BY <2>1, <3>1 DEF Receipt!Count, Receipt!Answer
  <2>4. r \in answered' /\ twice \subseteq twice' /\ mirror' = Receipt!Read({r}, "failed")
        /\ rrole' = rrole
    BY <2>1 DEF Receipt!Count, Receipt!Answer, Turn
  <2>5. rplace' \in [Receipt!Records -> {"before", "past", "rejected"}]
        /\ \A q \in Receipt!Records : rplace'[q] = rplace[q]
    BY <1>1, <2>1 DEF Receipt!TypeOK
  <2>6. r \notin twice' => rplace[r] = "before" /\ ~Receipt!Is(r, "verdict") /\ r \notin twice
    <3>1. r \notin twice' => ~Receipt!Is(r, "verdict") /\ r \notin twice
      BY <1>1, <2>3, <2>4 DEF ItemOf
    <3> QED
      BY <1>1, <1>3, <3>1 DEF ItemOf, Receipt!Settled, Receipt!TypeOK
  <2>7. ItemOf(r)'
    BY <1>1, <1>3, <2>2, <2>4, <2>5, <2>6 DEF ItemOf, Receipt!Settled, Receipt!Is, Marks
  <2>8. mirror'.final[r] = "failed"
    <3>1. "failed" \in Counting
      BY DEF Counting
    <3> QED
      BY <1>1, <2>1, <3>1, OutcomeIs
  <2>9. MirrorOf(r)'
    BY <2>4, <2>5, <2>6, <2>8 DEF MirrorOf
  <2>10. "failed" \in Counting
    BY DEF Counting
  <2> QED
    BY <2>1, <2>2, <2>3, <2>4, <2>5, <2>7, <2>9, <2>10, TurnKeeps
<1> QED
  BY <1>2, <1>3

(* A filter's verdict.                                                     *)
LEMMA RejectMade ==
  ASSUME Receipt!ReceiptAssumption, ReceiptInv, NEW r \in Receipt!Records, Turn(r),
        rphase = "session",
         rrole = "filter", ~Receipt!Is(r, "errored"), ~Receipt!Is(r, "failed"), Receipt!Rejects(r)
  PROVE  ReceiptInv'
<1>1. ItemOf(r) /\ Receipt!TypeOK /\ EventsOK
  BY DEF ReceiptInv, Turn, Items
<1>2. Marks(r, {"verdict"})
  <2>1. {"verdict"} \in SUBSET Flags
    BY DEF Flags
  <2> QED
    BY <1>1, <2>1, MarksAre DEF Receipt!Rejects
<1>3. r \in answered => Receipt!Barless(r) /\ r \in twice'
  <2>1. r \in answered => Receipt!Barless(r)
    BY <1>1 DEF ItemOf, Receipt!Barless, Receipt!Settled
  <2> QED
    BY <2>1 DEF Receipt!Rejects, Receipt!Count, Receipt!Answer
<1>4. r \in answered' /\ twice \subseteq twice' /\ rrole' = rrole /\ Receipt!Count(r, "filtered")
  BY DEF Receipt!Rejects, Receipt!Count, Receipt!Answer, Turn
<1>5. rplace' \in [Receipt!Records -> {"before", "past", "rejected"}] /\ rplace'[r] = "rejected"
      /\ \A q \in Receipt!Records \ {r} : rplace'[q] = rplace[q]
  BY <1>1 DEF Receipt!TypeOK, Receipt!Rejects
<1>6. r \notin twice' => ~Receipt!Is(r, "advanced")
  BY <1>1, <1>3 DEF ItemOf, Receipt!Settled
<1>7. ItemOf(r)'
  BY <1>1, <1>2, <1>4, <1>5, <1>6 DEF ItemOf, Receipt!Settled, Receipt!Is, Marks
<1>8. "filtered" \in Counting
  BY DEF Counting
<1>9. mirror'.final[r] = "filtered"
  BY <1>1, <1>4, <1>8, OutcomeIs
<1>10. MirrorOf(r)'
  BY <1>5, <1>9 DEF MirrorOf
<1> QED
  BY <1>2, <1>3, <1>4, <1>5, <1>7, <1>8, <1>10, TurnKeeps

LEMMA PassMade ==
  ASSUME Receipt!ReceiptAssumption, ReceiptInv, NEW r \in Receipt!Records, Turn(r),
        rphase = "session",
         rrole = "filter", ~Receipt!Is(r, "errored"), ~Receipt!Is(r, "failed"), Receipt!Passes(r)
  PROVE  ReceiptInv'
<1>1. ItemOf(r) /\ Receipt!TypeOK /\ EventsOK /\ Receipt!MirrorIsWhereItIs
  BY DEF ReceiptInv, Turn, Items
<1>2. CASE ~Receipt!Settled(r)
  <2>1. Receipt!Advance(r, "out", {"verdict"}, "past")
    BY <1>2 DEF Receipt!Passes
  <2> QED
    BY <2>1, AdvanceMade
<1>3. CASE Receipt!Settled(r)
  <2>1. /\ Receipt!Mark(r, {"verdict"}) /\ rplace' = [rplace EXCEPT ![r] = "past"]
        /\ UNCHANGED <<tally, mirror, answered, twice>>
    BY <1>3 DEF Receipt!Passes
  <2>2. Marks(r, {"verdict"})
    <3>1. {"verdict"} \in SUBSET Flags
      BY DEF Flags
    <3> QED
      BY <1>1, <2>1, <3>1, MarksAre
  <2>3. /\ rplace' \in [Receipt!Records -> {"before", "past", "rejected"}] /\ rplace'[r] = "past"
        /\ \A q \in Receipt!Records \ {r} : rplace'[q] = rplace[q]
    BY <1>1, <2>1 DEF Receipt!TypeOK
  <2>4. rrole' = rrole /\ Receipt!Is(r, "advanced") /\ (r \notin twice => rplace[r] = "past")
    BY <1>1, <1>3 DEF Turn, Receipt!Settled, ItemOf
  <2>5. ItemOf(r)'
    BY <1>1, <2>1, <2>2, <2>3, <2>4 DEF ItemOf, Receipt!Settled, Receipt!Is, Marks
  <2>6. MirrorOf(r)'
    BY <1>1, <2>1, <2>3, <2>4 DEF Receipt!MirrorIsWhereItIs, MirrorOf
  <2> QED
    BY <2>1, <2>2, <2>3, <2>5, <2>6, TurnKeeps
<1> QED
  BY <1>2, <1>3

LEMMA SayIsTurn ==
  ASSUME Receipt!ReceiptAssumption, ReceiptInv, NEW r \in Receipt!Records, Receipt!Say(r),
        stopping' \in BOOLEAN
  PROVE  Turn(r)
<1>1. /\ rphase = "session" /\ r \in ropen /\ rsaid[r] < MaxSaid[rrole]
      /\ rsaid' = [rsaid EXCEPT ![r] = @ + 1]
      /\ UNCHANGED <<rrole, rphase, process, arrived, rtodo, rwork, ropen>>
  BY DEF Receipt!Say
<1>2. rsaid \in [Receipt!Records -> 0..MaxSaid[rrole]] /\ MaxSaid[rrole] \in Nat
  BY DEF ReceiptInv, Receipt!TypeOK, Receipt!ReceiptAssumption
<1>3. rsaid[r] + 1 \in 0..MaxSaid[rrole]
  BY <1>1, <1>2
<1>4. rsaid' \in [Receipt!Records -> 0..MaxSaid[rrole]]
  BY <1>1, <1>2, <1>3
<1> QED
  BY <1>1, <1>4 DEF Turn, InSession

LEMMA HearKeeps ==
  ASSUME Receipt!ReceiptAssumption, ReceiptInv, NEW r \in Receipt!Records,
         Receipt!HearRecord(r) \/ Receipt!HearVerdict(r) \/ Receipt!HearError(r)
  PROVE  ReceiptInv'
<1>1. Receipt!TypeOK /\ EventsOK /\ rphase = "session" /\ r \in ropen /\ Turn(r) /\ ItemOf(r)
  <2>1. Receipt!Say(r) /\ stopping' \in BOOLEAN
    BY DEF Receipt!HearRecord, Receipt!HearVerdict, Receipt!HearError, ReceiptInv, Receipt!TypeOK
  <2> QED
    BY <2>1, SayIsTurn DEF Receipt!Say, ReceiptInv, Items
<1>2. rphase # "closed"
  BY <1>1
<1>3. ASSUME UNCHANGED item, Receipt!Nothing PROVE ReceiptInv'
  <2>1. Marks(r, {})
    BY <1>1, <1>3 DEF Marks, EventsOK
  <2> QED
    BY <1>1, <1>2, <1>3, <2>1, NothingMade
<1>4. CASE Receipt!HearRecord(r)
  <2>1. CASE Receipt!FailItem(r, {"output"})
    BY <1>1, <1>2, <2>1, FailMade
  <2>2. CASE rrole = "filter" /\ Receipt!Mark(r, {"output"}) /\ Receipt!Nothing
    <3>1. {"output"} \in SUBSET Flags
      BY DEF Flags
    <3> QED
      BY <1>1, <2>2, <3>1, MarksAre, NothingMade
  <2>3. CASE rrole = "enrich" /\ Receipt!Advance(r, "empty", {"output"}, "past")
    BY <1>1, <1>2, <2>3, AdvanceMade
  <2>4. CASE rrole # "filter" /\ Receipt!Advance(r, "out", {"output"}, "past")
    BY <1>1, <1>2, <2>4, AdvanceMade
  <2> QED
    BY <1>3, <1>4, <2>1, <2>2, <2>3, <2>4 DEF Receipt!HearRecord
<1>5. CASE Receipt!HearVerdict(r)
  <2>1. CASE ~Receipt!Is(r, "errored") /\ Receipt!Is(r, "failed")
        /\ Receipt!Mark(r, {"verdict"}) /\ Receipt!Nothing
    <3>1. {"verdict"} \in SUBSET Flags /\ rrole = "filter" /\ Receipt!Settled(r)
      BY <1>5, <2>1 DEF Flags, Receipt!HearVerdict, Receipt!Settled
    <3> QED
      BY <1>1, <2>1, <3>1, MarksAre, NothingMade
  <2>2. CASE ~Receipt!Is(r, "errored") /\ ~Receipt!Is(r, "failed") /\ Receipt!Rejects(r)
    BY <1>1, <1>5, <2>2, RejectMade DEF Receipt!HearVerdict
  <2>3. CASE ~Receipt!Is(r, "errored") /\ ~Receipt!Is(r, "failed") /\ Receipt!Passes(r)
    BY <1>1, <1>5, <2>3, PassMade DEF Receipt!HearVerdict
  <2> QED
    BY <1>3, <1>5, <2>1, <2>2, <2>3 DEF Receipt!HearVerdict
<1>6. CASE Receipt!HearError(r)
  <2>1. CASE Receipt!FailItem(r, {"errored"})
    BY <1>1, <1>2, <2>1, FailMade
  <2>2. CASE Receipt!Advance(r, "skipped", {"errored"}, Receipt!Onwards(r))
    BY <1>1, <1>2, <2>2, AdvanceMade
  <2> QED
    BY <1>6, <2>1, <2>2 DEF Receipt!HearError
<1> QED
  BY <1>4, <1>5, <1>6

LEMMA WrapKeeps == ASSUME Receipt!ReceiptAssumption, ReceiptInv, Receipt!Wrap PROVE ReceiptInv'
<1>1. Receipt!TypeOK /\ EventsOK /\ Loops /\ Items
  BY DEF ReceiptInv
<1>2. PICK r : r = Receipt!First(ropen)
  OBVIOUS
<1>3. ropen \in SUBSET Nat /\ ropen # {}
  BY <1>1 DEF Receipt!Wrap, Loops, Receipt!TypeOK, Receipt!Records, InSession
<1>4. r \in ropen /\ r \in Receipt!Records
  BY <1>1, <1>2, <1>3, FirstIs DEF Receipt!TypeOK
<1>5. /\ rphase \in {"closed", "crashed", "stopped"}
      /\ ropen' = ropen \ {r} /\ rphase' = (IF ropen' = {} THEN "dispatching" ELSE rphase)
      /\ rsaid' = [rsaid EXCEPT ![r] = 0]
      /\ UNCHANGED <<rrole, process, arrived, rtodo, rwork, stopping>>
  BY <1>2 DEF Receipt!Wrap
<1>6. Turn(r)
  <2>1. rsaid' \in [Receipt!Records -> 0..MaxSaid[rrole]]
    <3>1. rsaid \in [Receipt!Records -> 0..MaxSaid[rrole]] /\ MaxSaid[rrole] \in Nat
      BY <1>1 DEF Receipt!TypeOK, Receipt!ReceiptAssumption
    <3>2. 0 \in 0..MaxSaid[rrole]
      BY <3>1
    <3> QED
      BY <1>5, <3>1, <3>2
  <2> QED
    BY <1>1, <1>4, <1>5, <2>1 DEF Turn, InSession, Receipt!TypeOK
<1>7. ItemOf(r) /\ rrole \in {"filter", "enrich", "deliver"}
  BY <1>1, <1>4 DEF Items, Receipt!TypeOK, Receipt!ReceiptAssumption
<1>8. ASSUME UNCHANGED item, Receipt!Nothing, ~Receipt!Quiet(r) \/ Receipt!Heard(r)
      PROVE ReceiptInv'
  <2>1. Marks(r, {})
    BY <1>1, <1>4, <1>8 DEF Marks, EventsOK
  <2>2. r \in answered
    BY <1>7, <1>8 DEF ItemOf, Receipt!Quiet, Receipt!Heard, Receipt!Settled
  <2> QED
    BY <1>4, <1>6, <1>8, <2>1, <2>2, NothingMade
<1>9. CASE rphase = "closed" /\ Receipt!Quiet(r) /\ ~Receipt!Heard(r) /\ Receipt!Unsaid(r)
  <2>1. ~Receipt!Is(r, "verdict") /\ ~Receipt!Is(r, "pending")
    BY <1>7, <1>9 DEF ItemOf, Receipt!Quiet, Receipt!Heard
  <2>2. CASE rrole = "filter"
    <3>1. Receipt!FailItem(r, {})
      BY <1>9, <2>2 DEF Receipt!Unsaid
    <3> QED
      BY <1>4, <1>6, <2>1, <3>1, FailMade
  <2>3. CASE rrole = "enrich"
    <3>1. Receipt!Advance(r, "empty", {}, "past")
      BY <1>9, <2>3 DEF Receipt!Unsaid
    <3> QED
      BY <1>4, <1>6, <2>1, <2>3, <3>1, AdvanceMade
  <2>4. CASE rrole = "deliver"
    <3>1. Receipt!Advance(r, "out", {}, "past")
      BY <1>9, <2>4 DEF Receipt!Unsaid
    <3> QED
      BY <1>4, <1>6, <2>1, <2>4, <3>1, AdvanceMade
  <2> QED
    BY <1>7, <2>2, <2>3, <2>4
<1>10. CASE rphase = "crashed" /\ Receipt!FailItem(r, {})
  BY <1>4, <1>6, <1>10, FailMade
<1>11. CASE rphase = "stopped" /\ Receipt!Quiet(r) /\ Receipt!FailItem(r, {"errored"})
  BY <1>4, <1>6, <1>11, FailMade
<1> QED
  BY <1>2, <1>8, <1>9, <1>10, <1>11 DEF Receipt!Wrap

-----------------------------------------------------------------------------
(* The other steps.                                                        *)
LEMMA ReceiptInit == ASSUME Receipt!ReceiptAssumption, Receipt!Init PROVE ReceiptInv
<1>1. rrole \in Roles /\ MaxSessions[rrole] \in Nat /\ MaxSaid[rrole] \in Nat
  BY DEF Receipt!Init, Receipt!ReceiptAssumption
<1>2. 0 \in 0..MaxSessions[rrole] /\ 0 \in 0..MaxSaid[rrole]
  BY <1>1
<1>3. Receipt!TypeOK
  BY <1>2 DEF Receipt!Init, Receipt!TypeOK, Receipt!NoEvents
<1>4. EventsOK
  <2>1. mirror = Receipt!NoEvents /\ item = [r \in Receipt!Records |-> {}]
    BY DEF Receipt!Init
  <2> QED
    BY <2>1 DEF EventsOK, Receipt!NoEvents
<1>5. Loops /\ Items /\ Counts
  BY DEF Receipt!Init, Loops, Items, Counts, FirstRun, InSession
<1>6. Receipt!MirrorIsWhereItIs
  <2>1. \A r \in Receipt!Records : mirror.final[r] = "none" /\ rplace[r] = "before"
    BY DEF Receipt!Init, Receipt!NoEvents
  <2> QED
    BY <2>1 DEF Receipt!MirrorIsWhereItIs
<1> QED
  BY <1>3, <1>4, <1>5, <1>6 DEF ReceiptInv

LEMMA StartKeeps == ASSUME Receipt!ReceiptAssumption, ReceiptInv, Receipt!Start PROVE ReceiptInv'
<1>1. Receipt!TypeOK /\ EventsOK /\ Loops /\ Items /\ Receipt!MirrorIsWhereItIs /\ Counts
  BY DEF ReceiptInv
<1>2. /\ rphase \in {"ready", "over", "halted"} /\ process < MaxSessions[rrole] /\ twice = {}
      /\ arrived' \in {arrived, Receipt!Records} /\ (rphase = "ready" => arrived' = arrived)
      /\ rtodo' = {r \in arrived' : rplace[r] = "before"} /\ rtodo' # {}
      /\ rphase' = "preparing" /\ process' = process + 1
      /\ stopping' = FALSE
      /\ tally' = [c \in Receipt!Columns |-> 0] /\ answered' = {}
      /\ UNCHANGED <<rrole, rplace, rwork, ropen, item, rsaid, mirror, twice>>
  BY DEF Receipt!Start
<1>3. rwork = {} /\ ropen = {} /\ item = [r \in Receipt!Records |-> {}]
      /\ rtodo' \subseteq Receipt!Records
  BY <1>1, <1>2 DEF Loops, InSession, Receipt!TypeOK
<1>4. process \in Nat /\ process' \in 0..MaxSessions[rrole]
  <2>1. rrole \in Roles /\ MaxSessions[rrole] \in Nat /\ process \in 0..MaxSessions[rrole]
    BY <1>1 DEF Receipt!TypeOK, Receipt!ReceiptAssumption
  <2> QED
    BY <1>2, <2>1
<1>5. Receipt!TypeOK' /\ EventsOK'
  BY <1>1, <1>2, <1>3, <1>4 DEF Receipt!TypeOK, EventsOK
<1>6. Loops' /\ Items' /\ Receipt!MirrorIsWhereItIs'
  BY <1>1, <1>2, <1>3, <1>4 DEF Loops, Items, Receipt!MirrorIsWhereItIs, InSession
<1>7. ASSUME FirstRun' PROVE Columnwise' /\ Sums' /\ Fresh'
  <2>1. process = 0 /\ rphase = "ready" /\ mirror = Receipt!NoEvents /\ arrived' = arrived
        /\ rtodo' = arrived
    <3>1. process = 0
      BY <1>2, <1>4, <1>7 DEF FirstRun
    <3> QED
      BY <1>1, <1>2, <3>1 DEF Loops, Receipt!TypeOK
  <2>2. \A X \in SUBSET Outcomes : Counted(X)' = 0
    <3>1. mirror' = Receipt!NoEvents
      BY <1>2, <2>1
    <3>2. \A X \in SUBSET Outcomes : {r \in Receipt!Records : mirror'.final[r] \in X} = {}
      BY <3>1 DEF Receipt!NoEvents, Outcomes
    <3> QED
      BY <3>2, FS_EmptySet DEF Counted
  <2>3. \A c \in Receipt!Columns : tally'[c] = 0
    BY <1>2
  <2>4. Columnwise'
    BY <2>2, <2>3 DEF Columnwise, Tallied, Receipt!Columns, Outcomes
  <2>5. Cardinality({}) = 0 /\ (arrived \ rtodo)' = {} /\ Unsettled' = {} /\ mirror'.seen = {}
        /\ mirror'.stop = 0 /\ rwork' = {}
    BY <1>2, <1>3, <2>1, FS_EmptySet DEF Receipt!NoEvents, Unsettled
  <2>6. SaidOf' = 0 /\ NotSaid' = 0 /\ tally'["in"] = 0 /\ tally'["unconfirmed"] = 0
        /\ tally'["notsent"] = 0
    BY <2>3 DEF SaidOf, NotSaid, Receipt!Columns
  <2>7. Counted({"reused_fail"})' = 0
    BY <2>2 DEF Outcomes
  <2>8. Sums'
    BY <2>5, <2>6, <2>7 DEF Sums
  <2>9. Fresh'
    BY <1>2, <1>3, <2>1, <2>5, <2>6 DEF Fresh, Receipt!NoEvents
  <2> QED
    BY <2>4, <2>8, <2>9
<1> QED
  BY <1>5, <1>6, <1>7 DEF ReceiptInv, Counts

LEMMA EndsKeeps == ASSUME Receipt!ReceiptAssumption, ReceiptInv, Receipt!Ends PROVE ReceiptInv'
<1>1. Receipt!TypeOK /\ EventsOK /\ Loops /\ Items /\ Receipt!MirrorIsWhereItIs /\ Counts
  BY DEF ReceiptInv
<1>2. /\ rphase = "session" /\ rphase' \in {"closed", "crashed", "stopped"}
      /\ stopping' \in BOOLEAN
      /\ UNCHANGED <<rrole, process, arrived, rplace, rtodo, rwork, ropen, item, rsaid, tally,
         mirror,
                     answered, twice>>
  BY <1>1 DEF Receipt!Ends, Receipt!TypeOK
<1>3. Receipt!TypeOK' /\ EventsOK'
  BY <1>1, <1>2 DEF Receipt!TypeOK, EventsOK
<1>4. Loops' /\ Receipt!MirrorIsWhereItIs'
  BY <1>1, <1>2 DEF Loops, Receipt!MirrorIsWhereItIs, InSession
<1>5. Items'
  BY <1>1, <1>2 DEF Items, ItemOf, Receipt!Settled, Receipt!Is
<1>6. Counts'
  <2>1. ASSUME FirstRun' PROVE Columnwise /\ Sums /\ Fresh
    BY <1>1, <1>2, <2>1 DEF Counts, FirstRun
  <2>2. /\ \A X : Counted(X)' = Counted(X)
        /\ SaidOf' = SaidOf /\ NotSaid' = NotSaid /\ Unsettled' = Unsettled
    BY <1>2 DEF Counted, SaidOf, NotSaid, Unsettled
  <2> QED
    BY <1>2, <2>1, <2>2 DEF Counts, Columnwise, Sums, Fresh
<1> QED
  BY <1>3, <1>4, <1>5, <1>6 DEF ReceiptInv

(* A process that ends in any other way than over is not looked at again.  *)
LEMMA HaltKeeps ==
  ASSUME Receipt!ReceiptAssumption, ReceiptInv, rphase' = "halted", Receipt!Drop, rtodo' = {},
        process # 0,
         tally' \in [Receipt!Columns -> Nat], answered' \subseteq Receipt!Records,
               stopping' \in BOOLEAN,
         UNCHANGED <<rrole, process, arrived, rplace, twice>>,
         mirror' \in [seen : SUBSET Receipt!Records,
                      final : [Receipt!Records -> Outcomes \cup {"none"}],
                      stop : Nat, resumed : SUBSET Receipt!Records],
         \A r \in Receipt!Records : mirror'.final[r] = mirror.final[r]
  PROVE  ReceiptInv'
<1>1. Receipt!TypeOK /\ EventsOK /\ Loops /\ Items /\ Receipt!MirrorIsWhereItIs /\ Counts
  BY DEF ReceiptInv
<1>2. /\ ropen' = {} /\ rwork' = {} /\ item' = [r \in Receipt!Records |-> {}]
      /\ rsaid' = [r \in Receipt!Records |-> 0]
  BY DEF Receipt!Drop
<1>3. rsaid' \in [Receipt!Records -> 0..MaxSaid[rrole]]
  <2>1. MaxSaid[rrole] \in Nat
    BY <1>1 DEF Receipt!TypeOK, Receipt!ReceiptAssumption
  <2>2. 0 \in 0..MaxSaid[rrole]
    BY <2>1
  <2> QED
    BY <1>2, <2>2
<1>4. EventsOK'
  BY <1>2 DEF EventsOK
<1>5. Receipt!TypeOK'
  <2>1. mirror'.seen \subseteq Receipt!Records /\ mirror'.resumed \subseteq Receipt!Records
    OBVIOUS
  <2> QED
    BY <1>1, <1>2, <1>3, <2>1 DEF Receipt!TypeOK
<1>6. Loops' /\ Items' /\ Counts'
  BY <1>1, <1>2 DEF Loops, Items, Counts, FirstRun, InSession
<1>7. Receipt!MirrorIsWhereItIs'
  BY <1>1 DEF Receipt!MirrorIsWhereItIs
<1> QED
  BY <1>4, <1>5, <1>6, <1>7 DEF ReceiptInv

LEMMA InterruptKeeps == ASSUME Receipt!ReceiptAssumption, ReceiptInv, Receipt!Interrupt
      PROVE ReceiptInv'
<1>1. Receipt!TypeOK /\ EventsOK /\ Loops
  BY DEF ReceiptInv
<1>2. PICK n : n = Cardinality({r \in ropen : ~Receipt!Settled(r)})
  OBVIOUS
<1>3. n \in Nat
  <2>1. {r \in ropen : ~Receipt!Settled(r)} \in SUBSET Receipt!Records
    BY <1>1 DEF Receipt!TypeOK
  <2> QED
    BY <1>2, <2>1, RecordsFinite
<1>4. tally' = [tally EXCEPT !["unconfirmed"] = @ + n]
  BY <1>2, RecordsCounted DEF Receipt!Interrupt
<1>5. tally' \in [Receipt!Columns -> Nat]
  BY <1>1, <1>3, <1>4, LiveAre DEF Receipt!TypeOK, Receipt!Columns
<1>6. /\ rphase' = "halted" /\ Receipt!Drop /\ rtodo' = {} /\ process # 0
      /\ UNCHANGED <<rrole, process, arrived, rplace, twice, mirror, answered, stopping>>
  BY <1>1 DEF Receipt!Interrupt, Loops
<1>7. answered' \subseteq Receipt!Records /\ stopping' \in BOOLEAN
  BY <1>1, <1>6 DEF Receipt!TypeOK
<1> QED
  BY <1>1, <1>5, <1>6, <1>7, HaltKeeps DEF EventsOK

LEMMA KillKeeps == ASSUME Receipt!ReceiptAssumption, ReceiptInv, Receipt!Kill PROVE ReceiptInv'
<1>1. Receipt!TypeOK /\ EventsOK /\ Loops
  BY DEF ReceiptInv
<1>2. /\ rphase' = "halted" /\ Receipt!Drop /\ rtodo' = {} /\ process # 0
      /\ tally' = [c \in Receipt!Columns |-> 0] /\ answered' = {} /\ stopping' = FALSE
      /\ UNCHANGED <<rrole, process, arrived, rplace, mirror, twice>>
  BY <1>1 DEF Receipt!Kill, Loops
<1>3. tally' \in [Receipt!Columns -> Nat]
  BY <1>2
<1> QED
  BY <1>1, <1>2, <1>3, HaltKeeps DEF EventsOK

LEMMA FinishKeeps == ASSUME Receipt!ReceiptAssumption, ReceiptInv, Receipt!Finish
      PROVE ReceiptInv'
<1>1. Receipt!TypeOK /\ EventsOK /\ Loops /\ Items /\ Receipt!MirrorIsWhereItIs /\ Counts
  BY DEF ReceiptInv
<1>2. PICK n : n = Cardinality(rwork)
  OBVIOUS
<1>3. n \in Nat /\ Cardinality({}) = 0
  BY <1>1, <1>2, RecordsFinite, FS_EmptySet DEF Receipt!TypeOK
<1>4. /\ rphase = "dispatching" /\ rphase' = "over" /\ Receipt!Drop /\ (rwork = {} \/ stopping)
      /\ \/ ~stopping /\ UNCHANGED <<tally, mirror>>
         \/ /\ stopping /\ tally' = [tally EXCEPT !["notsent"] = n]
            /\ mirror' = [mirror EXCEPT !.stop = n, !.resumed = {}]
      /\ UNCHANGED <<rrole, process, arrived, rplace, rtodo, stopping, answered, twice>>
  BY <1>2, RecordsCounted DEF Receipt!Finish, Receipt!ReadStop
<1>5. /\ ropen' = {} /\ rwork' = {} /\ item' = [r \in Receipt!Records |-> {}]
      /\ rsaid' = [r \in Receipt!Records |-> 0] /\ rtodo = {} /\ ropen = {} /\ process # 0
  BY <1>1, <1>4 DEF Receipt!Drop, Loops, InSession
<1>6. rsaid' \in [Receipt!Records -> 0..MaxSaid[rrole]]
  <2>1. MaxSaid[rrole] \in Nat
    BY <1>1 DEF Receipt!TypeOK, Receipt!ReceiptAssumption
  <2>2. 0 \in 0..MaxSaid[rrole]
    BY <2>1
  <2> QED
    BY <1>5, <2>2
<1>7. tally' \in [Receipt!Columns -> Nat]
  BY <1>1, <1>3, <1>4 DEF Receipt!TypeOK
<1>8. /\ mirror' \in [seen : SUBSET Receipt!Records,
                      final : [Receipt!Records -> Outcomes \cup {"none"}],
                      stop : Nat, resumed : SUBSET Receipt!Records]
      /\ mirror'.seen = mirror.seen /\ mirror'.final = mirror.final
      /\ mirror'.stop = (IF stopping THEN n ELSE mirror.stop)
      /\ stopping => mirror'.resumed = {}
  BY <1>1, <1>3, <1>4 DEF EventsOK
<1>9. Receipt!TypeOK' /\ EventsOK'
  <2>1. mirror'.seen \subseteq Receipt!Records /\ mirror'.resumed \subseteq Receipt!Records
    BY <1>8
  <2> QED
    BY <1>1, <1>4, <1>5, <1>6, <1>7, <1>8, <2>1 DEF Receipt!TypeOK, EventsOK
<1>10. Loops' /\ Items'
  BY <1>1, <1>4, <1>5 DEF Loops, Items, InSession
<1>11. Receipt!MirrorIsWhereItIs'
  BY <1>1, <1>4, <1>8 DEF Receipt!MirrorIsWhereItIs
<1>12. ASSUME FirstRun' PROVE Columnwise' /\ Sums' /\ Fresh'
  <2>1. Columnwise /\ Sums /\ Fresh
    BY <1>1, <1>4, <1>12 DEF Counts, FirstRun
  <2>2. /\ \A c \in Receipt!Columns \ {"notsent"} : tally'[c] = tally[c]
        /\ tally["notsent"] = 0 /\ tally'["notsent"] = n /\ mirror.stop = 0
    <3>1. tally["notsent"] = 0 /\ mirror.stop = 0
      BY <1>4, <2>1 DEF Fresh
    <3>2. CASE stopping
      BY <1>1, <1>4, <3>1, <3>2 DEF Receipt!TypeOK, Receipt!Columns
    <3>3. CASE ~stopping
      BY <1>2, <1>3, <1>4, <3>1, <3>3
    <3> QED
      BY <3>2, <3>3
  <2>3. \A X : Counted(X)' = Counted(X)
    BY <1>8 DEF Counted
  <2>4. Columnwise'
    BY <2>1, <2>2, <2>3 DEF Columnwise, Tallied, Receipt!Columns
  <2>5. Unsettled = {} /\ Unsettled' = {}
    BY <1>5 DEF Unsettled
  <2>6. /\ tally'["in"] = tally["in"] /\ tally'["unconfirmed"] = tally["unconfirmed"]
        /\ SaidOf' = SaidOf /\ NotSaid' = NotSaid + n /\ SaidOf \in Nat /\ NotSaid \in Nat
    BY <1>1, <1>3, <2>2, LiveAre DEF Receipt!TypeOK, SaidOf, NotSaid, Receipt!Columns
  <2>7. Sums'
    <3>1. Counted({"reused_fail"}) \in Nat
      <4>1. {q \in Receipt!Records :
            mirror.final[q] \in {"reused_fail"}} \in SUBSET Receipt!Records
        OBVIOUS
      <4> QED
        BY <4>1, RecordsFinite DEF Counted
    <3>2. Cardinality(mirror.seen) \in Nat /\ tally["unconfirmed"] \in Nat /\ tally["in"] \in Nat
      BY <1>1, RecordsFinite, LiveAre DEF EventsOK, Receipt!TypeOK
    <3>3. tally["in"] + Counted({"reused_fail"}) = SaidOf + NotSaid + n + 0
      BY <1>2, <1>3, <2>1, <2>5 DEF Sums
    <3>4. tally'["in"] + Counted({"reused_fail"})' =
            SaidOf' + NotSaid' + Cardinality(rwork') + Cardinality(Unsettled')
      BY <1>3, <1>5, <2>3, <2>5, <2>6, <3>1, <3>2, <3>3
    <3>5. tally'["in"] = Cardinality(mirror'.seen) + Cardinality(rwork') + tally'["unconfirmed"]
                        + tally'["notsent"]
      BY <1>2, <1>3, <1>5, <1>8, <2>1, <2>2, <2>6, <3>2 DEF Sums
    <3> QED
      BY <1>4, <2>1, <2>6, <3>4, <3>5 DEF Sums
  <2>8. NotSent' = n
    <3>1. CASE stopping
      <4>1. mirror'.stop = n /\ mirror'.resumed = {}
        BY <1>8, <3>1
      <4>2. Cardinality(mirror'.resumed) = 0
        BY <1>3, <4>1
      <4> QED
        BY <1>3, <4>1, <4>2 DEF NotSent
    <3>2. CASE ~stopping
      <4>1. Cardinality(mirror'.resumed) \in Nat
        BY <1>8, RecordsFinite
      <4>2. n = 0 /\ mirror'.stop = 0
        BY <1>2, <1>3, <1>4, <2>2, <3>2
      <4> QED
        BY <4>1, <4>2 DEF NotSent
    <3> QED
      BY <3>1, <3>2
  <2>9. Fresh'
    BY <1>4, <1>5, <2>2, <2>5, <2>8 DEF Fresh
  <2> QED
    BY <2>4, <2>7, <2>9
<1> QED
  BY <1>9, <1>10, <1>11, <1>12 DEF ReceiptInv, Counts

LEMMA DispatchKeeps == ASSUME Receipt!ReceiptAssumption, ReceiptInv, Receipt!Dispatch
      PROVE ReceiptInv'
<1>1. Receipt!TypeOK /\ EventsOK /\ Loops /\ Items /\ Receipt!MirrorIsWhereItIs /\ Counts
  BY DEF ReceiptInv
<1>2. PICK chunk \in {{Receipt!First(rwork)}, rwork} :
        /\ mirror' = Receipt!Read(chunk, "untold")
        /\ \/ rphase' = "session" /\ ropen' = chunk /\ rwork' = rwork \ chunk
              /\ UNCHANGED <<item, rsaid>>
           \/ rphase' = "halted" /\ Receipt!Drop
  BY DEF Receipt!Dispatch
<1>3. /\ rphase = "dispatching" /\ rwork # {}
      /\ UNCHANGED <<rrole, process, arrived, rplace, rtodo, stopping, tally, answered, twice>>
  BY DEF Receipt!Dispatch
<1>4. chunk \in SUBSET rwork /\ chunk # {} /\ chunk \in SUBSET Receipt!Records
      /\ rwork \in SUBSET Receipt!Records
  <2>1. rwork \in SUBSET Nat
    BY <1>1 DEF Receipt!TypeOK, Receipt!Records
  <2> QED
    BY <1>1, <1>3, <2>1, FirstIs DEF Receipt!TypeOK
<1>5. /\ mirror' \in [seen : SUBSET Receipt!Records,
                      final : [Receipt!Records -> Outcomes \cup {"none"}],
                      stop : Nat, resumed : SUBSET Receipt!Records]
      /\ mirror'.seen = mirror.seen \cup chunk /\ mirror'.stop = mirror.stop
  <2>1. "untold" \in Outcomes \cup {"untold"}
    OBVIOUS
  <2> QED
    BY <1>1, <1>2, <1>4, <2>1, ReadIs
<1>6. /\ \A X : Counted(X)' = Counted(X)
      /\ \A q \in Receipt!Records : mirror'.final[q] = mirror.final[q]
  BY <1>1, <1>2, <1>4, CountNone
<1>7. rtodo = {} /\ ropen = {} /\ process # 0
  BY <1>1, <1>3 DEF Loops, InSession
<1>8. CASE rphase' = "halted" /\ Receipt!Drop
  <2>1. tally' \in [Receipt!Columns -> Nat] /\ answered' \subseteq Receipt!Records
        /\ stopping' \in BOOLEAN
    BY <1>1, <1>3 DEF Receipt!TypeOK
  <2> QED
    BY <1>3, <1>5, <1>6, <1>7, <1>8, <2>1, HaltKeeps
<1>9. CASE rphase' = "session" /\ ropen' = chunk /\ rwork' = rwork \ chunk
      /\ UNCHANGED <<item, rsaid>>
  <2>1. Receipt!TypeOK' /\ EventsOK'
    <3>1. mirror'.seen \subseteq Receipt!Records /\ mirror'.resumed \subseteq Receipt!Records
      BY <1>5
    <3> QED
      BY <1>1, <1>3, <1>4, <1>5, <1>9, <3>1 DEF Receipt!TypeOK, EventsOK
  <2>2. Loops'
    BY <1>1, <1>3, <1>4, <1>7, <1>9 DEF Loops, InSession
  <2>3. Items'
    <3>1. ASSUME NEW q \in chunk PROVE ItemOf(q)'
      <4>1. item'[q] = {} /\ rplace'[q] = "before" /\ q \notin answered'
        BY <1>1, <1>3, <1>4, <1>9 DEF Loops
      <4> QED
        BY <4>1 DEF ItemOf, Receipt!Settled, Receipt!Is
    <3> QED
      BY <1>9, <3>1 DEF Items
  <2>4. Receipt!MirrorIsWhereItIs'
    BY <1>1, <1>3, <1>6 DEF Receipt!MirrorIsWhereItIs
  <2>5. ASSUME FirstRun' PROVE Columnwise' /\ Sums' /\ Fresh'
    <3>1. Columnwise /\ Sums /\ Fresh
      BY <1>1, <1>3, <2>5 DEF Counts, FirstRun
    <3>2. Columnwise'
      BY <1>3, <1>6, <3>1 DEF Columnwise
    <3>3. Unsettled = {} /\ Unsettled' = chunk /\ chunk \cap mirror.seen = {}
      BY <1>1, <1>3, <1>4, <1>7, <1>9, <3>1 DEF Unsettled, Loops, Fresh
    <3>4. SaidOf' = SaidOf /\ NotSaid' = NotSaid /\ SaidOf \in Nat /\ NotSaid \in Nat
      BY <1>1, <1>3, LiveAre DEF Receipt!TypeOK, SaidOf, NotSaid
    <3>5. /\ Cardinality(rwork') = Cardinality(rwork) - Cardinality(chunk)
          /\ Cardinality(mirror'.seen) = Cardinality(mirror.seen) + Cardinality(chunk)
          /\ Cardinality(Unsettled) = 0 /\ Cardinality(Unsettled') = Cardinality(chunk)
          /\ Cardinality(rwork) \in Nat /\ Cardinality(chunk) \in Nat
          /\ Cardinality(mirror.seen) \in Nat
      <4>1. mirror.seen \in SUBSET Receipt!Records /\ chunk \cap mirror.seen = {}
        BY <1>1, <3>3 DEF EventsOK
      <4>2. /\ Cardinality(rwork \ chunk) = Cardinality(rwork) - Cardinality(chunk)
            /\ Cardinality(mirror.seen \cup chunk) = Cardinality(mirror.seen) + Cardinality(chunk)
        BY <1>4, <4>1, MovedCounted
      <4> QED
        BY <1>4, <1>5, <1>9, <3>3, <4>1, <4>2, RecordsFinite, FS_EmptySet
    <3>6. Counted({"reused_fail"}) \in Nat /\ tally["in"] \in Nat /\ tally["unconfirmed"] \in Nat
          /\ tally["notsent"] \in Nat
      <4>1. {q \in Receipt!Records :
            mirror.final[q] \in {"reused_fail"}} \in SUBSET Receipt!Records
        OBVIOUS
      <4> QED
        BY <1>1, <4>1, RecordsFinite, LiveAre DEF Counted, Receipt!TypeOK
    <3>7. /\ tally["in"] = Cardinality(arrived \ rtodo)
          /\ tally["in"] + Counted({"reused_fail"}) =
                SaidOf + NotSaid + Cardinality(rwork) + Cardinality(Unsettled)
          /\ tally["in"] = Cardinality(mirror.seen) + Cardinality(rwork) + tally["unconfirmed"]
                          + tally["notsent"]
      BY <3>1 DEF Sums
    <3>8. tally["in"] + Counted({"reused_fail"})' =
                SaidOf' + NotSaid' + Cardinality(rwork') + Cardinality(Unsettled')
      BY <1>6, <3>4, <3>5, <3>6, <3>7
    <3>9. tally["in"] = Cardinality(mirror'.seen) + Cardinality(rwork') + tally["unconfirmed"]
                          + tally["notsent"]
      BY <3>5, <3>6, <3>7
    <3>10. Sums'
      BY <1>3, <3>7, <3>8, <3>9 DEF Sums
    <3>11. Fresh'
      BY <1>1, <1>3, <1>4, <1>5, <1>6, <1>7, <1>9, <3>1, <3>3 DEF Fresh, Loops
    <3> QED
      BY <3>2, <3>10, <3>11
  <2> QED
    BY <2>1, <2>2, <2>3, <2>4, <2>5 DEF ReceiptInv, Counts
<1> QED
  BY <1>2, <1>8, <1>9

LEMMA PendingKeeps == ASSUME Receipt!ReceiptAssumption, ReceiptInv, Receipt!HearPending
      PROVE ReceiptInv'
<1>1. Receipt!TypeOK /\ EventsOK /\ Loops /\ Items /\ Receipt!MirrorIsWhereItIs /\ Counts
  BY DEF ReceiptInv
<1>2. PICK waits : waits = {r \in ropen : item[r] = {}}
  OBVIOUS
<1>3. PICK n : n = Cardinality(waits)
  OBVIOUS
<1>4. /\ rphase = "session"
      /\ item' = [r \in Receipt!Records |-> IF r \in waits THEN {"pending"} ELSE item[r]]
      /\ mirror' = Receipt!Read(waits, "untold") /\ Receipt!Answer(waits)
      /\ tally' = [tally EXCEPT !["inflight"] = @ + n]
      /\ UNCHANGED <<rrole, rphase, process, arrived, rplace, rtodo, rwork, ropen, rsaid,
         stopping>>
  BY <1>2, <1>3, RecordsCounted DEF Receipt!HearPending
<1>5. waits \in SUBSET Receipt!Records /\ waits \subseteq ropen /\ n \in Nat
  BY <1>1, <1>2, <1>3, RecordsFinite DEF Receipt!TypeOK
<1>6. waits \cap answered = {}
  BY <1>1, <1>2 DEF Items, ItemOf, Receipt!Settled, Receipt!Is
<1>7. answered' = answered \cup waits /\ twice' = twice
  BY <1>4, <1>6 DEF Receipt!Answer
<1>8. /\ mirror' \in [seen : SUBSET Receipt!Records,
                      final : [Receipt!Records -> Outcomes \cup {"none"}],
                      stop : Nat, resumed : SUBSET Receipt!Records]
      /\ mirror'.seen = mirror.seen \cup waits /\ mirror'.stop = mirror.stop
  <2>1. "untold" \in Outcomes \cup {"untold"}
    OBVIOUS
  <2> QED
    BY <1>1, <1>4, <1>5, <2>1, ReadIs
<1>9. /\ \A X : Counted(X)' = Counted(X)
      /\ \A q \in Receipt!Records : mirror'.final[q] = mirror.final[q]
  BY <1>1, <1>4, <1>5, CountNone
<1>10. /\ tally' \in [Receipt!Columns -> Nat] /\ tally'["inflight"] = tally["inflight"] + n
       /\ \A c \in Receipt!Columns \ {"inflight"} : tally'[c] = tally[c]
  BY <1>1, <1>4, <1>5, LiveAre DEF Receipt!TypeOK, Receipt!Columns
<1>11. Receipt!TypeOK' /\ EventsOK'
  <2>1. mirror'.seen \subseteq Receipt!Records /\ mirror'.resumed \subseteq Receipt!Records
    BY <1>8
  <2>2. item' \in [Receipt!Records -> SUBSET Flags]
    BY <1>1, <1>4 DEF EventsOK, Flags
  <2> QED
    BY <1>1, <1>4, <1>5, <1>7, <1>8, <1>10, <2>1, <2>2 DEF Receipt!TypeOK, EventsOK
<1>12. Loops'
  <2>1. \A q \in rtodo \cup rwork : q \notin waits /\ q \in Receipt!Records
    BY <1>1, <1>5 DEF Loops, Receipt!TypeOK
  <2> QED
    BY <1>1, <1>4, <1>7, <2>1 DEF Loops, InSession
<1>13. Items'
  <2>1. ASSUME NEW q \in ropen PROVE ItemOf(q)'
    <3>1. ItemOf(q) /\ q \in Receipt!Records
      BY <1>1 DEF Items, Receipt!TypeOK
    <3>2. CASE q \in waits
      <4>1. item'[q] = {"pending"} /\ item[q] = {} /\ q \in answered'
        BY <1>2, <1>4, <1>7, <3>1, <3>2
      <4> QED
        BY <1>4, <1>7, <3>1, <4>1 DEF ItemOf, Receipt!Settled, Receipt!Is
    <3>3. CASE q \notin waits
      <4>1. item'[q] = item[q] /\ (q \in answered' <=> q \in answered)
        BY <1>4, <1>7, <3>1, <3>3
      <4> QED
        BY <1>4, <1>7, <3>1, <4>1 DEF ItemOf, Receipt!Settled, Receipt!Is
    <3> QED
      BY <3>2, <3>3
  <2> QED
    BY <1>4, <2>1 DEF Items
<1>14. Receipt!MirrorIsWhereItIs'
  BY <1>1, <1>4, <1>7, <1>9 DEF Receipt!MirrorIsWhereItIs
<1>15. ASSUME FirstRun' PROVE Columnwise' /\ Sums' /\ Fresh'
  <2>1. Columnwise /\ Sums /\ Fresh
    BY <1>1, <1>4, <1>7, <1>15 DEF Counts, FirstRun
  <2>2. Columnwise'
    BY <1>9, <1>10, <2>1 DEF Columnwise, Tallied, Receipt!Columns
  <2>3. Unsettled' = Unsettled \ waits /\ waits \in SUBSET Unsettled
        /\ Unsettled \in SUBSET Receipt!Records
        /\ mirror'.seen = mirror.seen
    BY <1>1, <1>4, <1>5, <1>6, <1>7, <1>8, <2>1 DEF Unsettled, Receipt!TypeOK, Fresh
  <2>4. /\ SaidOf' = SaidOf /\ NotSaid' = NotSaid + n /\ SaidOf \in Nat /\ NotSaid \in Nat
        /\ tally'["in"] = tally["in"] /\ tally'["unconfirmed"] = tally["unconfirmed"]
        /\ tally'["notsent"] = tally["notsent"]
    BY <1>1, <1>5, <1>10, LiveAre DEF Receipt!TypeOK, SaidOf, NotSaid, Receipt!Columns
  <2>5. /\ Cardinality(Unsettled') = Cardinality(Unsettled) - n /\ Cardinality(Unsettled) \in Nat
        /\ Cardinality(rwork) \in Nat
    <3>1. {} \in SUBSET Receipt!Records /\ waits \cap {} = {}
      OBVIOUS
    <3>2. Cardinality(Unsettled \ waits) = Cardinality(Unsettled) - Cardinality(waits)
      BY <2>3, <3>1, MovedCounted
    <3> QED
      BY <1>1, <1>3, <2>3, <3>2, RecordsFinite DEF Receipt!TypeOK
  <2>6. Counted({"reused_fail"}) \in Nat /\ tally["in"] \in Nat
    <3>1. {q \in Receipt!Records : mirror.final[q] \in {"reused_fail"}} \in SUBSET Receipt!Records
      OBVIOUS
    <3> QED
      BY <1>1, <3>1, RecordsFinite, LiveAre DEF Counted, Receipt!TypeOK
  <2>7. tally["in"] + Counted({"reused_fail"}) =
          SaidOf + NotSaid + Cardinality(rwork) + Cardinality(Unsettled)
    BY <2>1 DEF Sums
  <2>8. tally'["in"] + Counted({"reused_fail"})' =
          SaidOf' + NotSaid' + Cardinality(rwork') + Cardinality(Unsettled')
    BY <1>4, <1>5, <1>9, <2>4, <2>5, <2>6, <2>7
  <2>9. Sums'
    BY <1>4, <2>1, <2>3, <2>4, <2>8 DEF Sums
  <2>10. Fresh'
    BY <1>1, <1>4, <1>8, <1>9, <2>1, <2>3, <2>4 DEF Fresh, Receipt!TypeOK
  <2> QED
    BY <2>2, <2>9, <2>10
<1> QED
  BY <1>11, <1>12, <1>13, <1>14, <1>15 DEF ReceiptInv, Counts

(* What becomes of a record before any session, column by column.          *)
AnyFate == {Receipt!Fate("untold", {"gated"}, "before"), Receipt!Fate("failed", {"failed"},
      "before"),
            Receipt!Fate("skipped", {"skipped"}, "past"),
            Receipt!Fate("already_delivered", {"already_delivered"}, "past"), Receipt!Unconfirmed,
            Receipt!Fate("cached", {"cached"}, "past"),
            Receipt!Fate("reused_fail", {"cached", "filtered"}, "rejected")}
One(holds) == IF holds THEN 1 ELSE 0

LEMMA FateCounts ==
  ASSUME tally \in [Receipt!Columns -> Nat], NEW f \in AnyFate,
        Receipt!Bump({"in"} \cup f.columns)
  PROVE  /\ tally' \in [Receipt!Columns -> Nat] /\ tally'["in"] = tally["in"] + 1
         /\ \A c \in Tallied : tally'[c] = tally[c] + One(f.outcome = c)
         /\ tally'["filtered"] = tally["filtered"] + One(f.outcome = "reused_fail")
         /\ tally'["cached"] = tally["cached"] + One(f.outcome \in {"cached", "reused_fail"})
         /\ tally'["notsent"] = tally["notsent"]
         /\ tally'["unconfirmed"] = tally["unconfirmed"] + One(f.outcome = "none")
         /\ SaidOf' + NotSaid' = SaidOf + NotSaid + 1 + One(f.outcome = "reused_fail")
<1>1. \A c \in Receipt!Columns : tally'[c] = tally[c] + One(c \in {"in"} \cup f.columns)
  BY DEF Receipt!Bump, One
<1>2. tally' \in [Receipt!Columns -> Nat]
  BY DEF Receipt!Bump
<1>3. ASSUME NEW outcome, NEW columns, NEW to, f = Receipt!Fate(outcome, columns, to)
      PROVE  f.outcome = outcome /\ f.columns = columns
  BY <1>3 DEF Receipt!Fate
<1> USE DEF One
<1>4. CASE f = Receipt!Fate("untold", {"gated"}, "before")
  <2>1. f.outcome = "untold" /\ f.columns = {"gated"}
    BY <1>3, <1>4
  <2>2. /\ tally'["in"] = tally["in"] + 1
        /\ tally'["gated"] = tally["gated"] + 1
        /\ \A c \in Receipt!Columns \ {"in", "gated"} : tally'[c] = tally[c]
    BY <1>1, <2>1, LiveAre DEF Receipt!Columns
  <2>3. SaidOf' = SaidOf /\ NotSaid' = NotSaid + 1 /\ SaidOf \in Nat /\ NotSaid \in Nat
    BY <2>2, LiveAre DEF SaidOf, NotSaid, Receipt!Columns
  <2> QED
    BY <1>2, <2>1, <2>2, <2>3, LiveAre DEF Tallied, Receipt!Columns
<1>5. CASE f = Receipt!Fate("failed", {"failed"}, "before")
  <2>1. f.outcome = "failed" /\ f.columns = {"failed"}
    BY <1>3, <1>5
  <2>2. /\ tally'["in"] = tally["in"] + 1
        /\ tally'["failed"] = tally["failed"] + 1
        /\ \A c \in Receipt!Columns \ {"in", "failed"} : tally'[c] = tally[c]
    BY <1>1, <2>1, LiveAre DEF Receipt!Columns
  <2>3. SaidOf' = SaidOf + 1 /\ NotSaid' = NotSaid /\ SaidOf \in Nat /\ NotSaid \in Nat
    BY <2>2, LiveAre DEF SaidOf, NotSaid, Receipt!Columns
  <2> QED
    BY <1>2, <2>1, <2>2, <2>3, LiveAre DEF Tallied, Receipt!Columns
<1>6. CASE f = Receipt!Fate("skipped", {"skipped"}, "past")
  <2>1. f.outcome = "skipped" /\ f.columns = {"skipped"}
    BY <1>3, <1>6
  <2>2. /\ tally'["in"] = tally["in"] + 1
        /\ tally'["skipped"] = tally["skipped"] + 1
        /\ \A c \in Receipt!Columns \ {"in", "skipped"} : tally'[c] = tally[c]
    BY <1>1, <2>1, LiveAre DEF Receipt!Columns
  <2>3. SaidOf' = SaidOf + 1 /\ NotSaid' = NotSaid /\ SaidOf \in Nat /\ NotSaid \in Nat
    BY <2>2, LiveAre DEF SaidOf, NotSaid, Receipt!Columns
  <2> QED
    BY <1>2, <2>1, <2>2, <2>3, LiveAre DEF Tallied, Receipt!Columns
<1>7. CASE f = Receipt!Fate("already_delivered", {"already_delivered"}, "past")
  <2>1. f.outcome = "already_delivered" /\ f.columns = {"already_delivered"}
    BY <1>3, <1>7
  <2>2. /\ tally'["in"] = tally["in"] + 1
        /\ tally'["already_delivered"] = tally["already_delivered"] + 1
        /\ \A c \in Receipt!Columns \ {"in", "already_delivered"} : tally'[c] = tally[c]
    BY <1>1, <2>1, LiveAre DEF Receipt!Columns
  <2>3. SaidOf' = SaidOf /\ NotSaid' = NotSaid + 1 /\ SaidOf \in Nat /\ NotSaid \in Nat
    BY <2>2, LiveAre DEF SaidOf, NotSaid, Receipt!Columns
  <2> QED
    BY <1>2, <2>1, <2>2, <2>3, LiveAre DEF Tallied, Receipt!Columns
<1>8. CASE f = Receipt!Unconfirmed
  <2>1. f.outcome = "none" /\ f.columns = {"unconfirmed"}
    BY <1>3, <1>8 DEF Receipt!Unconfirmed
  <2>2. /\ tally'["in"] = tally["in"] + 1
        /\ tally'["unconfirmed"] = tally["unconfirmed"] + 1
        /\ \A c \in Receipt!Columns \ {"in", "unconfirmed"} : tally'[c] = tally[c]
    BY <1>1, <2>1, LiveAre DEF Receipt!Columns
  <2>3. SaidOf' = SaidOf /\ NotSaid' = NotSaid + 1 /\ SaidOf \in Nat /\ NotSaid \in Nat
    BY <2>2, LiveAre DEF SaidOf, NotSaid, Receipt!Columns
  <2> QED
    BY <1>2, <2>1, <2>2, <2>3, LiveAre DEF Tallied, Receipt!Columns
<1>9. CASE f = Receipt!Fate("cached", {"cached"}, "past")
  <2>1. f.outcome = "cached" /\ f.columns = {"cached"}
    BY <1>3, <1>9
  <2>2. /\ tally'["in"] = tally["in"] + 1
        /\ tally'["cached"] = tally["cached"] + 1
        /\ \A c \in Receipt!Columns \ {"in", "cached"} : tally'[c] = tally[c]
    BY <1>1, <2>1, LiveAre DEF Receipt!Columns
  <2>3. SaidOf' = SaidOf /\ NotSaid' = NotSaid + 1 /\ SaidOf \in Nat /\ NotSaid \in Nat
    BY <2>2, LiveAre DEF SaidOf, NotSaid, Receipt!Columns
  <2> QED
    BY <1>2, <2>1, <2>2, <2>3, LiveAre DEF Tallied, Receipt!Columns
<1>10. CASE f = Receipt!Fate("reused_fail", {"cached", "filtered"}, "rejected")
  <2>1. f.outcome = "reused_fail" /\ f.columns = {"cached", "filtered"}
    BY <1>3, <1>10
  <2>2. /\ tally'["in"] = tally["in"] + 1
        /\ tally'["cached"] = tally["cached"] + 1
        /\ tally'["filtered"] = tally["filtered"] + 1
        /\ \A c \in Receipt!Columns \ {"in", "cached", "filtered"} : tally'[c] = tally[c]
    BY <1>1, <2>1, LiveAre DEF Receipt!Columns
  <2>3. SaidOf' = SaidOf + 1 /\ NotSaid' = NotSaid + 1 /\ SaidOf \in Nat /\ NotSaid \in Nat
    BY <2>2, LiveAre DEF SaidOf, NotSaid, Receipt!Columns
  <2> QED
    BY <1>2, <2>1, <2>2, <2>3, LiveAre DEF Tallied, Receipt!Columns
<1> QED
  BY <1>4, <1>5, <1>6, <1>7, <1>8, <1>9, <1>10 DEF AnyFate

LEMMA PrepareKeeps == ASSUME Receipt!ReceiptAssumption, ReceiptInv, Receipt!Prepare
      PROVE ReceiptInv'
<1>1. Receipt!TypeOK /\ EventsOK /\ Loops /\ Items /\ Receipt!MirrorIsWhereItIs /\ Counts
  BY DEF ReceiptInv
<1>2. PICK r : r = Receipt!First(rtodo)
  OBVIOUS
<1>3. /\ rphase = "preparing" /\ rtodo' = rtodo \ {r}
      /\ rphase' = (IF rtodo' = {} THEN "dispatching" ELSE rphase)
      /\ Receipt!Settle(r) \/ Receipt!Enlist(r)
      /\ UNCHANGED <<rrole, process, arrived, ropen, item, rsaid, stopping, answered, twice>>
  BY <1>2 DEF Receipt!Prepare
<1>4. /\ r \in rtodo /\ r \in Receipt!Records /\ r \in arrived /\ r \notin rwork /\ ropen = {}
      /\ rplace[r] = "before" /\ process # 0 /\ arrived \in SUBSET Receipt!Records
      /\ arrived \ rtodo \in SUBSET Receipt!Records
      /\ (arrived \ rtodo)' = (arrived \ rtodo) \cup {r}
  <2>1. rtodo \in SUBSET Nat /\ rtodo # {}
    BY <1>1, <1>3 DEF Receipt!TypeOK, Receipt!Records, Loops
  <2>2. r \in rtodo
    BY <1>2, <2>1, FirstIs
  <2> QED
    BY <1>1, <1>3, <2>2 DEF Receipt!TypeOK, Loops, InSession
<1>5. Unsettled = {} /\ Unsettled' = {} /\ Cardinality({}) = 0
  BY <1>3, <1>4, FS_EmptySet DEF Unsettled
<1>6. Cardinality((arrived \ rtodo)') = Cardinality(arrived \ rtodo) + 1
  <2>1. r \notin arrived \ rtodo
    BY <1>4
  <2> QED
    BY <1>4, <2>1, MoreCounted
<1>7. /\ Cardinality(rwork) \in Nat /\ Cardinality(mirror.seen) \in Nat
      /\ Cardinality(arrived \ rtodo) \in Nat /\ Counted({"reused_fail"}) \in Nat
      /\ SaidOf \in Nat /\ NotSaid \in Nat /\ tally["in"] \in Nat /\ tally["unconfirmed"] \in Nat
      /\ tally["notsent"] \in Nat
  <2>1. {q \in Receipt!Records : mirror.final[q] \in {"reused_fail"}} \in SUBSET Receipt!Records
        /\ mirror.seen \in SUBSET Receipt!Records /\ rwork \in SUBSET Receipt!Records
    BY <1>1 DEF Receipt!TypeOK, EventsOK
  <2> QED
    BY <1>1, <1>4, <2>1, RecordsFinite, LiveAre DEF Counted, Receipt!TypeOK, SaidOf, NotSaid
<1>8. ASSUME FirstRun'
      PROVE  /\ Columnwise /\ Sums /\ Fresh /\ rphase' # "over"
             /\ mirror.final[r] = "none" /\ r \notin mirror.seen
  BY <1>1, <1>3, <1>4, <1>8 DEF Counts, FirstRun, Fresh
<1>9. CASE Receipt!Enlist(r)
  <2>1. rwork' = rwork \cup {r} /\ UNCHANGED <<mirror, rplace>>
        /\ tally' = [c \in Receipt!Columns |-> tally[c] + IF c \in {"in"} THEN 1 ELSE 0]
    BY <1>9 DEF Receipt!Enlist, Receipt!Bump
  <2>2. /\ tally' \in [Receipt!Columns -> Nat] /\ tally'["in"] = tally["in"] + 1
        /\ \A c \in Receipt!Columns \ {"in"} : tally'[c] = tally[c]
    BY <1>1, <2>1, LiveAre DEF Receipt!TypeOK, Receipt!Columns
  <2>3. Receipt!TypeOK' /\ EventsOK' /\ Loops' /\ Items' /\ Receipt!MirrorIsWhereItIs'
    BY <1>1, <1>3, <1>4, <2>1, <2>2
       DEF Receipt!TypeOK, EventsOK, Loops, Items, Receipt!MirrorIsWhereItIs, InSession
  <2>4. ASSUME FirstRun' PROVE Columnwise' /\ Sums' /\ Fresh'
    <3>1. \A X : Counted(X)' = Counted(X)
      BY <2>1 DEF Counted
    <3>2. Columnwise'
      BY <1>8, <2>2, <2>4, <3>1 DEF Columnwise, Tallied, Receipt!Columns
    <3>3. SaidOf' = SaidOf /\ NotSaid' = NotSaid /\ tally'["unconfirmed"] = tally["unconfirmed"]
          /\ tally'["notsent"] = tally["notsent"]
      BY <2>2 DEF SaidOf, NotSaid, Receipt!Columns
    <3>4. Cardinality(rwork') = Cardinality(rwork) + 1
      BY <1>1, <1>4, <2>1, MoreCounted DEF Receipt!TypeOK
    <3>5. /\ tally["in"] = Cardinality(arrived \ rtodo)
          /\ tally["in"] + Counted({"reused_fail"}) = SaidOf + NotSaid + Cardinality(rwork) + 0
          /\ tally["in"] = Cardinality(mirror.seen) + Cardinality(rwork) + tally["unconfirmed"]
                          + tally["notsent"]
      BY <1>5, <1>8, <2>4 DEF Sums
    <3>6. tally'["in"] + Counted({"reused_fail"})' = SaidOf' + NotSaid' + Cardinality(rwork') + 0
      BY <1>7, <2>2, <3>1, <3>3, <3>4, <3>5
    <3>7. tally'["in"] = Cardinality(mirror.seen) + Cardinality(rwork') + tally'["unconfirmed"]
                          + tally'["notsent"]
      BY <1>7, <2>2, <3>3, <3>4, <3>5
    <3>8. tally'["in"] = Cardinality((arrived \ rtodo)')
      BY <1>6, <2>2, <3>5
    <3>9. Sums'
      BY <1>5, <2>1, <3>6, <3>7, <3>8 DEF Sums
    <3>10. Fresh'
      BY <1>3, <1>4, <1>5, <1>8, <2>1, <2>4, <3>3 DEF Fresh
    <3> QED
      BY <3>2, <3>9, <3>10
  <2> QED
    BY <2>3, <2>4 DEF ReceiptInv, Counts
<1>10. CASE Receipt!Settle(r)
  <2>1. PICK f \in Receipt!Fates :
          /\ Receipt!Bump({"in"} \cup f.columns)
          /\ mirror' = IF f = Receipt!Unconfirmed THEN mirror ELSE Receipt!Read({r}, f.outcome)
          /\ rplace' = [rplace EXCEPT ![r] = f.to]
          /\ rwork' = rwork
    BY <1>10, Zenon DEF Receipt!Settle
  <2>2. f \in AnyFate
    BY DEF Receipt!Fates, AnyFate
  <2>3. /\ f = Receipt!Unconfirmed <=> f.outcome = "none"
        /\ f.outcome \in Outcomes \cup {"untold", "none"}
        /\ f.to \in {"before", "past", "rejected"}
        /\ f.to = "before" <=> f.outcome \in {"untold", "failed", "none"}
        /\ f.to = "rejected" <=> f.outcome = "reused_fail"
        /\ f.outcome \notin {"filtered", "out", "empty"}
    <3>1. CASE f = Receipt!Unconfirmed
      BY <3>1 DEF Receipt!Unconfirmed, Receipt!Fate
    <3>2. CASE f # Receipt!Unconfirmed
      BY <2>2, <3>2 DEF AnyFate, Receipt!Fate, Receipt!Unconfirmed, Outcomes
    <3> QED
      BY <3>1, <3>2
  <2>4. /\ tally' \in [Receipt!Columns -> Nat] /\ tally'["in"] = tally["in"] + 1
        /\ \A c \in Tallied : tally'[c] = tally[c] + One(f.outcome = c)
        /\ tally'["filtered"] = tally["filtered"] + One(f.outcome = "reused_fail")
        /\ tally'["cached"] = tally["cached"] + One(f.outcome \in {"cached", "reused_fail"})
        /\ tally'["notsent"] = tally["notsent"]
        /\ tally'["unconfirmed"] = tally["unconfirmed"] + One(f.outcome = "none")
        /\ SaidOf' + NotSaid' = SaidOf + NotSaid + 1 + One(f.outcome = "reused_fail")
    BY <1>1, <2>1, <2>2, FateCounts DEF Receipt!TypeOK
  <2>5. /\ mirror' \in [seen : SUBSET Receipt!Records,
                        final : [Receipt!Records -> Outcomes \cup {"none"}],
                        stop : Nat, resumed : SUBSET Receipt!Records]
        /\ mirror'.seen = mirror.seen \cup (IF f.outcome = "none" THEN {} ELSE {r})
        /\ mirror'.stop = mirror.stop
        /\ \A q \in Receipt!Records \ {r} : mirror'.final[q] = mirror.final[q]
        /\ mirror'.final[r] = IF f.outcome \in {"untold", "none"} THEN mirror.final[r]
           ELSE f.outcome
    <3>1. CASE f.outcome = "none"
      BY <1>1, <2>1, <2>3, <3>1 DEF EventsOK
    <3>2. CASE f.outcome # "none"
      <4>1. PICK one \in SUBSET Receipt!Records : one = {r}
        BY <1>4
      <4>2. PICK outcome \in Outcomes \cup {"untold"} : outcome = f.outcome
        BY <2>3, <3>2
      <4>3. mirror' = Receipt!Read(one, outcome)
        BY <2>1, <2>3, <3>2, <4>1, <4>2
      <4>4. /\ mirror' \in [seen : SUBSET Receipt!Records,
                            final : [Receipt!Records -> Outcomes \cup {"none"}],
                            stop : Nat, resumed : SUBSET Receipt!Records]
            /\ mirror'.seen = mirror.seen \cup one /\ mirror'.stop = mirror.stop
            /\ \A q \in Receipt!Records : mirror'.final[q] =
                 IF q \in one /\ outcome # "untold" THEN outcome ELSE mirror.final[q]
        <5>1. EventsOK
          BY <1>1
        <5> QED
          BY <4>3, <5>1, ReadIs
      <4> QED
        BY <1>4, <3>2, <4>1, <4>2, <4>4
    <3> QED
      BY <3>1, <3>2
  <2>6. /\ rplace' \in [Receipt!Records -> {"before", "past", "rejected"}] /\ rplace'[r] = f.to
        /\ \A q \in Receipt!Records \ {r} : rplace'[q] = rplace[q]
    BY <1>1, <1>4, <2>1, <2>3 DEF Receipt!TypeOK
  <2>7. Receipt!TypeOK' /\ EventsOK'
    <3>1. mirror'.seen \subseteq Receipt!Records /\ mirror'.resumed \subseteq Receipt!Records
      BY <2>5
    <3> QED
      BY <1>1, <1>3, <2>1, <2>4, <2>5, <2>6, <3>1 DEF Receipt!TypeOK, EventsOK
  <2>8. Loops'
    <3>1. \A q \in rtodo' \cup rwork' : q # r /\ q \in Receipt!Records /\ q \in rtodo \cup rwork
      BY <1>1, <1>3, <1>4, <2>1 DEF Receipt!TypeOK
    <3> QED
      BY <1>1, <1>3, <1>4, <2>1, <2>6, <3>1 DEF Loops, InSession
  <2>9. Items'
    BY <1>3, <1>4 DEF Items
  <2>10. Receipt!MirrorIsWhereItIs'
    <3>1. ASSUME NEW q \in Receipt!Records \ twice' PROVE MirrorOf(q)'
      <4>1. MirrorOf(q) /\ (q \in twice' <=> q \in twice)
        BY <1>1, <1>3 DEF Receipt!MirrorIsWhereItIs, MirrorOf
      <4>2. CASE q # r
        <5>1. rplace'[q] = rplace[q] /\ mirror'.final[q] = mirror.final[q]
          BY <2>5, <2>6, <4>2
        <5> QED
          BY <4>1, <5>1 DEF MirrorOf
      <4>3. CASE q = r
        <5>1. mirror.final[r] \in {"none", "failed"}
          BY <1>3, <1>4, <3>1, <4>1, <4>3 DEF MirrorOf
        <5> QED
          BY <2>3, <2>5, <2>6, <4>3, <5>1 DEF MirrorOf
      <4> QED
        BY <4>2, <4>3
    <3> QED
      BY <3>1 DEF Receipt!MirrorIsWhereItIs, MirrorOf
  <2>11. ASSUME FirstRun' PROVE Columnwise' /\ Sums' /\ Fresh'
    <3>1. \A X \in SUBSET Outcomes : Counted(X)' = Counted(X) + One(f.outcome \in X)
      <4>1. CASE f.outcome = "none"
        <5>1. mirror' = mirror
          BY <2>1, <2>3, <4>1
        <5>2. ASSUME NEW X \in SUBSET Outcomes
              PROVE Counted(X)' = Counted(X) + One(f.outcome \in X)
          <6>1. {q \in Receipt!Records : mirror.final[q] \in X} \in SUBSET Receipt!Records
            OBVIOUS
          <6>2. Counted(X) \in Nat /\ Counted(X)' = Counted(X)
            BY <5>1, <6>1, RecordsFinite DEF Counted
          <6>3. f.outcome \notin X
            BY <4>1 DEF Outcomes
          <6> QED
            BY <6>2, <6>3 DEF One
        <5> QED
          BY <5>2
      <4>2. CASE f.outcome # "none"
        <5>1. PICK outcome \in Outcomes \cup {"untold"} : outcome = f.outcome
          BY <2>3, <4>2
        <5>2. mirror' = Receipt!Read({r}, outcome)
          BY <2>1, <2>3, <4>2, <5>1
        <5>3. \A X \in SUBSET Outcomes :
                Counted(X)' = Counted(X) + (IF outcome \in X THEN 1 ELSE 0)
          BY <1>1, <1>4, <1>8, <2>11, <5>2, CountOne
        <5> QED
          BY <5>1, <5>3 DEF One
      <4> QED
        BY <4>1, <4>2
    <3>2. Columnwise'
      <4>1. ASSUME NEW c \in Tallied PROVE tally'[c] = Counted({c})'
        <5>1. {c} \in SUBSET Outcomes /\ (f.outcome \in {c} <=> f.outcome = c)
          BY DEF Tallied, Outcomes
        <5>2. Counted({c})' = Counted({c}) + One(f.outcome = c)
          BY <3>1, <5>1 DEF One
        <5> QED
          BY <1>8, <2>4, <2>11, <5>2 DEF Columnwise
      <4>2. /\ Counted({"filtered", "reused_fail"})' =
                 Counted({"filtered", "reused_fail"}) + One(f.outcome = "reused_fail")
            /\ Counted({"cached", "reused_fail"})' =
                 Counted({"cached", "reused_fail"}) + One(f.outcome \in {"cached", "reused_fail"})
        <5>1. /\ {"filtered", "reused_fail"} \in SUBSET Outcomes
              /\ {"cached", "reused_fail"} \in SUBSET Outcomes
              /\ f.outcome \in {"filtered", "reused_fail"} <=> f.outcome = "reused_fail"
          BY <2>3 DEF Outcomes
        <5> QED
          BY <3>1, <5>1 DEF One
      <4> QED
        BY <1>8, <2>4, <2>11, <4>1, <4>2 DEF Columnwise
    <3>3. Counted({"reused_fail"})' = Counted({"reused_fail"}) + One(f.outcome = "reused_fail")
      <4>1. {"reused_fail"} \in SUBSET Outcomes
            /\ (f.outcome \in {"reused_fail"} <=> f.outcome = "reused_fail")
        BY DEF Outcomes
      <4> QED
        BY <3>1, <4>1 DEF One
    <3>4. Cardinality(mirror'.seen) = Cardinality(mirror.seen) + 1 - One(f.outcome = "none")
      <4>1. CASE f.outcome = "none"
        <5>1. mirror'.seen = mirror.seen
          BY <2>5, <4>1
        <5> QED
          BY <1>7, <4>1, <5>1 DEF One
      <4>2. CASE f.outcome # "none"
        <5>1. mirror'.seen = mirror.seen \cup {r} /\ mirror.seen \in SUBSET Receipt!Records
          BY <1>1, <2>5, <4>2 DEF EventsOK
        <5>2. Cardinality(mirror.seen \cup {r}) = Cardinality(mirror.seen) + 1
          BY <1>4, <1>8, <2>11, <5>1, MoreCounted
        <5> QED
          BY <1>7, <4>2, <5>1, <5>2 DEF One
      <4> QED
        BY <4>1, <4>2
    <3>5. /\ tally["in"] = Cardinality(arrived \ rtodo)
          /\ tally["in"] + Counted({"reused_fail"}) = SaidOf + NotSaid + Cardinality(rwork) + 0
          /\ tally["in"] = Cardinality(mirror.seen) + Cardinality(rwork) + tally["unconfirmed"]
                          + tally["notsent"]
      BY <1>5, <1>8, <2>11 DEF Sums
    <3>6. One(f.outcome = "reused_fail") \in Nat /\ One(f.outcome = "none") \in Nat
      BY DEF One
    <3>7. SaidOf' \in Nat /\ NotSaid' \in Nat
      <4>1. /\ tally'["out"] \in Nat /\ tally'["empty"] \in Nat /\ tally'["filtered"] \in Nat
            /\ tally'["failed"] \in Nat /\ tally'["gated"] \in Nat /\ tally'["skipped"] \in Nat
            /\ tally'["cached"] \in Nat /\ tally'["already_delivered"] \in Nat
            /\ tally'["unconfirmed"] \in Nat /\ tally'["inflight"] \in Nat
            /\ tally'["notsent"] \in Nat
        BY <2>4 DEF Receipt!Columns
      <4> QED
        BY <4>1 DEF SaidOf, NotSaid
    <3>8. tally'["in"] + Counted({"reused_fail"})' = SaidOf' + NotSaid' + Cardinality(rwork) + 0
      BY <1>7, <2>4, <3>3, <3>5, <3>6, <3>7
    <3>9. tally'["in"] = Cardinality(mirror'.seen) + Cardinality(rwork) + tally'["unconfirmed"]
                          + tally'["notsent"]
      BY <1>7, <2>4, <3>4, <3>5, <3>6
    <3>10. tally'["in"] = Cardinality((arrived \ rtodo)')
      BY <1>6, <2>4, <3>5
    <3>11. Sums'
      BY <1>5, <2>1, <3>8, <3>9, <3>10 DEF Sums
    <3>12. Fresh'
      <4>1. \A q \in rtodo' \cup rwork' : q # r /\ q \in Receipt!Records /\ q \in rtodo \cup rwork
        BY <1>1, <1>3, <1>4, <2>1 DEF Receipt!TypeOK
      <4>2. \A q \in rtodo' \cup rwork' : q \notin mirror'.seen /\ mirror'.final[q] = "none"
        <5>1. \A q \in rtodo \cup rwork : q \notin mirror.seen /\ mirror.final[q] = "none"
          BY <1>8, <2>11 DEF Fresh
        <5>2. \A q \in Receipt!Records \ {r} : q \notin mirror.seen => q \notin mirror'.seen
          BY <2>5
        <5> QED
          BY <2>5, <4>1, <5>1, <5>2
      <4>3. rphase' # "over" /\ mirror'.stop = 0 /\ tally'["notsent"] = 0
        BY <1>3, <1>8, <2>4, <2>5, <2>11 DEF Fresh
      <4>4. ropen' = {} /\ Unsettled' = {}
        BY <1>3, <1>4, <1>5
      <4> QED
        BY <4>2, <4>3, <4>4 DEF Fresh
    <3> QED
      BY <3>2, <3>11, <3>12
  <2> QED
    BY <2>7, <2>8, <2>9, <2>10, <2>11 DEF ReceiptInv, Counts
<1> QED
  BY <1>3, <1>9, <1>10

LEMMA ReceiptNext == ASSUME Receipt!ReceiptAssumption, ReceiptInv,
      [Receipt!Next]_(Receipt!rvars) PROVE ReceiptInv'
<1>1. CASE UNCHANGED Receipt!rvars
  <2>1. UNCHANGED <<rrole, rphase, process, arrived, rplace, rtodo, rwork, ropen, item, rsaid,
        stopping,
                    tally, mirror, answered, twice>>
    BY <1>1 DEF Receipt!rvars
  <2>2. /\ Receipt!TypeOK' <=> Receipt!TypeOK
        /\ EventsOK' <=> EventsOK
        /\ Loops' <=> Loops
        /\ Items' <=> Items
        /\ Receipt!MirrorIsWhereItIs' <=> Receipt!MirrorIsWhereItIs
    BY <2>1 DEF Receipt!TypeOK, EventsOK, Loops, Items, ItemOf, Receipt!Settled, Receipt!Is,
          Receipt!MirrorIsWhereItIs
  <2>3. Counts' <=> Counts
    BY <2>1 DEF Counts, FirstRun, Columnwise, Sums, Fresh, Counted, SaidOf, NotSaid, Unsettled,
       NotSent
  <2> QED
    BY <2>2, <2>3 DEF ReceiptInv
<1> QED
  BY <1>1, StartKeeps, PrepareKeeps, DispatchKeeps, PendingKeeps, EndsKeeps, InterruptKeeps,
     WrapKeeps, FinishKeeps, KillKeeps, HearKeeps DEF Receipt!Next

(* The receipt's invariant in every behaviour of it.                       *)
THEOREM ReceiptInvariance ==
  ASSUME Receipt!ReceiptAssumption PROVE Receipt!Spec => []ReceiptInv
<1>1. Receipt!Init => ReceiptInv
  BY ReceiptInit
<1>2. ReceiptInv /\ [Receipt!Next]_(Receipt!rvars) => ReceiptInv'
  BY ReceiptNext
<1> QED
  BY <1>1, <1>2, PTL DEF Receipt!Spec

(* The counters a step's only process bumped and the line gtme runs        *)
(* rebuilds from the events say the same, and that line has each record    *)
(* where the ledger has it (step.go, mirror.go, ADR-064).                  *)
THEOREM ReceiptIsTrue ==
  ASSUME Receipt!ReceiptAssumption PROVE Receipt!Spec => []Receipt!ReceiptHolds
<1>1. ReceiptInv => Receipt!ReceiptHolds
  BY ReceiptKept
<1> QED
  BY <1>1, ReceiptInvariance, PTL

-----------------------------------------------------------------------------
(* Instantly.                                                              *)

(* What Instantly counts is what the theorems about finite sets count.     *)
LEMMA LeadsCounted ==
  ASSUME NEW S
  PROVE  Instantly!Cardinality(S) = Cardinality(S)
BY Zenon DEF Instantly!Cardinality, Cardinality

Reading == Instantly!Readable({"active", "paused", "unread"})
Verdicts == {"none", "confirmed", "contradicted", "inconclusive"}

(* A lead is of a record, made under a reading of the campaign that did not  *)
(* block, of all the texts the record has; or it was there before.           *)
Rightly(lead) ==
  /\ Instantly!OneTargetEach /\ ~Instantly!Blocked(lead.under)
  /\ lead.sent \in Instantly!Bodies(lead.of)
Added(lead) ==
  /\ lead.of \in Records /\ lead.under \in Reading
  /\ lead.under = Instantly!Unread \/ Rightly(lead)

LeadsAdded == leads = [i \in 1 .. Len(leads) |-> leads[i]] /\ Len(leads) \in Nat
              /\ \A i \in DOMAIN leads : Added(leads[i])

(* A session that sends read a campaign that does not block.               *)
SeenPasses ==
  /\ seen \in Reading
  /\ lphase = "sending" => Instantly!OneTargetEach /\ ~Instantly!Blocked(seen)

(* The record at hand, what was made of it, the lead that answered.         *)
InHand ==
  Instantly!Asked => /\ lphase = "sending"
                     /\ lat.sent \in Instantly!Bodies(lat.record)
                     /\ lat.lead # 0 => lat.lead \in Instantly!Known(lat.record)
                     /\ lat.record \notin lacked => lat.lead = 0

Sends(r) == {i \in Instantly!Known(r) : DOMAIN leads[i].sent # {}}
Once ==
  /\ \A r \in lacked : Instantly!Known(r) # {}
  /\ \A r \in Records : 
       IF skip THEN Cardinality(Sends(r)) <= 1
       ELSE Cardinality(Sends(r)) <= llost + (IF r \in lacked THEN 1 ELSE 0)

InstantlyInv == /\ Instantly!TypeOK /\ Instantly!AttestIsTrue /\ llost \in Nat
                /\ LeadsAdded /\ SeenPasses /\ InHand /\ Once

(* The mapping is the step's: what it means of leads and readings stays.   *)
LEMMA MappingStays ==
  ASSUME mapping' = mapping
  PROVE  /\ Instantly!OneTargetEach' <=> Instantly!OneTargetEach
         /\ \A r : Instantly!Bodies(r)' = Instantly!Bodies(r)
         /\ \A c : Instantly!Blocked(c)' <=> Instantly!Blocked(c)
         /\ Instantly!Dealt' = Instantly!Dealt
         /\ \A lead : Added(lead)' <=> Added(lead)
<1>1. Instantly!OneTargetEach' <=> Instantly!OneTargetEach
  BY DEF Instantly!OneTargetEach, Instantly!Slot
<1>2. \A r : Instantly!Bodies(r)' = Instantly!Bodies(r)
  BY DEF Instantly!Bodies, Instantly!Slot
<1>3. \A c : Instantly!Blocked(c)' <=> Instantly!Blocked(c)
  BY DEF Instantly!Blocked, Instantly!Customs, Instantly!Referenced, Instantly!InStep,
         Instantly!Carries, Instantly!VariantLacks, Instantly!Fills
<1>4. Instantly!Dealt' = Instantly!Dealt
  BY DEF Instantly!Dealt
<1> QED
  BY <1>1, <1>2, <1>3, <1>4 DEF Added, Rightly, Reading, Instantly!Readable

(* Of two targets of one lead field there is none: a body is one.          *)
LEMMA BodyIs ==
  ASSUME Instantly!OneTargetEach, NEW r, NEW body \in Instantly!Bodies(r)
  PROVE  /\ \A t \in DOMAIN mapping :
              Values[r][mapping[t]] = "text" <=> Instantly!Slot(t) \in DOMAIN body
         /\ \A t \in DOMAIN mapping :
              Instantly!Slot(t) \in DOMAIN body => body[Instantly!Slot(t)] = mapping[t]
         /\ \A s \in DOMAIN body : \E t \in DOMAIN mapping : s = Instantly!Slot(t)
<1> DEFINE said == {t \in DOMAIN mapping : Values[r][mapping[t]] = "text"}
<1>1. /\ DOMAIN body = {Instantly!Slot(t) : t \in said}
      /\ \A s \in DOMAIN body : \E t \in said : Instantly!Slot(t) = s /\ body[s] = mapping[t]
  BY DEF Instantly!Bodies
<1> QED
  BY <1>1 DEF Instantly!OneTargetEach

LEMMA UnreadIs == Instantly!Unread \in Reading /\ ~Instantly!Blocked(Instantly!Unread)
                  /\ Len(Instantly!Unread.steps) = 0
                  /\ Instantly!Unread.status # "paused" /\ DOMAIN Instantly!Unread.steps = {}
BY DEF Instantly!Unread, Reading, Instantly!Readable, Instantly!Blocked, Instantly!Nothing

(* An added lead has no hole in the emails its session read.               *)
LEMMA NoHoleIn ==
  ASSUME Instantly!InstantlyAssumption, mapping \in Mappings, NEW lead, Added(lead)
  PROVE  /\ lead.under.status # "paused"
         /\ \A n \in DOMAIN lead.under.steps : \A v \in DOMAIN lead.under.steps[n] :
              \A x \in lead.under.steps[n][v] \cap (CheckedTags \cup Instantly!Customs) :
                x \in DOMAIN lead.sent \/ Instantly!NotText(lead.of, x)
         /\ lead.under.steps # Instantly!Nothing =>
              \A t \in Instantly!Customs :
                IF StepIndex[t] = 0 THEN Instantly!Referenced(lead.under, t)
                ELSE /\ StepIndex[t] <= Len(lead.under.steps)
                     /\ \/ Instantly!Elsewhere(lead.under, t)
                        \/ \A v \in DOMAIN lead.under.steps[StepIndex[t]] :
                             t \in lead.under.steps[StepIndex[t]][v]
<1>1. CASE lead.under = Instantly!Unread
  BY <1>1, UnreadIs DEF Instantly!Unread
<1>2. CASE Rightly(lead)
  <2>1. /\ Instantly!OneTargetEach /\ ~Instantly!Blocked(lead.under)
        /\ lead.sent \in Instantly!Bodies(lead.of)
        /\ lead.under \in Reading
    BY <1>2 DEF Rightly, Added
  <2>2. lead.under.status # "paused"
    BY <2>1 DEF Instantly!Blocked
  <2> DEFINE steps == lead.under.steps
  <2>3. steps \in Seq(Seq(SUBSET STRING))
    BY <2>1 DEF Reading, Instantly!Readable
  <2>4. ASSUME NEW n \in DOMAIN steps, NEW v \in DOMAIN steps[n],
               NEW x \in steps[n][v] \cap (CheckedTags \cup Instantly!Customs)
        PROVE  x \in DOMAIN lead.sent \/ Instantly!NotText(lead.of, x)
    <3>1. \E t \in DOMAIN mapping : Instantly!Slot(t) = x
      <4>1. CASE x \in Instantly!Customs
        BY <4>1 DEF Instantly!Customs, Instantly!Slot
      <4>2. CASE x \in CheckedTags
        <5>1. Instantly!Referenced(lead.under, x)
          BY DEF Instantly!Referenced, Instantly!InStep, Instantly!Carries
        <5>2. steps # Instantly!Nothing
          BY DEF Instantly!Nothing
        <5>3. Instantly!Fills(x)
          BY <2>1, <4>2, <5>1, <5>2 DEF Instantly!Blocked
        <5> QED
          BY <4>2, <5>3 DEF Instantly!Fills, Instantly!Slot, Instantly!InstantlyAssumption
      <4> QED
        BY <4>1, <4>2
    <3> QED
      BY <2>1, <3>1, BodyIs DEF Instantly!NotText
  <2>5. ASSUME steps # Instantly!Nothing, NEW t \in Instantly!Customs
        PROVE  IF StepIndex[t] = 0 THEN Instantly!Referenced(lead.under, t)
               ELSE /\ StepIndex[t] <= Len(steps)
                    /\ \/ Instantly!Elsewhere(lead.under, t)
                       \/ \A v \in DOMAIN steps[StepIndex[t]] : t \in steps[StepIndex[t]][v]
    <3>1. /\ Instantly!Referenced(lead.under, t) /\ ~Instantly!VariantLacks(lead.under, t)
          /\ ~(StepIndex[t] > Len(steps))
      BY <2>1, <2>5 DEF Instantly!Blocked, Instantly!Customs
    <3>2. StepIndex[t] \in Nat
      BY DEF Instantly!InstantlyAssumption, Instantly!Customs
    <3>3. CASE StepIndex[t] # 0
      <4>1. StepIndex[t] \in DOMAIN steps /\ Len(steps) \in Nat
        BY <2>3, <3>1, <3>2, <3>3
      <4>2. steps[StepIndex[t]] \in Seq(SUBSET STRING)
        BY <2>3, <4>1
      <4>3. Len(steps[StepIndex[t]]) \in Nat
            /\ DOMAIN steps[StepIndex[t]] = 1 .. Len(steps[StepIndex[t]])
        BY <4>2
      <4>4. \/ ~(Len(steps[StepIndex[t]]) > 1)
            \/ \A v \in DOMAIN steps[StepIndex[t]] : t \in steps[StepIndex[t]][v]
        BY <3>1, <4>1 DEF Instantly!VariantLacks, Instantly!Carries
      <4>5. StepIndex[t] <= Len(steps)
        BY <3>1, <3>2, <4>1
      <4>6. CASE Len(steps[StepIndex[t]]) = 1
        BY <3>1, <3>3, <4>5, <4>6 DEF Instantly!Elsewhere
      <4>7. CASE Len(steps[StepIndex[t]]) # 1
        <5>1. \A v \in DOMAIN steps[StepIndex[t]] : t \in steps[StepIndex[t]][v]
          <6>1. Len(steps[StepIndex[t]]) # 0 => Len(steps[StepIndex[t]]) > 1
            <7>1. \A k \in Nat : k # 0 /\ k # 1 => k > 1
              OBVIOUS
            <7> QED
              BY <4>3, <4>7, <7>1
          <6>2. Len(steps[StepIndex[t]]) = 0 => DOMAIN steps[StepIndex[t]] = {}
            BY <4>3
          <6> QED
            BY <4>4, <6>1, <6>2
        <5> QED
          BY <3>3, <4>5, <5>1
      <4> QED
        BY <4>6, <4>7
    <3> QED
      BY <3>1, <3>3
  <2> QED
    BY <2>2, <2>4, <2>5
<1> QED
  BY <1>1, <1>2 DEF Added

(* What stays with the leads.                                              *)
LEMMA LeadsStay ==
  ASSUME UNCHANGED <<mapping, skip, leads>>
  PROVE  /\ LeadsAdded => LeadsAdded'
         /\ UNCHANGED <<llost, lacked>> => (Once => Once')
         /\ UNCHANGED attested => (Instantly!AttestIsTrue => Instantly!AttestIsTrue')
<1>1. LeadsAdded => LeadsAdded'
  <2>1. \A i : Added(leads[i]) => Added(leads[i])'
    BY MappingStays
  <2> QED
    BY <2>1 DEF LeadsAdded
<1>2. \A r : Instantly!Known(r)' = Instantly!Known(r) /\ Sends(r)' = Sends(r)
  BY DEF Instantly!Known, Sends
<1>3. UNCHANGED <<llost, lacked>> => (Once => Once')
  BY <1>2 DEF Once
<1>4. \A r, lead : Instantly!HoldsAll(r, lead)' <=> Instantly!HoldsAll(r, lead)
  BY DEF Instantly!HoldsAll, Instantly!NotText, Instantly!Slot
<1>5. UNCHANGED attested => (Instantly!AttestIsTrue => Instantly!AttestIsTrue')
  BY <1>2, <1>4 DEF Instantly!AttestIsTrue
<1> QED
  BY <1>1, <1>3, <1>5

(* What a lead more changes.                                               *)
LEMMA LeadsGrow ==
  ASSUME LeadsAdded, UNCHANGED mapping, NEW lead, Added(lead), leads' = Append(leads, lead)
  PROVE  /\ LeadsAdded'
         /\ Len(leads)' = Len(leads) + 1
         /\ \A q : Instantly!Known(q)' =
                    Instantly!Known(q) \cup (IF q = lead.of THEN {Len(leads) + 1} ELSE {})
         /\ \A q : Sends(q)' = Sends(q) \cup (IF q = lead.of /\ DOMAIN lead.sent # {}
                                              THEN {Len(leads) + 1} ELSE {})
         /\ \A q : IsFiniteSet(Sends(q))
         /\ UNCHANGED attested => (Instantly!AttestIsTrue => Instantly!AttestIsTrue')
<1>1. /\ Len(leads) \in Nat /\ DOMAIN leads = 1 .. Len(leads)
      /\ \A i \in DOMAIN leads : Added(leads[i])
  BY DEF LeadsAdded
<1>2. /\ Len(leads') = Len(leads) + 1 /\ DOMAIN leads' = 1 .. Len(leads) + 1
      /\ \A i \in DOMAIN leads : leads'[i] = leads[i]
      /\ leads'[Len(leads) + 1] = lead
      /\ leads' = [i \in 1 .. Len(leads) + 1 |-> leads'[i]]
  <2>1. leads = [i \in 1 .. Len(leads) |-> leads[i]]
    BY DEF LeadsAdded
  <2> DEFINE S == {leads[i] : i \in 1 .. Len(leads)} \cup {lead}
  <2>2. leads \in Seq(S) /\ lead \in S
    <3>1. \A i \in 1 .. Len(leads) : leads[i] \in S
      OBVIOUS
    <3> HIDE DEF S
    <3>2. leads \in [1 .. Len(leads) -> S]
      BY <2>1, <3>1
    <3> QED
      BY <1>1, <3>2, SeqDef DEF S
  <2> HIDE DEF S
  <2>3. /\ Append(leads, lead) \in Seq(S) /\ Len(Append(leads, lead)) = Len(leads) + 1
        /\ \A i \in 1 .. Len(leads) : Append(leads, lead)[i] = leads[i]
        /\ Append(leads, lead)[Len(leads) + 1] = lead
    BY <2>2, AppendProperties
  <2>4. leads' = [i \in 1 .. Len(leads') |-> leads'[i]] /\ DOMAIN leads' = 1 .. Len(leads')
    BY <2>3, LenProperties
  <2> QED
    BY <1>1, <2>3, <2>4
<1>3. LeadsAdded'
  <2>1. \A i \in DOMAIN leads' : Added(leads'[i])
    BY <1>1, <1>2
  <2>2. \A x : Added(x)' <=> Added(x)
    BY MappingStays
  <2> QED
    BY <1>1, <1>2, <2>1, <2>2 DEF LeadsAdded
<1>4. \A q : Instantly!Known(q)' =
              Instantly!Known(q) \cup (IF q = lead.of THEN {Len(leads) + 1} ELSE {})
  BY <1>1, <1>2 DEF Instantly!Known
<1>5. \A q : Sends(q)' = Sends(q) \cup (IF q = lead.of /\ DOMAIN lead.sent # {}
                                        THEN {Len(leads) + 1} ELSE {})
  BY <1>1, <1>2 DEF Sends, Instantly!Known
<1>6. ASSUME NEW q PROVE IsFiniteSet(Sends(q))
  <2>1. IsFiniteSet(1 .. Len(leads)) /\ Sends(q) \subseteq 1 .. Len(leads)
    BY <1>1, FS_Interval DEF Sends, Instantly!Known
  <2> QED
    BY <2>1, FS_Subset
<1>7. ASSUME UNCHANGED attested, Instantly!AttestIsTrue PROVE Instantly!AttestIsTrue'
  <2>1. \A q : /\ Instantly!Known(q) \subseteq Instantly!Known(q)'
              /\ \A i \in Instantly!Known(q) : leads'[i] = leads[i]
    BY <1>2, <1>4 DEF Instantly!Known
  <2>2. \A r, l : Instantly!HoldsAll(r, l)' <=> Instantly!HoldsAll(r, l)
    BY DEF Instantly!HoldsAll, Instantly!NotText, Instantly!Slot
  <2> QED
    BY <1>7, <2>1, <2>2 DEF Instantly!AttestIsTrue
<1> QED
  BY <1>2, <1>3, <1>4, <1>5, <1>6, <1>7

LEMMA InstantlyInit == ASSUME Instantly!InstantlyAssumption, Instantly!Init PROVE InstantlyInv
<1>1. PICK first \in {{}} \cup {{r} : r \in Records} :
        leads = [i \in 1..Cardinality(first) |->
                   [of |-> CHOOSE r \in first : TRUE, sent |-> Instantly!Nothing,
                    stored |-> Instantly!Nothing, under |-> Instantly!Unread]]
  BY LeadsCounted DEF Instantly!Init
<1>2. /\ Cardinality(first) \in {0, 1}
      /\ \A i \in 1 .. Cardinality(first) : (CHOOSE r \in first : TRUE) \in Records
  <2>1. CASE first = {}
    BY <2>1, FS_EmptySet
  <2>2. ASSUME NEW r \in Records, first = {r} PROVE <1>2
    <3>1. Cardinality(first) = 1 /\ (CHOOSE q \in first : TRUE) \in first
      BY <2>2, FS_Singleton
    <3> QED
      BY <2>2, <3>1
  <2> QED
    BY <2>1, <2>2
<1>3. Len(leads) = Cardinality(first) /\ DOMAIN leads = 1 .. Len(leads)
  BY <1>1, <1>2
<1>4. LeadsAdded
  BY <1>1, <1>2, <1>3, UnreadIs DEF LeadsAdded, Added
<1>5. \A r : Sends(r) = {}
  BY <1>1, <1>2, <1>3 DEF Sends, Instantly!Known, Instantly!Nothing
<1>6. Once
  <2>1. \A r : Cardinality(Sends(r)) = 0
    BY <1>5, FS_EmptySet
  <2> QED
    BY <2>1 DEF Instantly!Init, Once
<1>7. Instantly!TypeOK
  <2>1. lat.record = "none" /\ lat.lead = 0 /\ 0 \in 0 .. Len(leads) /\ 0 \in 0 .. LeadSessions
    <3>1. LeadSessions \in Nat
      BY DEF Instantly!InstantlyAssumption
    <3>2. lat.record = "none" /\ lat.lead = 0
      BY DEF Instantly!Init, Instantly!Nobody
    <3>3. 0 \in 0 .. Len(leads)
      BY <1>2, <1>3
    <3> QED
      BY <3>1, <3>2, <3>3
  <2> QED
    BY <2>1 DEF Instantly!Init, Instantly!TypeOK, Instantly!InstantlyAssumption
<1> QED
  BY <1>4, <1>6, <1>7, UnreadIs
     DEF Instantly!Init, InstantlyInv, SeenPasses, InHand, Instantly!Asked, Instantly!Nobody,
         Instantly!AttestIsTrue, Instantly!InstantlyAssumption

LEMMA InstantlyNext ==
  ASSUME Instantly!InstantlyAssumption, InstantlyInv,
         [Instantly!Next]_(Instantly!instantlyVars)
  PROVE  InstantlyInv'
<1>t. /\ mapping \in Mappings /\ {checks, skip} \subseteq BOOLEAN /\ campaign \in Campaigns
      /\ room \in Nat /\ lat.record \in Records \cup {"none"} /\ lat.lead \in 0..Len(leads)
      /\ lphase \in {"planned", "refused", "blocked", "sending", "failed", "stopped", "done"}
      /\ lacked \subseteq Records /\ lsessions \in 0..LeadSessions /\ llost \in Nat
      /\ attested \in [Records -> {"none", "confirmed", "contradicted", "inconclusive"}]
      /\ LeadSessions \in Nat /\ "none" \notin Records
  BY DEF InstantlyInv, Instantly!TypeOK, Instantly!InstantlyAssumption
<1>i. LeadsAdded /\ SeenPasses /\ InHand /\ Once /\ Instantly!AttestIsTrue
  BY DEF InstantlyInv
<1>n. Len(leads) \in Nat /\ DOMAIN leads = 1 .. Len(leads)
  BY <1>i DEF LeadsAdded
<1>1. CASE Instantly!Preflight
  <2>1. /\ UNCHANGED <<mapping, checks, skip, campaign, room, leads, lat, lacked, attested, llost>>
        /\ lphase = "planned" /\ lsessions' \in 0 .. LeadSessions
    BY <1>1, <1>t DEF Instantly!Preflight
  <2>2. /\ seen' \in Instantly!Readings \cup {Instantly!Unread}
        /\ lphase' \in {"refused", "blocked", "sending"}
        /\ lphase' = "sending" => Instantly!OneTargetEach /\ ~Instantly!Blocked(seen')
    BY <1>1, UnreadIs DEF Instantly!Preflight, Instantly!Verdict
  <2>3. Instantly!Readings \cup {Instantly!Unread} \subseteq Reading
    <3>1. PICK texts : texts = Seq(Seq(SUBSET STRING))
      OBVIOUS
    <3>2. Reading = [status : {"active", "paused", "unread"}, steps : texts]
      BY <3>1 DEF Reading, Instantly!Readable
    <3>3. campaign \in [status : {"active", "paused"}, steps : texts]
      BY <1>t, <3>1 DEF Instantly!InstantlyAssumption, Instantly!Readable
    <3>4. Instantly!Nothing \in texts
      BY <3>1 DEF Instantly!Nothing
    <3> QED
      BY <3>2, <3>3, <3>4, UnreadIs DEF Instantly!Readings
  <2>4. ~Instantly!Asked
    BY <1>i, <2>1 DEF InHand
  <2>5. SeenPasses'
    BY <2>1, <2>2, <2>3, MappingStays DEF SeenPasses, Reading, Instantly!Readable
  <2>6. Instantly!TypeOK'
    BY <1>t, <2>1, <2>2 DEF Instantly!TypeOK
  <2>7. LeadsAdded' /\ Once' /\ Instantly!AttestIsTrue' /\ InHand'
    BY <1>i, <2>1, <2>4, LeadsStay DEF InHand, Instantly!Asked
  <2> QED
    BY <1>t, <2>1, <2>5, <2>6, <2>7 DEF InstantlyInv
<1>2. ASSUME NEW r \in Records, Instantly!TakeUp(r) PROVE InstantlyInv'
  <2>1. /\ UNCHANGED <<mapping, checks, skip, campaign, room, leads, lphase, seen, lacked, attested,
                       lsessions, llost>>
        /\ lphase = "sending" /\ r \notin lacked
    BY <1>2 DEF Instantly!TakeUp
  <2>2. PICK body \in Instantly!Bodies(r) : lat' = [record |-> r, sent |-> body, lead |-> 0]
    BY <1>2 DEF Instantly!TakeUp
  <2>3. InHand'
    BY <2>1, <2>2, MappingStays DEF InHand
  <2>4. Instantly!TypeOK'
    BY <1>t, <2>1, <2>2 DEF Instantly!TypeOK
  <2>5. LeadsAdded' /\ Once' /\ Instantly!AttestIsTrue' /\ SeenPasses'
    BY <1>i, <2>1, LeadsStay, MappingStays DEF SeenPasses, Reading, Instantly!Readable
  <2> QED
    BY <1>t, <2>1, <2>3, <2>4, <2>5 DEF InstantlyInv
<1>3. CASE Instantly!Post
  <2>r. PICK r : r = lat.record
    OBVIOUS
  <2>1. /\ UNCHANGED <<mapping, checks, skip, campaign, seen, attested, lsessions>>
        /\ lphase = "sending" /\ r \in Records /\ r \notin lacked
        /\ lat.sent \in Instantly!Bodies(r)
    BY <1>3, <1>i, <2>r DEF Instantly!Post, Instantly!Asked, InHand
  <2>2. /\ mapping' = mapping /\ SeenPasses'
    BY <1>i, <2>1, MappingStays, <1>3 
       DEF SeenPasses, Reading, Instantly!Readable, Instantly!Post, Instantly!Lost,
           Instantly!Answered
  \* What the request did to the leads.
  <2>3. /\ LeadsAdded' /\ Instantly!AttestIsTrue' /\ room' \in Nat /\ Len(leads)' \in Nat
        /\ Len(leads)' >= Len(leads)
        /\ \A q : Instantly!Known(q) \subseteq Instantly!Known(q)'
        /\ \A q \in Records \ {r} : Sends(q)' = Sends(q)
        /\ Cardinality(Sends(r)') <= IF skip THEN 1 ELSE Cardinality(Sends(r)) + 1
        /\ Cardinality(Sends(r)) \in Nat
        /\ Instantly!Lost \/ \E lead \in Instantly!Known(r)' \cup {0} : Instantly!Answered(lead)
        /\ \A lead \in Instantly!Known(r)' \cup {0} :
             Instantly!Answered(lead) => Instantly!Known(r)' # {}
    <3>1. CASE skip /\ Instantly!Known(r) # {}
      <4>1. /\ UNCHANGED <<leads, room>>
            /\ \/ Instantly!Lost
               \/ \E lead \in Instantly!Known(r) \cup {0} : Instantly!Answered(lead)
        BY <1>3, <2>r, <3>1 DEF Instantly!Post
      <4>2. \A q : Instantly!Known(q)' = Instantly!Known(q) /\ Sends(q)' = Sends(q)
        BY <4>1 DEF Instantly!Known, Sends
      <4>3. Cardinality(Sends(r)) <= 1
        BY <1>i, <2>1, <3>1 DEF Once
      <4>4. Cardinality(Sends(r)) \in Nat
        <5>1. IsFiniteSet(1 .. Len(leads)) /\ Sends(r) \subseteq 1 .. Len(leads)
          BY <1>n, FS_Interval DEF Sends, Instantly!Known
        <5> QED
          BY <5>1, FS_Subset, FS_CardinalityType
      <4>5. LeadsAdded' /\ Instantly!AttestIsTrue'
        BY <1>i, <2>1, <4>1, LeadsStay
      <4>6. /\ Len(leads)' = Len(leads)
            /\ Instantly!Known(r)' = Instantly!Known(r) /\ Instantly!Known(r)' # {}
            /\ Cardinality(Sends(r)') = Cardinality(Sends(r))
        BY <3>1, <4>1, <4>2
      <4> QED
        BY <1>t, <1>n, <3>1, <4>1, <4>2, <4>3, <4>4, <4>5, <4>6
    <3>2. CASE ~(skip /\ Instantly!Known(r) # {})
      <4>1. PICK gone \in {{}} \cup {{s} : s \in DOMAIN lat.sent} :
               leads' = Append(leads, [of |-> r, sent |-> lat.sent, under |-> seen,
                 stored |-> [s \in DOMAIN lat.sent \ gone |-> lat.sent[s]]])
        BY <1>3, <2>r, <3>2 DEF Instantly!Post
      <4> DEFINE lead == [of |-> r, sent |-> lat.sent, under |-> seen,
                          stored |-> [s \in DOMAIN lat.sent \ gone |-> lat.sent[s]]]
      <4>2. /\ room' \in Nat
            /\ Instantly!Lost \/ \E l \in {Len(leads) + 1, 0} : Instantly!Answered(l)
        BY <1>t, <1>3, <2>r, <3>2 DEF Instantly!Post
      <4>3. Added(lead)
        BY <1>i, <2>1 DEF Added, Rightly, SeenPasses
      <4>4. lead.of = r
        OBVIOUS
      <4> HIDE DEF lead
      <4>5. /\ LeadsAdded' /\ Len(leads)' = Len(leads) + 1
            /\ \A q : Instantly!Known(q)' =
                       Instantly!Known(q) \cup (IF q = r THEN {Len(leads) + 1} ELSE {})
            /\ \A q : Sends(q)' = Sends(q) \cup (IF q = r /\ DOMAIN lead.sent # {}
                                              THEN {Len(leads) + 1} ELSE {})
            /\ \A q : IsFiniteSet(Sends(q))
            /\ Instantly!AttestIsTrue'
        BY <1>i, <2>1, <4>1, <4>3, <4>4, LeadsGrow DEF lead
      <4>6. /\ Cardinality(Sends(r)) \in Nat
            /\ Cardinality(Sends(r)') \in {Cardinality(Sends(r)), Cardinality(Sends(r)) + 1}
        <5>1. Sends(r)' \in {Sends(r), Sends(r) \cup {Len(leads) + 1}}
          BY <4>5
        <5>2. Cardinality(Sends(r) \cup {Len(leads) + 1}) \in
                {Cardinality(Sends(r)), Cardinality(Sends(r)) + 1}
          BY <4>5, FS_AddElement
        <5> QED
          BY <4>5, <5>1, <5>2, FS_CardinalityType
      <4>7. skip => Cardinality(Sends(r)) = 0
        <5>1. skip => Sends(r) = {}
          BY <3>2 DEF Sends
        <5> QED
          BY <5>1, FS_EmptySet
      <4>8. /\ Len(leads) + 1 \in Instantly!Known(r)'
            /\ Len(leads)' \in Nat /\ Len(leads)' >= Len(leads)
        BY <1>n, <4>5
      <4>9. Cardinality(Sends(r)') <= IF skip THEN 1 ELSE Cardinality(Sends(r)) + 1
        BY <4>6, <4>7
      <4>10. /\ \A q : Instantly!Known(q) \subseteq Instantly!Known(q)'
             /\ \A q \in Records \ {r} : Sends(q)' = Sends(q)
        BY <4>5
      <4> QED
        BY <4>2, <4>5, <4>6, <4>8, <4>9, <4>10
    <3> QED
      BY <3>1, <3>2
  <2>4. /\ \/ UNCHANGED <<lphase, lat>>
           \/ lphase' = "failed" /\ lat' = Instantly!Nobody
           \/ /\ lphase' = lphase /\ lacked' = lacked \cup {r}
              /\ \E lead \in Instantly!Known(r)' \cup {0} : lat' = [lat EXCEPT !.lead = lead]
        /\ \/ UNCHANGED lacked /\ llost' = llost + 1
           \/ lacked' = lacked \cup {r} /\ llost' = llost /\ Instantly!Known(r)' # {}
    BY <2>r, <2>3 DEF Instantly!Lost, Instantly!Answered
  <2>5. Once'
    <3>1. \A q \in lacked' : Instantly!Known(q)' # {}
      BY <1>i, <2>3, <2>4 DEF Once
    <3>2. ASSUME NEW q \in Records \ {r}
          PROVE  IF skip THEN Cardinality(Sends(q)') <= 1
                 ELSE Cardinality(Sends(q)') <= llost' + (IF q \in lacked' THEN 1 ELSE 0)
      <4>1. /\ Sends(q)' = Sends(q) /\ llost' \in {llost, llost + 1}
            /\ q \in lacked' <=> q \in lacked
        BY <2>3, <2>4
      <4>2. Cardinality(Sends(q)) \in Nat
        <5>1. IsFiniteSet(1 .. Len(leads)) /\ Sends(q) \subseteq 1 .. Len(leads)
          BY <1>n, FS_Interval DEF Sends, Instantly!Known
        <5> QED
          BY <5>1, FS_Subset, FS_CardinalityType
      <4>3. IF skip THEN Cardinality(Sends(q)) <= 1
            ELSE Cardinality(Sends(q)) <= llost + (IF q \in lacked THEN 1 ELSE 0)
        BY <1>i DEF Once
      <4> QED
        BY <1>t, <4>1, <4>2, <4>3
    <3>3. IF skip THEN Cardinality(Sends(r)') <= 1
          ELSE Cardinality(Sends(r)') <= llost' + (IF r \in lacked' THEN 1 ELSE 0)
      <4>1. skip \/ Cardinality(Sends(r)) <= llost
        BY <1>t, <1>i, <2>1 DEF Once
      <4>2. \/ llost' = llost + 1 /\ r \notin lacked'
            \/ llost' = llost /\ r \in lacked'
        BY <2>1, <2>4
      <4>3. Cardinality(Sends(r)') \in Int
        <5>1. IsFiniteSet(1 .. Len(leads)') /\ Sends(r)' \subseteq 1 .. Len(leads)'
          BY <2>3, FS_Interval DEF Sends, Instantly!Known, LeadsAdded
        <5> QED
          BY <5>1, FS_Subset, FS_CardinalityType
      <4> QED
        BY <1>t, <2>3, <4>1, <4>2, <4>3
    <3> QED
      BY <2>1, <3>1, <3>2, <3>3 DEF Once
  <2>6. InHand'
    <3>1. CASE UNCHANGED <<lphase, lat>>
      BY <1>i, <2>r, <2>1, <2>2, <2>3, <2>4, <3>1, MappingStays DEF InHand, Instantly!Asked
    <3>2. CASE lat' = Instantly!Nobody
      BY <1>t, <3>2 DEF InHand, Instantly!Asked, Instantly!Nobody
    <3>3. ASSUME NEW lead \in Instantly!Known(r)' \cup {0}, lat' = [lat EXCEPT !.lead = lead],
                 lphase' = lphase, lacked' = lacked \cup {r}
          PROVE  InHand'
      BY <1>i, <2>r, <2>1, <2>2, <3>3, MappingStays DEF InHand, Instantly!Asked
    <3> QED
      BY <2>4, <3>1, <3>2, <3>3
  <2>7. Instantly!TypeOK'
    <3>1. lat'.record \in Records \cup {"none"} /\ lat'.lead \in 0 .. Len(leads)'
      <4>1. CASE UNCHANGED <<lphase, lat>>
        BY <1>t, <1>n, <2>3, <4>1
      <4>2. CASE lat' = Instantly!Nobody
        BY <1>n, <2>3, <4>2 DEF Instantly!Nobody
      <4>3. ASSUME NEW lead \in Instantly!Known(r)' \cup {0}, lat' = [lat EXCEPT !.lead = lead]
            PROVE  /\ lat'.record \in Records \cup {"none"}
                   /\ lat'.lead \in 0 .. Len(leads)'
        <5>1. Instantly!Known(r)' \subseteq 1 .. Len(leads)'
          BY <2>3 DEF Instantly!Known, LeadsAdded
        <5>2. Len(leads)' \in Nat
          BY <1>n, <2>3
        <5>3. lead \in 0 .. Len(leads)'
          BY <5>1, <5>2
        <5>4. lat'.lead = lead \/ lat' = lat
          BY <4>3
        <5>5. lat'.record = lat.record
          BY <4>3
        <5> QED
          BY <1>t, <1>n, <2>3, <5>2, <5>3, <5>4, <5>5
      <4> QED
        BY <2>4, <4>1, <4>2, <4>3
    <3>2. lacked' \subseteq Records /\ lphase' \in {"sending", "failed"}
      BY <1>t, <2>1, <2>4
    <3> QED
      BY <1>t, <2>1, <2>3, <3>1, <3>2 DEF Instantly!TypeOK
  <2> QED
    BY <1>t, <2>2, <2>3, <2>4, <2>5, <2>6, <2>7 DEF InstantlyInv
<1>4. CASE Instantly!LeadLimit
  <2>1. /\ UNCHANGED <<mapping, checks, skip, campaign, room, leads, seen, lacked, attested,
                        lsessions, llost>>
        /\ lphase' = "stopped" /\ lat' = Instantly!Nobody
    BY <1>4 DEF Instantly!LeadLimit
  <2>2. Instantly!TypeOK'
    BY <1>t, <1>n, <2>1 DEF Instantly!TypeOK, Instantly!Nobody
  <2>3. LeadsAdded' /\ Once' /\ Instantly!AttestIsTrue' /\ SeenPasses' /\ InHand'
    BY <1>t, <1>i, <2>1, LeadsStay, MappingStays
       DEF SeenPasses, Reading, Instantly!Readable, InHand, Instantly!Asked,
           Instantly!Known, Instantly!Nobody
  <2> QED
    BY <1>t, <2>1, <2>2, <2>3 DEF InstantlyInv
<1>5. CASE Instantly!Attest
  <2>r. PICK r : r = lat.record
    OBVIOUS
  <2>1. /\ UNCHANGED <<mapping, checks, skip, campaign, room, leads, lphase, seen, lacked,
                        lsessions, llost>>
        /\ lphase = "sending" /\ r \in Records /\ r \in lacked /\ lat' = Instantly!Nobody
        /\ lat.sent \in Instantly!Bodies(r) /\ Instantly!OneTargetEach
    BY <1>5, <1>i, <2>r DEF Instantly!Attest, Instantly!Asked, InHand, SeenPasses
  <2>2. /\ attested' \in [Records -> Verdicts]
        /\ \A q \in Records \ {r} : attested'[q] = attested[q]
        /\ \/ attested'[r] = "inconclusive"
           \/ /\ lat.lead \in Instantly!Known(r)
              /\ \E readable \in SUBSET DOMAIN lat.sent :
                   attested'[r] = Instantly!Compare(leads[lat.lead], readable)
    <3>1. PICK verdict \in {"inconclusive"} \cup
         (IF lat.lead = 0 THEN {}
          ELSE {Instantly!Compare(leads[lat.lead], readable) :
                  readable \in SUBSET DOMAIN lat.sent}) :
             attested' = [attested EXCEPT ![lat.record] = verdict]
      BY <1>5, Zenon DEF Instantly!Attest
    <3>2. \A lead, readable : Instantly!Compare(lead, readable) \in Verdicts
      BY DEF Instantly!Compare, Verdicts
    <3>3. lat.lead # 0 => lat.lead \in Instantly!Known(r)
      BY <1>i, <2>r, <2>1 DEF InHand, Instantly!Asked
    <3> HIDE DEF Instantly!Compare
    <3>4. verdict \in Verdicts /\ attested'[r] = verdict
      BY <1>t, <2>r, <2>1, <3>1, <3>2 DEF Verdicts
    <3> QED
      BY <1>t, <2>r, <2>1, <3>1, <3>2, <3>3, <3>4 DEF Verdicts
  <2>3. Instantly!TypeOK'
    BY <1>t, <1>n, <2>1, <2>2 DEF Instantly!TypeOK, Instantly!Nobody, Verdicts
  <2>4. Instantly!AttestIsTrue'
    <3>1. \A q, lead : Instantly!HoldsAll(q, lead)' <=> Instantly!HoldsAll(q, lead)
      BY <2>1 DEF Instantly!HoldsAll, Instantly!NotText, Instantly!Slot
    <3>2. \A q : Instantly!Known(q)' = Instantly!Known(q)
      BY <2>1 DEF Instantly!Known
    <3>3. ASSUME NEW lead, NEW readable, Instantly!Compare(lead, readable) = "confirmed"
          PROVE  Instantly!HoldsAll(r, lead)
      <4>1. /\ \A s \in DOMAIN lat.sent \cap readable :
                 s \in DOMAIN lead.stored /\ lead.stored[s] = lat.sent[s]
            /\ DOMAIN lat.sent \subseteq readable
        BY <3>3 DEF Instantly!Compare
      <4>2. \A t \in DOMAIN mapping :
              \/ Values[r][mapping[t]] # "text"
              \/ Instantly!Slot(t) \in DOMAIN lat.sent /\ lat.sent[Instantly!Slot(t)] = mapping[t]
        BY <2>1, BodyIs
      <4> QED
        BY <4>1, <4>2 DEF Instantly!HoldsAll, Instantly!NotText
    <3>4. ASSUME NEW lead, NEW readable, Instantly!Compare(lead, readable) = "contradicted"
          PROVE  ~Instantly!HoldsAll(r, lead)
      <4>1. PICK s \in DOMAIN lat.sent : s \notin DOMAIN lead.stored \/ lead.stored[s] # lat.sent[s]
        BY <3>4 DEF Instantly!Compare
      <4>2. PICK t \in DOMAIN mapping : s = Instantly!Slot(t)
        BY <2>1, BodyIs
      <4>3. Values[r][mapping[t]] = "text" /\ lat.sent[Instantly!Slot(t)] = mapping[t]
        BY <2>1, <4>1, <4>2, BodyIs
      <4>4. ~Instantly!NotText(r, Instantly!Slot(t))
        BY <2>1, <4>3 DEF Instantly!NotText, Instantly!OneTargetEach
      <4> QED
        BY <4>1, <4>2, <4>3, <4>4 DEF Instantly!HoldsAll
    <3> QED
      BY <1>i, <2>1, <2>2, <3>1, <3>2, <3>3, <3>4 DEF Instantly!AttestIsTrue
  <2>5. LeadsAdded' /\ Once' /\ SeenPasses' /\ InHand'
    BY <1>t, <1>i, <2>1, LeadsStay, MappingStays
       DEF SeenPasses, Reading, Instantly!Readable, InHand, Instantly!Asked,
           Instantly!Known, Instantly!Nobody
  <2> QED
    BY <1>t, <2>1, <2>3, <2>4, <2>5 DEF InstantlyInv
<1>6. CASE Instantly!Over
  <2>1. /\ UNCHANGED <<mapping, checks, skip, campaign, room, leads, seen, lat, lacked, attested,
                       lsessions, llost>>
        /\ lphase' = "done" /\ ~Instantly!Asked
    BY <1>6 DEF Instantly!Over
  <2>2. Instantly!TypeOK'
    BY <1>t, <2>1 DEF Instantly!TypeOK
  <2>3. LeadsAdded' /\ Once' /\ Instantly!AttestIsTrue' /\ SeenPasses' /\ InHand'
    BY <1>t, <1>i, <2>1, LeadsStay, MappingStays
       DEF SeenPasses, Reading, Instantly!Readable, InHand, Instantly!Asked,
           Instantly!Known
  <2> QED
    BY <1>t, <2>1, <2>2, <2>3 DEF InstantlyInv
<1>7. CASE Instantly!Resume
  <2>1. /\ UNCHANGED <<mapping, checks, skip, campaign, room, leads, seen, lat, lacked, attested,
                       lsessions, llost>>
        /\ lphase' = "planned" /\ lphase # "sending"
    BY <1>7 DEF Instantly!Resume
  <2>2. Instantly!TypeOK'
    BY <1>t, <2>1 DEF Instantly!TypeOK
  <2>3. LeadsAdded' /\ Once' /\ Instantly!AttestIsTrue' /\ SeenPasses' /\ InHand'
    BY <1>t, <1>i, <2>1, LeadsStay, MappingStays
       DEF SeenPasses, Reading, Instantly!Readable, InHand, Instantly!Asked,
           Instantly!Known
  <2> QED
    BY <1>t, <2>1, <2>2, <2>3 DEF InstantlyInv
<1>8. CASE Instantly!Edit
  <2>1. /\ UNCHANGED <<mapping, checks, skip, room, leads, lphase, seen, lat, lacked,
                     attested, lsessions, llost>>
        /\ campaign' \in Campaigns
    BY <1>8 DEF Instantly!Edit
  <2>2. Instantly!TypeOK'
    BY <1>t, <2>1 DEF Instantly!TypeOK
  <2>3. LeadsAdded' /\ Once' /\ Instantly!AttestIsTrue' /\ SeenPasses' /\ InHand'
    BY <1>t, <1>i, <2>1, LeadsStay, MappingStays
       DEF SeenPasses, Reading, Instantly!Readable, InHand, Instantly!Asked,
           Instantly!Known
  <2> QED
    BY <1>t, <2>1, <2>2, <2>3 DEF InstantlyInv
<1>9. CASE UNCHANGED Instantly!instantlyVars
  <2>1. UNCHANGED <<mapping, checks, skip, campaign, room, leads, lphase, seen, lat, lacked,
                     attested, lsessions, llost>>
    BY <1>9 DEF Instantly!instantlyVars
  <2>2. Instantly!TypeOK'
    BY <1>t, <2>1 DEF Instantly!TypeOK
  <2>3. LeadsAdded' /\ Once' /\ Instantly!AttestIsTrue' /\ SeenPasses' /\ InHand'
    BY <1>t, <1>i, <2>1, LeadsStay, MappingStays
       DEF SeenPasses, Reading, Instantly!Readable, InHand, Instantly!Asked,
           Instantly!Known
  <2> QED
    BY <1>t, <2>1, <2>2, <2>3 DEF InstantlyInv
<1> QED
  BY <1>1, <1>2, <1>3, <1>4, <1>5, <1>6, <1>7, <1>8, <1>9 DEF Instantly!Next

LEMMA InstantlyKept ==
  ASSUME Instantly!InstantlyAssumption, InstantlyInv PROVE Instantly!InstantlyHolds
<1>1. Instantly!NoHoles
  <2>1. mapping \in Mappings /\ \A i \in DOMAIN leads : Added(leads[i])
    BY DEF InstantlyInv, Instantly!TypeOK, LeadsAdded
  <2> QED
    BY <2>1, NoHoleIn DEF Instantly!NoHoles
<1>2. Instantly!OneLeadEach
  <2>1. \A r \in lacked : Instantly!Known(r) # {}
    BY DEF InstantlyInv, Once
  <2>2. ASSUME NEW r \in Records
        PROVE  Cardinality(Sends(r)) <= (IF skip THEN 1 ELSE 1 + llost)
    <3>1. IsFiniteSet(1 .. Len(leads)) /\ Sends(r) \subseteq 1 .. Len(leads)
      BY FS_Interval DEF Sends, Instantly!Known, InstantlyInv, LeadsAdded
    <3>2. Cardinality(Sends(r)) \in Nat
      BY <3>1, FS_Subset, FS_CardinalityType
    <3>3. IF skip THEN Cardinality(Sends(r)) <= 1
          ELSE Cardinality(Sends(r)) <= llost + (IF r \in lacked THEN 1 ELSE 0)
      BY DEF InstantlyInv, Once
    <3>4. llost \in Nat
      BY DEF InstantlyInv
    <3> QED
      BY <3>2, <3>3, <3>4
  <2> QED
    BY <2>1, <2>2, LeadsCounted DEF Instantly!OneLeadEach, Sends
<1> QED
  BY <1>1, <1>2 DEF Instantly!InstantlyHolds, InstantlyInv

(* The campaign's invariant in every behaviour of it.                      *)
THEOREM InstantlyInvariance ==
  ASSUME Instantly!InstantlyAssumption PROVE Instantly!Spec => []InstantlyInv
<1>1. Instantly!Init => InstantlyInv
  BY InstantlyInit
<1>2. InstantlyInv /\ [Instantly!Next]_(Instantly!instantlyVars) => InstantlyInv'
  BY InstantlyNext
<1> QED
  BY <1>1, <1>2, PTL DEF Instantly!Spec

(* Nobody is mailed an email with a hole in it, what is attested is what   *)
(* Instantly stored, and a record is one lead, or one for each request     *)
(* that was sent (instantly.go, http.go).                                  *)
THEOREM CampaignIsKept ==
  ASSUME Instantly!InstantlyAssumption PROVE Instantly!Spec => []Instantly!InstantlyHolds
<1>1. InstantlyInv => Instantly!InstantlyHolds
  BY InstantlyKept
<1> QED
  BY <1>1, InstantlyInvariance, PTL

-----------------------------------------------------------------------------
(* A loop that keeps some of a list (Picks).                               *)

\* Induction over the naturals: the least counterexample.
LEMMA Least ==
  ASSUME NEW T, T \subseteq Nat, T # {}
  PROVE  \E n \in T : \A m \in T : ~(m < n)
<1>1. \E x \in T : \A y \in T : ~ (<<y, x>> \in OpToRel(<, Nat))
  BY NatLessThanWellFounded, WFMin
<1> QED
  BY <1>1 DEF OpToRel

(* One turn of the loop, from what F has after the turns before; F has the  *)
(* outcome of each of the first n.                                          *)
Pick(s, K, F, i) ==
  IF i = 0 THEN <<>> ELSE IF i \in K THEN Append(F[i - 1], s[i]) ELSE F[i - 1]
PicksBy(s, K, F, n) == F = [i \in 0..n |-> Pick(s, K, F, i)]

(* The loop has a value after each of its turns.                           *)
LEMMA PicksExist ==
  ASSUME NEW s, NEW K, NEW N \in Nat
  PROVE  \E F : PicksBy(s, K, F, N)
<1> DEFINE T == {n \in Nat : ~ \E F : PicksBy(s, K, F, n)}
<1>1. SUFFICES ASSUME T # {} PROVE FALSE
  OBVIOUS
<1>2. PICK n \in T : \A m \in T : ~(m < n)
  BY <1>1, Least
<1>3. CASE n = 0
  <2>1. PicksBy(s, K, [i \in 0..n |-> <<>>], n)
    BY <1>3 DEF PicksBy, Pick
  <2> QED
    BY <2>1
<1>4. CASE n > 0
  <2>1. PICK F : PicksBy(s, K, F, n - 1)
    BY <1>2, <1>4
  <2> DEFINE G == [i \in 0..n |-> IF i = n
                     THEN IF i \in K THEN Append(F[i - 1], s[i]) ELSE F[i - 1] ELSE F[i]]
  <2>2. \A i \in 0..(n - 1) : F[i] = Pick(s, K, F, i)
    BY <2>1 DEF PicksBy
  <2>3. \A i \in 0..(n - 1) : G[i] = F[i]
    BY <1>2
  <2>4. \A i \in 0..n : G[i] = Pick(s, K, G, i)
    <3>1. TAKE i \in 0..n
    <3>2. CASE i = 0
      BY <2>2, <2>3, <3>2, <1>2, <1>4 DEF Pick
    <3>3. CASE i \in 1..(n - 1)
      <4>1. G[i] = F[i] /\ G[i - 1] = F[i - 1]
        BY <2>3, <3>3, <1>2
      <4>2. F[i] = Pick(s, K, F, i)
        BY <2>2, <3>3, <1>2
      <4> QED
        BY <4>1, <4>2 DEF Pick
    <3>4. CASE i = n
      <4>1. G[i - 1] = F[i - 1]
        BY <2>3, <3>4, <1>2, <1>4
      <4> QED
        BY <4>1, <3>4, <1>2, <1>4 DEF Pick
    <3> QED
      BY <3>2, <3>3, <3>4, <1>2
  <2> HIDE DEF G
  <2>5. G = [i \in 0..n |-> Pick(s, K, G, i)]
    <3>1. G = [i \in 0..n |-> G[i]]
      BY DEF G
    <3> QED
      BY <2>4, <3>1
  <2> QED
    BY <2>5 DEF PicksBy
<1> QED
  BY <1>2, <1>3, <1>4

\* p is what the places of K up to n give, through the places at.
(* p has the elements of s at the places of K up to n, in their order.      *)
PickedAt(s, K, n, p, at) ==
  /\ at \in [1..Len(p) -> K \cap 1..n]
  /\ \A i \in 1..Len(p) : p[i] = s[at[i]]
  /\ \A i, j \in 1..Len(p) : i < j => at[i] < at[j]
  /\ \A k \in K \cap 1..n : \E i \in 1..Len(p) : at[i] = k

(* After n turns the loop has kept, in order, those of K among the first   *)
(* n.                                                                      *)
LEMMA PickedUpTo ==
  ASSUME NEW S, NEW s \in Seq(S), NEW K, NEW F, PicksBy(s, K, F, Len(s))
  PROVE  \A n \in 0..Len(s) : F[n] \in Seq(S) /\ \E at : PickedAt(s, K, n, F[n], at)
<1> DEFINE Good(n) == F[n] \in Seq(S) /\ \E at : PickedAt(s, K, n, F[n], at)
           T == {n \in 0..Len(s) : ~Good(n)}
<1>l. Len(s) \in Nat /\ \A n \in 1..Len(s) : s[n] \in S
  OBVIOUS
<1>p. \A n \in 0..Len(s) : F[n] = Pick(s, K, F, n)
  BY Zenon DEF PicksBy
<1>1. SUFFICES ASSUME T # {} PROVE FALSE
  OBVIOUS
<1>2. PICK n \in T : \A m \in T : ~(m < n)
  <2>1. T \subseteq Nat
    BY <1>l
  <2> QED
    BY <1>1, <2>1, Least
<1>3. CASE n = 0
  <2>1. F[n] = <<>>
    BY <1>3, <1>l, <1>p DEF Pick
  <2>2. PickedAt(s, K, n, <<>>, <<>>)
    BY <1>3 DEF PickedAt
  <2>3. <<>> \in Seq(S)
    OBVIOUS
  <2>4. Good(n)
    BY <2>1, <2>2, <2>3
  <2> QED
    BY <1>2, <2>4
<1>4. CASE n \in 1..Len(s)
  <2>1. n - 1 \in 0..Len(s) /\ n - 1 \notin T
    BY <1>2, <1>4, <1>l
  <2>2. F[n] = IF n \in K THEN Append(F[n - 1], s[n]) ELSE F[n - 1]
    BY <1>4, <1>l, <1>p DEF Pick
  <2>3. F[n - 1] \in Seq(S)
    BY <2>1
  <2>4. PICK at : PickedAt(s, K, n - 1, F[n - 1], at)
    BY <2>1
  <2>5. PICK p : p = F[n - 1]
    OBVIOUS
  <2>6. CASE n \notin K
    <3>1. PickedAt(s, K, n, p, at)
      BY SMTT(30), <1>4, <1>l, <2>4, <2>5, <2>6 DEF PickedAt
    <3> QED
      BY <1>2, <2>2, <2>3, <2>5, <2>6, <3>1
  <2>7. CASE n \in K
    <3>1. PICK q : q = Append(p, s[n])
      OBVIOUS
    <3>2. /\ p \in Seq(S)
          /\ q \in Seq(S)
          /\ Len(p) \in Nat
          /\ Len(q) = Len(p) + 1
          /\ q[Len(p) + 1] = s[n]
          /\ \A i \in 1..Len(p) : q[i] = p[i]
      BY <1>4, <1>l, <2>3, <2>5, <3>1
    <3> DEFINE bt == [i \in 1..Len(q) |-> IF i = Len(q) THEN n ELSE at[i]]
    <3>3. \A i \in 1..Len(p) : at[i] \in K \cap 1..(n - 1)
      BY <2>4, <2>5 DEF PickedAt
    <3>4. PickedAt(s, K, n, q, bt)
      <4>1. bt \in [1..Len(q) -> K \cap 1..n]
        BY <1>4, <1>l, <2>7, <3>2, <3>3
      <4>2. \A i \in 1..Len(q) : q[i] = s[bt[i]]
        <5>1. \A i \in 1..Len(p) : q[i] = s[bt[i]]
          <6>1. \A i \in 1..Len(p) : p[i] = s[at[i]]
            BY <2>4, <2>5 DEF PickedAt
          <6>2. \A i \in 1..Len(p) : i \in 1..Len(q) /\ i # Len(q)
            BY <3>2
          <6>3. \A i \in 1..Len(p) : bt[i] = at[i]
            BY <6>2
          <6>4. \A i \in 1..Len(p) : q[i] = p[i]
            BY <3>2
          <6> HIDE DEF bt
          <6> QED
            BY Zenon, <6>1, <6>3, <6>4
        <5>2. q[Len(q)] = s[bt[Len(q)]]
          BY <3>2
        <5>3. 1..Len(q) = 1..Len(p) \cup {Len(q)}
          BY <3>2
        <5> HIDE DEF bt
        <5> QED
          BY <5>1, <5>2, <5>3
      <4>3. \A i, j \in 1..Len(q) : i < j => bt[i] < bt[j]
        BY <2>4, <2>5, <3>2, <3>3, <1>4, <1>l DEF PickedAt
      <4>4. \A k \in K \cap 1..n : \E i \in 1..Len(q) : bt[i] = k
        <5>1. TAKE k \in K \cap 1..n
        <5>2. CASE k = n
          BY <5>2, <3>2
        <5>3. CASE k \in 1..(n - 1)
          <6>1. PICK i \in 1..Len(p) : at[i] = k
            BY <2>4, <2>5, <5>3 DEF PickedAt
          <6> QED
            BY <6>1, <3>2
        <5> QED
          BY <5>2, <5>3, <1>4, <1>l
      <4> QED
        BY <4>1, <4>2, <4>3, <4>4 DEF PickedAt
    <3> QED
      BY <1>2, <2>2, <2>5, <2>7, <3>1, <3>2, <3>4
  <2> QED
    BY <2>6, <2>7
<1> QED
  BY <1>2, <1>3, <1>4, <1>l

(* What Picked returns: a sequence of the same elements, the one at i      *)
(* from the place at[i] of s, the places in K, ascending and all of them.  *)
LEMMA PickedIs ==
  ASSUME NEW S, NEW s \in Seq(S), NEW K
  PROVE  /\ Picked(s, K) \in Seq(S)
         /\ \E at : PickedAt(s, K, Len(s), Picked(s, K), at)
<1> DEFINE F == CHOOSE F : PicksBy(s, K, F, Len(s))
<1>1. Len(s) \in Nat
  OBVIOUS
<1>2. PicksBy(s, K, F, Len(s))
  BY <1>1, PicksExist
<1>3. Picked(s, K) = F[Len(s)]
  BY DEF Picked, PicksBy, Pick
<1> HIDE DEF F
<1>4. F[Len(s)] \in Seq(S) /\ \E at : PickedAt(s, K, Len(s), F[Len(s)], at)
  BY <1>1, <1>2, PickedUpTo
<1> QED
  BY <1>3, <1>4

-----------------------------------------------------------------------------
(* SqlStep.                                                                *)

(* What SqlStep picks and counts is what the lemmas are about.             *)
LEMMA SqlPicks ==
  ASSUME NEW s, NEW K
  PROVE  SqlStep!Picked(s, K) = Picked(s, K)
BY Zenon DEF SqlStep!Picked, Picked

\* What may be left of a record's writes, and which write follows which.
Lefts(k) ==
  CASE k \in {"filter", "predicate"} ->
         {<<"pass", "out", "state">>, <<"out", "state">>, <<"state">>,
          <<"fail", "filtered">>, <<"filtered">>}
    [] k = "transform" ->
         {<<"write", "out", "state">>, <<"out", "state">>, <<"empty", "state">>, <<"state">>,
          <<"failed">>}
    [] k = "traverse" -> {<<"claimed", "out", "state">>, <<"out", "state">>, <<"state">>}
    [] k = "text" ->
         {<<"claimed", "write", "out", "state">>, <<"write", "out", "state">>,
          <<"out", "state">>, <<"claimed", "empty", "state">>, <<"empty", "state">>,
          <<"state">>, <<"claimed", "failed">>, <<"failed">>}

Follows(k, w) ==
  CASE w = "pass" -> {"out"}
    [] w = "fail" -> {"filtered"}
    [] w = "write" -> {"out"}
    [] w \in {"out", "empty"} -> {"state"}
    [] w = "claimed" -> IF k = "traverse" THEN {"out"} ELSE {"write", "empty", "failed"}

Firsts(k) ==
  CASE k \in {"filter", "predicate"} -> {"pass", "fail"}
    [] k = "transform" -> {"write", "empty", "failed"}
    [] k \in {"traverse", "text"} -> {"claimed"}

Chain(k, l) ==
  /\ Len(l) \in 1..4 /\ Len(l) <= 4
  /\ Head(l) \in {"pass", "fail", "write", "out", "empty", "claimed", "state", "filtered",
     "failed"}
  /\ Len(l) = 1 <=> Head(l) \in {"state", "filtered", "failed"}
  /\ Head(l) = "pass" => k \in {"filter", "predicate"}
  /\ Head(l) \in {"write", "empty"} => k \in {"transform", "text"}
  /\ Len(l) = 1 => Tail(l) = <<>>
  /\ Len(l) # 1 => Tail(l) \in Lefts(k) /\ Head(Tail(l)) \in Follows(k, Head(l))

(* One write is left, or the rest of the writes is one of those that may   *)
(* be left, and starts with a write that may follow.                       *)
LEMMA LeftsChain ==
  ASSUME NEW k \in {"filter", "predicate", "transform", "traverse", "text"}, NEW l \in Lefts(k)
  PROVE  Chain(k, l)
<1>1. CASE l = <<"state">>
  BY <1>1 DEF Chain
<1>2. CASE l = <<"filtered">>
  BY <1>2 DEF Chain
<1>3. CASE l = <<"failed">>
  BY <1>3 DEF Chain
<1>4. CASE l = <<"out", "state">>
  BY <1>4 DEF Chain, Lefts, Follows
<1>5. CASE l = <<"empty", "state">>
  BY <1>5 DEF Chain, Lefts, Follows
<1>6. CASE l = <<"fail", "filtered">>
  BY <1>6 DEF Chain, Lefts, Follows
<1>7. CASE l = <<"claimed", "failed">>
  BY <1>7 DEF Chain, Lefts, Follows
<1>8. CASE l = <<"pass", "out", "state">>
  BY <1>8 DEF Chain, Lefts, Follows
<1>9. CASE l = <<"write", "out", "state">>
  BY <1>9 DEF Chain, Lefts, Follows
<1>10. CASE l = <<"claimed", "out", "state">>
  BY <1>10 DEF Chain, Lefts, Follows
<1>11. CASE l = <<"claimed", "empty", "state">>
  BY <1>11 DEF Chain, Lefts, Follows
<1>12. CASE l = <<"claimed", "write", "out", "state">>
  BY <1>12 DEF Chain, Lefts, Follows
<1> QED
  BY <1>1, <1>2, <1>3, <1>4, <1>5, <1>6, <1>7, <1>8, <1>9, <1>10, <1>11, <1>12 DEF Lefts

-----------------------------------------------------------------------------
AnswerRow == [id : SqlRecords, said : SqlStep!Says(srole)]

\* Where the writes of a record are, by the one that is next.
Stands(r, h) ==
  /\ sverdict[r] = "fail" <=> h = "filtered"
  /\ h \in {"out", "state"} /\ srole \in {"filter", "predicate"} => sverdict[r] = "pass"
  /\ h = "out" /\ srole \in {"transform", "text"} => r \in written
  /\ h = "state" => /\ event[r] \in {"out", "empty"}
                    /\ srole \in {"transform", "text"} /\ event[r] = "out" => r \in written

OnRecord == sitem.said = "record" /\ sleft \in Lefts(srole) /\ Stands(sitem.id, Head(sleft))
OnRow ==
  /\ srole = "traverse" /\ sitem.said \in Children \cup {"unknown"} /\ sverdict[sitem.id] # "fail"
  /\ \/ sitem.said = "unknown" /\ sleft = <<"failed">>
     \/ sitem.said \in Children /\ sleft = <<"join", "pair">>
     \/ sitem.said \in Children /\ sleft = <<"pair">> /\ sitem.said \in sjoined

WritesLeft ==
  \/ sitem = SqlStep!Nothing /\ sleft = <<>>
  \/ /\ sitem \in [id : SqlRecords, said : {"record", "unknown"} \cup Children]
     /\ sitem.id \in stodo /\ (OnRecord \/ OnRow)

Unjudged ==
  \A r \in stodo : r \notin advanced /\ (sverdict[r] = "fail" => r = sitem.id)
RowsWait == srole = "traverse" =>
  /\ \A i \in DOMAIN asked : asked[i].id \in stodo
  /\ sitem.said = "record" => asked = <<>>
ToldWritten == \A p \in told : p[2] # "unknown" =>
  (p \in pairs /\ p[2] \in sjoined) \/ p = <<sitem.id, sitem.said>>

SqlInv ==
  /\ SqlStep!TypeOK /\ asked \in Seq(AnswerRow) /\ WritesLeft /\ Unjudged /\ RowsWait
     /\ ToldWritten
  /\ SqlStep!JudgedAsRecorded /\ SqlStep!FinishedWithChildren

(* Nothing is asked yet.                                                   *)
LEMMA SqlInit == ASSUME SqlStep!SqlStepAssumption, SqlStep!Init PROVE SqlInv
  BY DEF SqlStep!SqlStepAssumption, SqlStep!Init, SqlInv, SqlStep!TypeOK, WritesLeft,
        Unjudged, RowsWait, ToldWritten,
         SqlStep!JudgedAsRecorded, SqlStep!FinishedWithChildren, SqlStep!Nothing

(* The rows kept of an answer are rows of records the step may settle.     *)
LEMMA KeptRows ==
  ASSUME SqlStep!SqlStepAssumption, srole \in SqlRoles, NEW answer \in SqlStep!Answers
  PROVE  /\ SqlStep!Kept(answer) \in Seq(AnswerRow)
         /\ \A i \in DOMAIN SqlStep!Kept(answer) : SqlStep!Kept(answer)[i].id \in SqlStep!Eligible
<1> DEFINE Last(i) == srole # "traverse" /\ \A j \in SqlStep!RowsOf(answer, answer[i].id) : j <= i
           First(i) == srole = "traverse" /\ \A j \in 1..(i - 1) : answer[j] # answer[i]
           keep == {i \in DOMAIN answer : answer[i].id \in SqlStep!Eligible
                 /\ (Last(i) \/ First(i))}
           S == [id : SqlRecords \cup Strangers, said : SqlStep!Says(srole)]
<1>1. PICK n \in 0..MaxRows : answer \in [1..n -> S]
  BY DEF SqlStep!Answers
<1>n. n \in Nat
  BY DEF SqlStep!SqlStepAssumption
<1>2. answer \in Seq(S) /\ Len(answer) = n /\ DOMAIN answer = 1..n
  <2> HIDE DEF S
  <2> QED
    BY <1>1, <1>n
<1>3. SqlStep!Kept(answer) = Picked(answer, keep)
  BY SqlPicks DEF SqlStep!Kept
<1>k. \A i \in keep : i \in 1..n /\ answer[i].id \in SqlStep!Eligible
  BY <1>2
<1> HIDE DEF keep
<1>4. PICK p : p = Picked(answer, keep)
  OBVIOUS
<1>5. p \in Seq(S) /\ \E at : PickedAt(answer, keep, n, p, at)
  BY <1>2, <1>4, PickedIs
<1>6. PICK at : PickedAt(answer, keep, n, p, at)
  BY <1>5
<1>7. \A i \in 1..Len(p) : p[i] \in AnswerRow /\ p[i].id \in SqlStep!Eligible
  <2>1. TAKE i \in 1..Len(p)
  <2>2. at[i] \in keep /\ p[i] = answer[at[i]]
    BY <1>6 DEF PickedAt
  <2>3. answer[at[i]] \in S /\ answer[at[i]].id \in SqlStep!Eligible
    BY <2>2, <1>k, <1>1
  <2> QED
    BY <2>2, <2>3 DEF AnswerRow, SqlStep!Eligible
<1>8. p \in Seq(AnswerRow) /\ DOMAIN p = 1..Len(p)
  BY <1>5, <1>7
<1> QED
  BY <1>3, <1>4, <1>7, <1>8

(* The query: the rows kept, and for a text step the records that wait.    *)
LEMMA SqlAskKeeps == ASSUME SqlStep!SqlStepAssumption, SqlInv, SqlStep!Ask PROVE SqlInv'
<1>1. PICK answer \in SqlStep!Answers : asked' = SqlStep!Kept(answer)
  BY DEF SqlStep!Ask
<1>2. /\ SqlStep!Kept(answer) \in Seq(AnswerRow)
      /\ \A i \in DOMAIN SqlStep!Kept(answer) : SqlStep!Kept(answer)[i].id \in SqlStep!Eligible
  BY KeptRows DEF SqlInv, SqlStep!TypeOK
<1>3. asked' \in Seq(AnswerRow)' /\ \A i \in DOMAIN asked' : asked'[i].id \in stodo'
  <2>1. AnswerRow' = AnswerRow
    BY DEF SqlStep!Ask, AnswerRow, SqlStep!Says
  <2> QED
    BY <1>1, <1>2, <2>1 DEF SqlStep!Ask
<1>4. sitem = SqlStep!Nothing /\ sleft = <<>>
  BY DEF SqlStep!Ask, SqlInv, WritesLeft
<1>5. stodo' = SqlStep!Eligible /\ sitem' = sitem /\ sleft' = sleft /\ srole' = srole
      /\ skills' = skills
      /\ scut' = scut /\ told' = told
         /\ UNCHANGED <<advanced, sverdict, event, written, sjoined, pairs>>
  BY DEF SqlStep!Ask, SqlStep!ledger
<1>6. RowsWait'
  BY <1>3, <1>4, <1>5 DEF RowsWait, SqlStep!Nothing
<1>7. Unjudged'
  BY <1>5 DEF Unjudged, SqlStep!Eligible
<1>8. WritesLeft'
  BY <1>4, <1>5 DEF WritesLeft
<1>9. SqlStep!TypeOK'
  BY <1>5 DEF SqlInv, SqlStep!TypeOK, SqlStep!Eligible
<1>10. ToldWritten' /\ SqlStep!JudgedAsRecorded' /\ SqlStep!FinishedWithChildren'
  BY <1>5 DEF SqlInv, ToldWritten, SqlStep!JudgedAsRecorded, SqlStep!FinishedWithChildren,
        SqlStep!Cut
<1> QED
  BY <1>3, <1>6, <1>7, <1>8, <1>9, <1>10 DEF SqlInv

(* The query fails.                                                        *)
LEMMA SqlAskFailsKeeps == ASSUME SqlStep!SqlStepAssumption, SqlInv, SqlStep!AskFails PROVE SqlInv'
<1>1. skills' \in 0..MaxKills
  BY DEF SqlStep!AskFails, SqlInv, SqlStep!TypeOK, SqlStep!SqlStepAssumption
<1>2. UNCHANGED <<srole, advanced, sverdict, event, written, sjoined, pairs, asked, stodo,
      sitem, sleft,
                  scut, told>>
  BY DEF SqlStep!AskFails, SqlStep!ledger
<1> QED
  BY <1>1, <1>2 DEF SqlInv, SqlStep!TypeOK, WritesLeft, Unjudged, RowsWait, ToldWritten,
        OnRecord, OnRow, Stands,
     SqlStep!JudgedAsRecorded, SqlStep!FinishedWithChildren, SqlStep!Cut, AnswerRow, SqlStep!Says

(* The next row: a verdict, a value, a child.                              *)
LEMMA SqlTakeRowKeeps == ASSUME SqlStep!SqlStepAssumption, SqlInv, SqlStep!TakeRow PROVE SqlInv'
<1> USE DEF SqlStep!TakeRow, SqlStep!ledger
<1>1. PICK row : row = Head(asked)
  OBVIOUS
<1>2. row \in AnswerRow /\ row.id \in stodo /\ srole = "traverse" /\ sverdict[row.id] # "fail"
  <2>1. row \in AnswerRow /\ row.id \in stodo /\ srole = "traverse"
    BY <1>1 DEF SqlInv, RowsWait
  <2>2. sitem.id = 0 /\ 0 \notin SqlRecords
    BY DEF SqlStep!Nothing, SqlStep!SqlStepAssumption
  <2> QED
    BY <2>1, <2>2 DEF SqlInv, Unjudged, AnswerRow
<1>3. row.id \in SqlRecords /\ row.said \in Children \cup {"unknown"}
  BY <1>2 DEF AnswerRow, SqlStep!Says
<1>4. asked' \in Seq(AnswerRow)' /\ \A i \in DOMAIN asked' : asked'[i].id \in stodo'
  <2>1. AnswerRow' = AnswerRow
    BY DEF AnswerRow, SqlStep!Says
  <2>2. Tail(asked) \in Seq(AnswerRow)
        /\ \A i \in DOMAIN Tail(asked) : Tail(asked)[i].id \in stodo
    <3>1. asked \in Seq(AnswerRow) /\ asked # <<>>
          /\ \A i \in DOMAIN asked : asked[i].id \in stodo
      BY <1>2 DEF SqlInv, RowsWait
    <3>2. \A i \in 1..Len(Tail(asked)) : Tail(asked)[i] = asked[i + 1] /\ i + 1 \in DOMAIN asked
      BY <3>1
    <3> QED
      BY <3>1, <3>2
  <2> QED
    BY <2>1, <2>2
<1>5. sitem' = row /\ sleft' = SqlStep!Admission(row) /\ told' = told \cup {<<row.id, row.said>>}
  BY <1>1
<1>6. WritesLeft' /\ Len(sleft') <= 4
  <2>1. sitem'.id \in stodo'
        /\ sitem' \in [id : SqlRecords, said : {"record", "unknown"} \cup Children]
    BY <1>2, <1>3, <1>5 DEF AnswerRow
  <2>2. CASE row.said = "unknown"
    <3>1. sleft' = <<"failed">>
      BY <1>5, <2>2 DEF SqlStep!Admission
    <3>2. OnRow'
      BY <1>2, <1>5, <2>2, <3>1 DEF OnRow
    <3> QED
      <4>1. Len(sleft') <= 4
        <5>1. Len(<<"failed">>) <= 4 /\ Len(<<"join", "pair">>) <= 4
          OBVIOUS
        <5> QED
          BY <3>1, <5>1, Zenon
      <4>2. WritesLeft'
        BY <2>1, <3>2 DEF WritesLeft
      <4> QED
        BY <4>1, <4>2
  <2>3. CASE row.said # "unknown"
    <3>1. sleft' = <<"join", "pair">>
      BY <1>5, <2>3 DEF SqlStep!Admission
    <3>2. OnRow'
      BY <1>2, <1>3, <1>5, <2>3, <3>1 DEF OnRow
    <3> QED
      <4>1. Len(sleft') <= 4
        <5>1. Len(<<"failed">>) <= 4 /\ Len(<<"join", "pair">>) <= 4
          OBVIOUS
        <5> QED
          BY <3>1, <5>1, Zenon
      <4>2. WritesLeft'
        BY <2>1, <3>2 DEF WritesLeft
      <4> QED
        BY <4>1, <4>2
  <2> QED
    BY <2>2, <2>3
<1>7. Unjudged' /\ SqlStep!JudgedAsRecorded' /\ SqlStep!FinishedWithChildren'
  <2>1. sitem.id = 0 /\ sitem.said = "nothing" /\ 0 \notin SqlRecords /\ "nothing" \notin Children
    BY DEF SqlInv, SqlStep!Nothing, SqlStep!SqlStepAssumption
  <2>2. Unjudged'
    BY <2>1 DEF SqlInv, SqlStep!TypeOK, Unjudged
  <2>3. SqlStep!JudgedAsRecorded'
    BY <2>1 DEF SqlInv, SqlStep!TypeOK, SqlStep!JudgedAsRecorded, SqlStep!Cut
  <2>4. SqlStep!FinishedWithChildren'
    BY <1>2, <1>5, <2>1 DEF SqlInv, SqlStep!TypeOK, SqlStep!FinishedWithChildren, Unjudged
  <2> QED
    BY <2>2, <2>3, <2>4
<1>8. ToldWritten'
  <2>1. \A p \in told : p # <<0, "nothing">>
    BY DEF SqlInv, SqlStep!TypeOK, SqlStep!SqlStepAssumption
  <2>2. SUFFICES ASSUME NEW p \in told', p[2] # "unknown"
                 PROVE  (p \in pairs' /\ p[2] \in sjoined') \/ p = <<sitem'.id, sitem'.said>>
    BY DEF ToldWritten
  <2>3. CASE p \in told
    BY <2>1, <2>2, <2>3 DEF SqlInv, ToldWritten, SqlStep!Nothing
  <2>4. CASE p = <<row.id, row.said>>
    BY <2>4, <1>5 DEF AnswerRow
  <2> QED
    BY <2>3, <2>4, <1>5
<1>9. SqlStep!TypeOK'
  BY <1>3, <1>5, <1>6 DEF SqlInv, SqlStep!TypeOK
<1>10. RowsWait'
  BY <1>3, <1>4, <1>5, <1>2 DEF RowsWait, SqlStep!SqlStepAssumption
<1> QED
  BY <1>4, <1>6, <1>7, <1>8, <1>9, <1>10 DEF SqlInv

(* The next record no row is about, or whose rows are through.             *)
LEMMA SqlTakeRecordKeeps == ASSUME SqlStep!SqlStepAssumption, SqlInv, SqlStep!TakeRecord
      PROVE SqlInv'
<1>1. PICK r \in stodo : sitem' = [id |-> r, said |-> "record"] /\ sleft' = SqlStep!Writes(r)
  BY DEF SqlStep!TakeRecord
<1>2. /\ sitem = SqlStep!Nothing
      /\ UNCHANGED <<srole, advanced, sverdict, event, written, sjoined, pairs, asked, stodo,
         skills, scut,
                     told>>
  BY DEF SqlStep!TakeRecord, SqlStep!ledger
<1>3. sitem.id = 0 /\ sitem.said = "nothing" /\ 0 \notin SqlRecords /\ "nothing" \notin Children
  BY <1>2 DEF SqlInv, SqlStep!Nothing, SqlStep!SqlStepAssumption
<1>4. r \in SqlRecords /\ sverdict[r] # "fail" /\ r \notin advanced
  BY <1>3 DEF SqlInv, SqlStep!TypeOK, Unjudged
<1>5. srole \in {"filter", "predicate", "transform", "traverse", "text"}
  BY DEF SqlInv, SqlStep!TypeOK, SqlStep!SqlStepAssumption
<1>6. sleft' \in Lefts(srole) /\ Head(sleft') \in Firsts(srole)
  <2>1. CASE srole \in {"filter", "predicate"}
    <3>1. sleft' \in {<<"pass", "out", "state">>, <<"fail", "filtered">>}
      BY <1>1, <2>1 DEF SqlStep!Writes
    <3> QED
      BY <2>1, <3>1 DEF Lefts, Firsts
  <2>2. CASE srole = "transform"
    <3>1. sleft' \in {<<"write", "out", "state">>, <<"empty", "state">>, <<"failed">>}
      BY <1>1, <2>2 DEF SqlStep!Writes
    <3> QED
      BY <2>2, <3>1 DEF Lefts, Firsts
  <2>3. CASE srole = "traverse"
    <3>1. sleft' = <<"claimed", "out", "state">>
      BY <1>1, <2>3 DEF SqlStep!Writes
    <3> QED
      BY <2>3, <3>1 DEF Lefts, Firsts
  <2>4. CASE srole = "text"
    <3>1. sleft' \in {<<"claimed", "write", "out", "state">>, <<"claimed", "empty", "state">>,
                      <<"claimed", "failed">>}
      BY <1>1, <2>4 DEF SqlStep!Writes
    <3> QED
      BY <2>4, <3>1 DEF Lefts, Firsts
  <2> QED
    BY <1>5, <2>1, <2>2, <2>3, <2>4
<1>7. WritesLeft' /\ Len(sleft') <= 4
  <2>1. Len(sleft') <= 4
    <3>1. PICK l : l = sleft'
      OBVIOUS
    <3>2. Chain(srole, l)
      BY <1>5, <1>6, <3>1, LeftsChain
    <3>3. Len(l) <= 4
      BY <3>2, Zenon DEF Chain
    <3> QED
      BY <3>1, <3>3, Zenon
  <2>2. Head(sleft') \notin {"filtered", "out", "state"}
    BY <1>5, <1>6 DEF Firsts
  <2>h. PICK h : h = Head(sleft')
    OBVIOUS
  <2>3. Stands(r, h)'
    BY <1>2, <1>4, <2>2, <2>h DEF Stands
  <2>4. OnRecord'
    <3>1. sitem'.id = r /\ sitem'.said = "record" /\ srole' = srole
      BY <1>1, <1>2
    <3> QED
      BY <1>6, <2>3, <2>h, <3>1 DEF OnRecord, Stands
  <2> QED
    BY <1>1, <1>2, <1>4, <2>1, <2>4 DEF WritesLeft
<1>8. Unjudged' /\ SqlStep!JudgedAsRecorded' /\ SqlStep!FinishedWithChildren' /\ ToldWritten'
  <2>1. Unjudged'
    BY <1>2, <1>3 DEF SqlInv, SqlStep!TypeOK, Unjudged
  <2>2. SqlStep!JudgedAsRecorded'
    BY <1>2, <1>3 DEF SqlInv, SqlStep!TypeOK, SqlStep!JudgedAsRecorded, SqlStep!Cut
  <2>3. SqlStep!FinishedWithChildren'
    BY <1>2, <1>3 DEF SqlInv, SqlStep!TypeOK, SqlStep!FinishedWithChildren
  <2>4. ToldWritten'
    BY <1>2, <1>3 DEF SqlInv, SqlStep!TypeOK, ToldWritten
  <2> QED
    BY <2>1, <2>2, <2>3, <2>4
<1>9. SqlStep!TypeOK' /\ asked' \in Seq(AnswerRow)' /\ RowsWait'
  <2>1. SqlStep!TypeOK'
    BY <1>2, <1>7 DEF SqlInv, SqlStep!TypeOK
  <2>2. asked' \in Seq(AnswerRow)'
    BY <1>2 DEF SqlInv, AnswerRow, SqlStep!Says
  <2>3. RowsWait'
    BY <1>2 DEF SqlInv, RowsWait, SqlStep!TakeRecord
  <2> QED
    BY <2>1, <2>2, <2>3
<1> QED
  BY <1>7, <1>8, <1>9 DEF SqlInv

(* One write of the item in hand, by what it is.                           *)
LEMMA SqlWriteKeeps == ASSUME SqlStep!SqlStepAssumption, SqlInv, SqlStep!Write PROVE SqlInv'
<1> USE DEF SqlStep!ledger
<1>1. PICK w, r : w = Head(sleft) /\ r = sitem.id
  OBVIOUS
<1>2. /\ sleft # <<>>
      /\ sleft' = Tail(sleft)
      /\ sverdict' = IF w \in {"pass", "fail"} THEN [sverdict EXCEPT ![r] = w] ELSE sverdict
      /\ event' = IF w \in {"out", "empty", "filtered", "failed", "claimed"}
                  THEN [event EXCEPT ![r] = w] ELSE event
      /\ advanced' = IF w = "state" THEN advanced \cup {r} ELSE advanced
      /\ written' = IF w = "write" THEN written \cup {r} ELSE written
      /\ sjoined' = IF w = "join" THEN sjoined \cup {sitem.said} ELSE sjoined
      /\ pairs' = IF w = "pair" THEN pairs \cup {<<r, sitem.said>>} ELSE pairs
      /\ sitem' = IF Len(sleft) = 1 THEN SqlStep!Nothing ELSE sitem
      /\ stodo' = IF Len(sleft) = 1 /\ sitem.said = "record" THEN stodo \ {r} ELSE stodo
      /\ UNCHANGED <<srole, asked, skills, scut, told>>
  BY <1>1 DEF SqlStep!Write
<1>3. /\ sitem \in [id : SqlRecords, said : {"record", "unknown"} \cup Children]
      /\ r \in stodo
      /\ OnRecord \/ OnRow
  BY <1>1, <1>2 DEF SqlInv, WritesLeft
<1>4. r \in SqlRecords /\ r \notin advanced /\ sitem = [id |-> r, said |-> sitem.said]
  BY <1>1, <1>3 DEF SqlInv, Unjudged
<1>5. srole \in {"filter", "predicate", "transform", "traverse", "text"}
  BY DEF SqlInv, SqlStep!TypeOK, SqlStep!SqlStepAssumption
<1>6. 0 \notin SqlRecords /\ Children \cap {"nothing", "record", "unknown"} = {}
  BY DEF SqlStep!SqlStepAssumption
<1>7. /\ sverdict \in [SqlRecords -> {"none", "pass", "fail"}]
      /\ event \in [SqlRecords -> {"none", "out", "empty", "filtered", "failed", "claimed"}]
      /\ sverdict' \in [SqlRecords -> {"none", "pass", "fail"}]
      /\ event' \in [SqlRecords -> {"none", "out", "empty", "filtered", "failed", "claimed"}]
  BY <1>2, <1>4 DEF SqlInv, SqlStep!TypeOK
<1>8. asked' \in Seq(AnswerRow)'
  BY <1>2 DEF SqlInv, AnswerRow, SqlStep!Says
<1>9. CASE OnRecord
  <2>1. Chain(srole, sleft) /\ Stands(r, w) /\ sitem.said = "record" /\ sleft \in Lefts(srole)
    BY <1>1, <1>5, <1>9, LeftsChain DEF OnRecord
  <2>2. w \notin {"join", "pair"}
    BY <1>1, <2>1 DEF Chain
  <2>3. sjoined' = sjoined /\ pairs' = pairs
    BY <1>2, <2>2
  <2>4. SqlStep!TypeOK'
    BY <1>2, <1>4, <1>7, <2>1, <2>3 DEF SqlInv, SqlStep!TypeOK, Chain
  <2>5. RowsWait'
    BY <1>2, <2>1 DEF SqlInv, RowsWait
  <2>6. ToldWritten'
    <3>1. SUFFICES ASSUME NEW p \in told, p[2] # "unknown"
                   PROVE  p \in pairs /\ p[2] \in sjoined
      BY <1>2, <2>3 DEF ToldWritten
    <3>2. p[2] # "record"
      BY <1>6, <3>1 DEF SqlInv, SqlStep!TypeOK
    <3> QED
      BY <2>1, <3>1, <3>2 DEF SqlInv, ToldWritten
  <2>7. SqlStep!FinishedWithChildren'
    <3>1. \A p \in told : p[2] # "unknown" => p \in pairs' /\ p[2] \in sjoined'
      <4>1. \A p \in told : p[2] # "record"
        BY <1>6 DEF SqlInv, SqlStep!TypeOK
      <4> QED
        BY <2>1, <2>3, <4>1 DEF SqlInv, ToldWritten
    <3>2. \A c \in sjoined' : c # "record"
      BY <1>6, <2>3 DEF SqlInv, SqlStep!TypeOK
    <3> QED
      BY <1>2, <2>1, <2>3, <3>1, <3>2 DEF SqlInv, SqlStep!FinishedWithChildren
  <2>8. \A s \in SqlRecords \ {r} :
          /\ sverdict'[s] = sverdict[s]
          /\ event'[s] = event[s]
          /\ s \in advanced' <=> s \in advanced
          /\ s \in written' <=> s \in written
    BY <1>2, <1>7
  <2>9. SqlStep!Cut(r)' = SqlStep!Cut(r) /\ \A s \in SqlRecords : SqlStep!Cut(s)'
        <=> SqlStep!Cut(s)
    BY <1>2 DEF SqlStep!Cut
  <2>10. SqlStep!JudgedAsRecorded'
    <3>1. SUFFICES ASSUME NEW s \in SqlRecords
                   PROVE  /\ s \in advanced' =>
                               /\ event'[s] \in {"out", "empty"}
                               /\ srole \in {"filter", "predicate"} => sverdict'[s] = "pass"
                               /\ srole \in {"transform", "text"} /\ event'[s] = "out"
                                  => s \in written'
                          /\ sverdict'[s] = "fail" =>
                               s \notin advanced'
                                     /\ (event'[s] = "filtered" \/ s = sitem'.id
                                        \/ SqlStep!Cut(s)')
      BY <1>2, <2>4 DEF SqlStep!JudgedAsRecorded, SqlStep!TypeOK
    <3>2. CASE s # r
      <4>1. sverdict[s] = "fail" => s \notin advanced /\ (event[s] = "filtered" \/ SqlStep!Cut(s))
        BY <1>1, <3>2 DEF SqlInv, SqlStep!JudgedAsRecorded
      <4> QED
        BY <2>8, <2>9, <3>2, <4>1 DEF SqlInv, SqlStep!JudgedAsRecorded
    <3>3. CASE s = r
      <4>1. CASE w = "state"
        BY <1>2, <1>4, <1>7, <2>1, <3>3, <4>1 DEF Stands
      <4>2. CASE w = "filtered"
        BY <1>2, <1>4, <1>7, <3>3, <4>2
      <4>3. CASE w \notin {"state", "filtered"}
        <5>1. s \notin advanced'
          BY <1>2, <1>4, <3>3, <4>3
        <5>2. sverdict[r] # "fail"
          BY <2>1, <4>3 DEF Stands
        <5>3. sverdict'[s] = "fail" => w = "fail"
          BY <1>2, <1>4, <1>7, <3>3, <5>2
        <5>4. w = "fail" => Len(sleft) # 1
          BY <1>1, <2>1 DEF Chain
        <5> QED
          BY <1>1, <1>2, <3>3, <5>1, <5>3, <5>4
      <4> QED
        BY <4>1, <4>2, <4>3
    <3> QED
      BY <3>2, <3>3
  <2>11. CASE Len(sleft) = 1
    <3>1. sitem' = SqlStep!Nothing /\ sleft' = <<>> /\ stodo' = stodo \ {r}
      BY <1>2, <2>1, <2>11 DEF Chain
    <3>2. Unjudged'
      <4>1. \A s \in stodo \ {r} : s \in SqlRecords /\ s \notin advanced /\ sverdict[s] # "fail"
        BY <1>1 DEF SqlInv, SqlStep!TypeOK, Unjudged
      <4> QED
        BY <2>8, <3>1, <4>1 DEF Unjudged
    <3> QED
      BY <1>8, <2>4, <2>5, <2>6, <2>7, <2>10, <3>1, <3>2 DEF SqlInv, WritesLeft
  <2>12. CASE Len(sleft) # 1
    <3>1. sitem' = sitem /\ stodo' = stodo
      BY <1>2, <2>12
    <3>2. PICK v, l : v = Head(Tail(sleft)) /\ l = Tail(sleft)
      OBVIOUS
    <3>3. l \in Lefts(srole) /\ v \in Follows(srole, w) /\ sleft' = l /\ v = Head(l)
      BY <1>1, <1>2, <2>1, <2>12, <3>2 DEF Chain
    <3>4. w \in {"pass", "fail", "write", "out", "empty", "claimed"}
      BY <1>1, <2>1, <2>12 DEF Chain
    <3>5. Unjudged'
      <4>1. \A s \in stodo \ {r} : s \in SqlRecords /\ s \notin advanced /\ sverdict[s] # "fail"
        BY <1>1 DEF SqlInv, SqlStep!TypeOK, Unjudged
      <4>2. r \notin advanced'
        BY <1>2, <1>4, <3>4
      <4> QED
        BY <1>1, <2>8, <3>1, <4>1, <4>2 DEF Unjudged
    <3>6. Stands(r, v)'
      <4>r. r \in SqlRecords /\ srole' = srole
        BY <1>2, <1>4
      <4>1. CASE w = "pass"
        <5>1. v = "out" /\ srole \in {"filter", "predicate"} /\ sverdict'[r] = "pass"
          BY <1>1, <1>2, <1>4, <1>7, <2>1, <3>3, <4>1 DEF Chain, Follows
        <5> QED
          BY <4>r, <5>1 DEF Stands
      <4>2. CASE w = "fail"
        BY <1>2, <1>4, <1>7, <2>1, <3>3, <4>2 DEF Stands, Follows
      <4>3. CASE w = "write"
        <5>1. v = "out" /\ srole \in {"transform", "text"} /\ r \in written'
              /\ sverdict' = sverdict
          BY <1>1, <1>2, <1>4, <2>1, <3>3, <4>3 DEF Chain, Follows
        <5>2. sverdict[r] # "fail"
          BY <2>1, <4>3 DEF Stands
        <5> QED
          BY <4>r, <5>1, <5>2 DEF Stands
      <4>4. CASE w \in {"out", "empty"}
        <5>1. v = "state" /\ event'[r] = w /\ sverdict' = sverdict /\ written' = written
          BY <1>2, <1>4, <1>7, <3>3, <4>4 DEF Follows
        <5>2. /\ sverdict[r] # "fail"
              /\ srole \in {"filter", "predicate"} => w = "out"
          BY <1>1, <2>1, <4>4 DEF Stands, Chain
        <5>3. /\ w = "out" /\ srole \in {"filter", "predicate"} => sverdict[r] = "pass"
              /\ w = "out" /\ srole \in {"transform", "text"} => r \in written
          BY <2>1 DEF Stands
        <5> QED
          BY <4>r, <4>4, <5>1, <5>2, <5>3 DEF Stands
      <4>5. CASE w = "claimed"
        BY <1>2, <1>4, <1>7, <2>1, <3>3, <4>5 DEF Stands, Follows
      <4> QED
        BY <3>4, <4>1, <4>2, <4>3, <4>4, <4>5
    <3>7. OnRecord'
      <4>1. sitem'.id = r /\ sitem'.said = "record" /\ srole' = srole
        BY <1>1, <1>2, <2>1, <3>1
      <4> QED
        BY <3>3, <3>6, <4>1 DEF OnRecord, Stands
    <3>8. WritesLeft'
      BY <1>1, <1>3, <3>1, <3>7 DEF WritesLeft
    <3> QED
      BY <1>8, <2>4, <2>5, <2>6, <2>7, <2>10, <3>5, <3>8 DEF SqlInv
  <2> QED
    BY <2>11, <2>12
<1>10. CASE OnRow
  <2>1. srole = "traverse" /\ sitem.said \in Children \cup {"unknown"}
    BY <1>10 DEF OnRow
  <2>2. /\ UNCHANGED <<sverdict, advanced, written, stodo>>
        /\ \A s \in SqlRecords \ {r} : event'[s] = event[s]
        /\ Len(sleft') <= 4
    <3>1. w \in {"failed", "join", "pair"}
      BY <1>1, <1>10 DEF OnRow
    <3>2. Len(sleft') <= 4
      BY <1>2, <1>10 DEF OnRow
    <3> QED
      BY <1>2, <1>6, <1>7, <2>1, <3>1, <3>2
  <2>3. RowsWait' /\ Unjudged'
    <3>1. \A s \in stodo : s \in SqlRecords /\ (sverdict[s] = "fail" => s = r)
      BY <1>1 DEF SqlInv, SqlStep!TypeOK, Unjudged
    <3>2. sverdict[r] # "fail"
      BY <1>1, <1>10 DEF OnRow
    <3> QED
      BY <1>1, <1>2, <1>6, <2>1, <2>2, <3>1, <3>2 DEF SqlInv, RowsWait, Unjudged, SqlStep!Nothing
  <2>4. SqlStep!JudgedAsRecorded'
    <3>1. sverdict[r] # "fail"
      BY <1>1, <1>10 DEF OnRow
    <3>2. \A s \in SqlRecords : SqlStep!Cut(s)' <=> SqlStep!Cut(s)
      BY <1>2 DEF SqlStep!Cut
    <3>3. SUFFICES ASSUME NEW s \in SqlRecords
                   PROVE  /\ s \in advanced => event'[s] \in {"out", "empty"}
                          /\ sverdict[s] = "fail" =>
                               s \notin advanced /\ (event'[s] = "filtered" \/ SqlStep!Cut(s)')
      <4>1. advanced' = advanced /\ sverdict' = sverdict /\ advanced \subseteq SqlRecords
        BY <2>2 DEF SqlInv, SqlStep!TypeOK
      <4>2. srole' = "traverse"
        BY <1>2, <2>1
      <4> QED
        BY <4>1, <4>2 DEF SqlStep!JudgedAsRecorded
    <3>4. CASE s = r
      BY <1>4, <3>1, <3>4
    <3>5. CASE s # r
      BY <1>1, <2>2, <3>2, <3>5 DEF SqlInv, SqlStep!JudgedAsRecorded
    <3> QED
      BY <3>4, <3>5
  <2>w. SqlStep!TypeOK' <=>
          sjoined' \subseteq Children /\ pairs' \subseteq SqlRecords \X Children
    BY <1>2, <1>7, <2>2 DEF SqlInv, SqlStep!TypeOK
  <2>c. \A p \in told : p \in SqlRecords \X (Children \cup {"unknown"})
    BY DEF SqlInv, SqlStep!TypeOK
  <2>5. CASE sitem.said = "unknown" /\ sleft = <<"failed">>
    <3>1. w = "failed" /\ sleft' = <<>> /\ sitem' = SqlStep!Nothing
      BY <1>1, <1>2, <2>5
    <3>2. sjoined' = sjoined /\ pairs' = pairs
      BY <1>2, <3>1
    <3>3. ToldWritten'
      BY <1>2, <2>5, <3>1, <3>2 DEF SqlInv, ToldWritten
    <3>4. SqlStep!FinishedWithChildren'
      <4>1. \A c \in sjoined : c # "unknown"
        BY <1>6 DEF SqlInv, SqlStep!TypeOK
      <4>2. \A p \in told : p[1] \in advanced /\ p[2] # "unknown" => p \in pairs
            /\ p[2] \in sjoined
        BY DEF SqlInv, SqlStep!FinishedWithChildren
      <4>3. \A c \in sjoined : (\E p \in pairs : p[2] = c) \/ \E i \in scut : i.said = c
        BY <2>5, <4>1 DEF SqlInv, SqlStep!FinishedWithChildren
      <4> QED
        BY <1>2, <2>2, <3>2, <4>2, <4>3 DEF SqlStep!FinishedWithChildren
    <3>5. WritesLeft' /\ SqlStep!TypeOK'
      BY <2>w, <3>1, <3>2 DEF WritesLeft, SqlInv, SqlStep!TypeOK
    <3> QED
      BY <1>8, <2>3, <2>4, <3>3, <3>4, <3>5 DEF SqlInv
  <2>6. CASE sitem.said \in Children /\ sleft = <<"join", "pair">>
    <3>1. w = "join" /\ sleft' = <<"pair">> /\ sitem' = sitem
      BY <1>1, <1>2, <2>6
    <3>2. sjoined' = sjoined \cup {sitem.said} /\ pairs' = pairs
      BY <1>2, <3>1
    <3>3. ToldWritten'
      BY <1>2, <3>1, <3>2 DEF SqlInv, ToldWritten
    <3>4. SqlStep!FinishedWithChildren'
      BY <1>2, <2>2, <3>1, <3>2 DEF SqlInv, SqlStep!FinishedWithChildren
    <3>5. OnRow'
      BY <1>1, <1>2, <1>10, <2>1, <2>2, <2>6, <3>1, <3>2 DEF OnRow
    <3>6. WritesLeft' /\ SqlStep!TypeOK'
      BY <1>1, <1>3, <2>2, <2>6, <2>w, <3>1, <3>2, <3>5 DEF WritesLeft, SqlInv, SqlStep!TypeOK
    <3> QED
      BY <1>8, <2>3, <2>4, <3>3, <3>4, <3>6 DEF SqlInv
  <2>7. CASE sitem.said \in Children /\ sleft = <<"pair">> /\ sitem.said \in sjoined
    <3>1. w = "pair" /\ sleft' = <<>> /\ sitem' = SqlStep!Nothing
      BY <1>1, <1>2, <2>7
    <3>2. sjoined' = sjoined /\ pairs' = pairs \cup {<<r, sitem.said>>}
      BY <1>2, <3>1
    <3>3. ToldWritten'
      BY <1>1, <1>2, <2>7, <3>1, <3>2 DEF SqlInv, ToldWritten
    <3>4. SqlStep!FinishedWithChildren'
      <4>1. <<r, sitem.said>>[2] = sitem.said
        OBVIOUS
      <4>2. \A p \in told : p[1] \in advanced /\ p[2] # "unknown" => p \in pairs
            /\ p[2] \in sjoined
        BY DEF SqlInv, SqlStep!FinishedWithChildren
      <4>3. \A c \in sjoined : (\E p \in pairs' : p[2] = c) \/ \E i \in scut : i.said = c
        BY <3>2, <4>1 DEF SqlInv, SqlStep!FinishedWithChildren
      <4> QED
        BY <1>2, <2>2, <3>2, <4>2, <4>3 DEF SqlStep!FinishedWithChildren
    <3>5. WritesLeft' /\ SqlStep!TypeOK'
      BY <1>4, <2>7, <2>w, <3>1, <3>2 DEF WritesLeft, SqlInv, SqlStep!TypeOK
    <3> QED
      BY <1>8, <2>3, <2>4, <3>3, <3>4, <3>5 DEF SqlInv
  <2> QED
    BY <1>10, <2>5, <2>6, <2>7 DEF OnRow
<1> QED
  BY <1>3, <1>9, <1>10

(* A kill leaves the item half-way; the next process starts over.          *)
LEMMA SqlKillKeeps == ASSUME SqlStep!SqlStepAssumption, SqlInv, SqlStep!Kill PROVE SqlInv'
<1>1. /\ asked' = <<>> /\ stodo' = {} /\ sitem' = SqlStep!Nothing /\ sleft' = <<>>
      /\ scut' = IF sleft = <<>> THEN scut ELSE scut \cup {sitem}
      /\ told' = {p \in told : p[1] \in advanced}
      /\ UNCHANGED <<srole, advanced, sverdict, event, written, sjoined, pairs>>
  BY DEF SqlStep!Kill, SqlStep!ledger
<1>2. skills' \in 0..MaxKills
  BY DEF SqlStep!Kill, SqlInv, SqlStep!TypeOK, SqlStep!SqlStepAssumption
<1>3. sleft # <<>> => sitem \in scut' /\ sitem.id \in stodo /\ sitem.id \notin advanced
  BY <1>1 DEF SqlInv, WritesLeft, Unjudged
<1>4. sleft = <<>> => sitem = [id |-> 0, said |-> "nothing"]
  BY DEF SqlInv, WritesLeft, SqlStep!Nothing, OnRecord, OnRow, Lefts,
        SqlStep!SqlStepAssumption, SqlStep!TypeOK
<1>5. 0 \notin SqlRecords /\ "nothing" \notin Children
  BY DEF SqlStep!SqlStepAssumption
<1>6. ToldWritten'
  <2>1. SUFFICES ASSUME NEW p \in told, p[1] \in advanced, p[2] # "unknown"
                 PROVE  p \in pairs /\ p[2] \in sjoined
    BY <1>1 DEF ToldWritten
  <2> QED
    BY <2>1 DEF SqlInv, SqlStep!FinishedWithChildren
<1>7. SqlStep!JudgedAsRecorded'
  <2>1. \A s \in SqlRecords : SqlStep!Cut(s) => SqlStep!Cut(s)'
    BY <1>1 DEF SqlStep!Cut
  <2>2. \A s \in SqlRecords : s = sitem.id => SqlStep!Cut(s)'
    BY <1>3, <1>4, <1>5 DEF SqlStep!Cut
  <2> QED
    BY <1>1, <2>1, <2>2 DEF SqlInv, SqlStep!JudgedAsRecorded
<1>8. SqlStep!FinishedWithChildren'
  <2>1. \A c \in sjoined : c = sitem.said => \E i \in scut' : i.said = c
    BY <1>3, <1>4, <1>5 DEF SqlInv, SqlStep!TypeOK
  <2>2. \A c \in sjoined : (\E p \in pairs : p[2] = c) \/ \E i \in scut' : i.said = c
    BY <1>1, <2>1 DEF SqlInv, SqlStep!FinishedWithChildren
  <2> QED
    BY <1>1, <2>2 DEF SqlInv, SqlStep!FinishedWithChildren
<1>9. SqlStep!TypeOK' /\ WritesLeft' /\ Unjudged' /\ RowsWait' /\ asked' \in Seq(AnswerRow)'
  BY <1>1, <1>2 DEF SqlInv, SqlStep!TypeOK, WritesLeft, Unjudged, RowsWait
<1> QED
  BY <1>6, <1>7, <1>8, <1>9 DEF SqlInv

(* Every step keeps the invariant.                                         *)
LEMMA SqlNext == ASSUME SqlStep!SqlStepAssumption, SqlInv,
      [SqlStep!Next]_(SqlStep!sqlVars) PROVE SqlInv'
<1>1. CASE UNCHANGED SqlStep!sqlVars
  BY <1>1 DEF SqlStep!sqlVars, SqlInv, SqlStep!TypeOK, WritesLeft, OnRecord, OnRow, Stands,
        Unjudged, RowsWait, ToldWritten,
     SqlStep!JudgedAsRecorded, SqlStep!FinishedWithChildren, SqlStep!Cut, AnswerRow, SqlStep!Says
<1> QED
  BY <1>1, SqlAskKeeps, SqlAskFailsKeeps, SqlTakeRowKeeps, SqlTakeRecordKeeps, SqlWriteKeeps,
        SqlKillKeeps DEF SqlStep!Next

(* The invariant of a step that asks the ledger, in every behaviour of     *)
(* it.                                                                     *)
THEOREM SqlInvariance == ASSUME SqlStep!SqlStepAssumption PROVE SqlStep!Spec => []SqlInv
<1>1. SqlStep!Init => SqlInv
  BY SqlInit
<1>2. SqlInv /\ [SqlStep!Next]_(SqlStep!sqlVars) => SqlInv'
  BY SqlNext
<1> QED
  BY <1>1, <1>2, PTL DEF SqlStep!Spec

(* A record goes past a step only as its newest judgment says, and a       *)
(* parent is finished only when every child its answer named is in the     *)
(* run (sqlstep.go, traverse.go).                                         *)
THEOREM SqlIsKept == ASSUME SqlStep!SqlStepAssumption PROVE SqlStep!Spec => []SqlStep!SqlHolds
<1>1. SqlInv => SqlStep!SqlHolds
  BY DEF SqlInv, SqlStep!SqlHolds
<1> QED
  BY <1>1, SqlInvariance, PTL

-----------------------------------------------------------------------------
(* Intake.                                                                 *)

(* What Intake picks and counts is what the lemmas are about.              *)
LEMMA IntakePicks ==
  ASSUME NEW s, NEW K
  PROVE  Intake!Picked(s, K) = Picked(s, K)
BY Zenon DEF Intake!Picked, Picked

LEMMA IntakeCounts ==
  ASSUME NEW S
  PROVE  Intake!Cardinality(S) = Cardinality(S)
BY Zenon DEF Intake!Cardinality, Cardinality

\* What a row's strongest key leads to.
FirstKey(keys, k) ==
  k \in DOMAIN Keys /\ Keys[k] \in keys /\ \A j \in 1..(k - 1) : Keys[j] \notin keys
KeyReached(keys) == \A k \in DOMAIN Keys : FirstKey(keys, k) => owner[Keys[k]] \in members
RowKeyed(r) == r.valid /\ Intake!KeysOf(r) # {}

Distinct(s) == \A i, j \in DOMAIN s : s[i] = s[j] => i = j

IntakeTyped ==
  /\ Intake!TypeOK
  /\ nkind = "adapter" => table \in Seq(Intake!Row)
  /\ nkind # "adapter" => table \in Seq(Intake!Ids) /\ Distinct(table)
     /\ (Limit > 0 => Len(table) <= Limit)
  /\ Distinct(oldest)

\* Where the process is, by what it does next.
IntakeAt ==
  /\ npc \in {"add", "refer"} => nkind = "adapter" /\ pos < Len(table)
     /\ RowKeyed(Intake!row) /\ ident \in Intake!Ids
  /\ npc = "select" => nkind # "adapter" /\ pos = 0 /\ count = 0
  /\ npc = "over" => ndone # Intake!NotDone
  /\ npc \in {"row", "add", "refer", "select"} => ndone = Intake!NotDone
  /\ npc = "refer" => ident \in members

\* The identity of the row in hand is the one its strongest key leads to.
KeyLeads == npc \in {"add", "refer"} =>
  \A k \in DOMAIN Keys : FirstKey(Intake!KeysOf(Intake!row), k) => owner[Keys[k]] = ident

RowsDealt ==
  /\ nkind = "adapter" /\ (npc # "down" \/ ndone # Intake!NotDone) =>
       \A i \in 1..Len(table) : (i <= pos \/ ndone # Intake!NotDone) /\ RowKeyed(table[i]) =>
         KeyReached(Intake!KeysOf(table[i]))
  /\ nkind # "adapter" /\ (npc # "down" \/ ndone # Intake!NotDone) =>
       \A i \in 1..Len(table) : (i <= pos \/ ndone # Intake!NotDone) => table[i] \in members

RelationTold(i) ==
  \/ <<i, company[i]>> \in edges
  \/ i \in ncut \/ <<i, company[i]>> \in coalesced \/ company[i] \in bare
RowsRelated == \A i \in Intake!Ids : company[i] # Intake!NoCompany =>
  RelationTold(i) \/ (npc \in {"add", "refer"} /\ i = ident /\ company[i] = Intake!row.company)

RowsCounted ==
  /\ nkind = "adapter" => merged + count <= pos
  /\ nkind = "adapter" /\ ncut = {} /\ ndone # Intake!NotDone
     => ndone = Cardinality(members) - before
  /\ nkind = "adapter" /\ ncut = {} /\ npc \in {"row", "add"}
     => count = Cardinality(members) - before
  /\ nkind = "adapter" /\ ncut = {} /\ npc = "refer" => count + 1 = Cardinality(members) - before

\* A group source of one process.
OneChoice ==
  nkind # "adapter" /\ breaks = 0 =>
    /\ npc \in {"down", "select"} => members = {} /\ ndone = Intake!NotDone
    /\ npc = "row" => /\ members = {table[i] : i \in 1..pos}
                      /\ Cardinality(members) = pos /\ count = pos
    /\ ndone # Intake!NotDone => ndone = Cardinality(members)
    /\ Limit > 0 => Cardinality(members) <= Limit

IntakeInv ==
  /\ IntakeTyped /\ IntakeAt /\ KeyLeads /\ RowsDealt /\ RowsRelated /\ RowsCounted /\ OneChoice

(* What the assumption says of the constants.                              *)
LEMMA IntakeFacts ==
  ASSUME Intake!IntakeAssumption
  PROVE  /\ Keys \in Seq(Intake!SetOf(Keys)) /\ Intake!NoKey \notin Intake!SetOf(Keys)
            /\ Intake!NoCompany \notin Companies
         /\ MaxIds \in Nat /\ MaxBreaks \in Nat /\ MaxChanges \in Nat /\ Limit \in Nat
         /\ Intake!Ids = 1..MaxIds /\ IsFiniteSet(Intake!Ids)
         /\ Kinds \subseteq {"adapter", "group", "once"}
         /\ \A k \in DOMAIN Keys : Keys[k] \in Intake!SetOf(Keys)
<1>1. IsFiniteSet(1..MaxIds)
  BY FS_Interval DEF Intake!IntakeAssumption
<1> QED
  BY <1>1 DEF Intake!IntakeAssumption, Intake!Ids, Intake!SetOf

(* The run has finitely many records.                                      *)
LEMMA MembersFinite ==
  ASSUME Intake!IntakeAssumption, IntakeTyped
  PROVE  IsFiniteSet(members) /\ Cardinality(members) \in Nat
BY IntakeFacts, FS_Subset, FS_CardinalityType DEF IntakeTyped, Intake!TypeOK

(* One more record is one more counted.                                    *)
LEMMA MemberMore ==
  ASSUME Intake!IntakeAssumption, IntakeTyped, NEW i, i \notin members
  PROVE  Cardinality(members \cup {i}) = Cardinality(members) + 1
BY MembersFinite, FS_AddElement

(* The run is empty.                                                       *)
LEMMA IntakeInit == ASSUME Intake!IntakeAssumption, Intake!Init PROVE IntakeInv
<1> USE DEF Intake!Init, Intake!NotDone
<1>1. Intake!TypeOK
  <2>1. owner \in [Intake!SetOf(Keys) -> 0..MaxIds] /\ minted \in 0..MaxIds
    BY IntakeFacts
  <2>2. oldest \in Seq(Intake!Ids)
    BY DEF Intake!IntakeAssumption
  <2>3. company \in [Intake!Ids -> Companies \cup {Intake!NoCompany}]
    OBVIOUS
  <2> QED
    BY <2>1, <2>2, <2>3, IntakeFacts DEF Intake!TypeOK
<1>2. IntakeTyped
  <2>1. table = <<>> /\ table \in Seq(Intake!Row) /\ table \in Seq(Intake!Ids) /\ Distinct(table)
    BY DEF Distinct
  <2>2. Distinct(oldest)
    BY DEF Intake!IntakeAssumption, Distinct
  <2>3. Limit > 0 => Len(table) <= Limit
    BY <2>1, IntakeFacts
  <2> QED
    BY <1>1, <2>1, <2>2, <2>3 DEF IntakeTyped
<1>3. IntakeAt /\ KeyLeads /\ RowsDealt /\ RowsRelated
  BY DEF IntakeAt, KeyLeads, RowsDealt, RowsRelated
<1>4. RowsCounted /\ OneChoice
  <2>1. Cardinality(members) = 0
    BY FS_EmptySet
  <2> QED
    BY <2>1, IntakeFacts DEF RowsCounted, OneChoice
<1> QED
  BY <1>2, <1>3, <1>4 DEF IntakeInv

(* A process begins: it finds the source done, or opens a session, or      *)
(* chooses.                                                                *)
LEMMA IntakeBeginKeeps == ASSUME Intake!IntakeAssumption, IntakeInv, Intake!Begin PROVE IntakeInv'
<1> USE DEF Intake!ledger, Intake!others
<1>1. /\ npc = "down" /\ pos' = 0 /\ ident' = 0 /\ count' = 0 /\ merged' = 0
      /\ UNCHANGED <<owner, minted, company, edges, nkind, oldest, ended, changes, members, ndone,
                      breaks, ncut, coalesced, bare>>
  BY DEF Intake!Begin
<1>2. \A i : RelationTold(i)' <=> RelationTold(i)
  BY <1>1 DEF RelationTold
<1>3. RowsRelated'
  BY <1>1, <1>2 DEF IntakeInv, RowsRelated
<1>4. \A keys : KeyReached(keys)' <=> KeyReached(keys)
  BY <1>1 DEF KeyReached
<1>5. Cardinality(members) \in Nat
  BY MembersFinite DEF IntakeInv
<1>6. CASE ndone # Intake!NotDone
  <2>1. npc' = "over" /\ UNCHANGED <<table, before>>
    BY <1>6 DEF Intake!Begin, Intake!Sourced
  <2>z. 0 \in 0..Len(table) /\ 0 \in 0..MaxIds /\ 0 \in Nat
    BY IntakeFacts DEF IntakeInv, IntakeTyped, Intake!TypeOK
  <2>2. IntakeTyped'
    BY <1>1, <2>1, <2>z DEF IntakeInv, IntakeTyped, Intake!TypeOK
  <2>3. IntakeAt' /\ KeyLeads' /\ RowsCounted' /\ OneChoice'
    BY <1>1, <1>6, <2>1 DEF IntakeInv, IntakeAt, KeyLeads, RowsCounted, OneChoice
  <2>4. RowsDealt'
    BY <1>1, <1>4, <1>6, <2>1 DEF IntakeInv, RowsDealt, RowKeyed
  <2> QED
    BY <1>3, <2>2, <2>3, <2>4 DEF IntakeInv
<1>7. CASE ndone = Intake!NotDone
  <2>1. before' = Cardinality(members)
    BY <1>7, IntakeCounts DEF Intake!Begin, Intake!Sourced
  <2>2. \/ nkind = "adapter" /\ npc' = "row" /\ table' \in Tables
        \/ nkind # "adapter" /\ npc' = "select" /\ UNCHANGED table
    BY <1>7 DEF Intake!Begin, Intake!Sourced
  <2>3. IntakeTyped'
    <3>1. nkind = "adapter" => table' \in Seq(Intake!Row)
      BY <2>2 DEF Intake!IntakeAssumption
    <3>2. 0 \in 0..Len(table')
      BY <2>2, <3>1 DEF IntakeInv, IntakeTyped, Intake!TypeOK
    <3>3. Intake!Row' = Intake!Row
      OBVIOUS
    <3>4. Intake!TypeOK'
      <4>1. /\ pos' \in 0..Len(table') /\ ident' \in 0..MaxIds
            /\ count' \in Nat /\ merged' \in Nat /\ before' \in Nat
        BY <1>1, <1>5, <2>1, <3>2, IntakeFacts
      <4>2. npc' \in {"down", "row", "add", "refer", "select", "over"}
        BY <2>2
      <4> QED
        BY <1>1, <4>1, <4>2 DEF IntakeInv, IntakeTyped, Intake!TypeOK
    <3>5. nkind # "adapter" => table' \in Seq(Intake!Ids) /\ Distinct(table')
                              /\ (Limit > 0 => Len(table') <= Limit)
      BY <2>2 DEF IntakeInv, IntakeTyped
    <3>6. Distinct(oldest) /\ UNCHANGED <<nkind, oldest>>
      BY <1>1 DEF IntakeInv, IntakeTyped
    <3> QED
      BY <3>1, <3>3, <3>4, <3>5, <3>6 DEF IntakeTyped, Distinct
  <2>4. IntakeAt' /\ KeyLeads' /\ RowsDealt'
    BY <1>1, <1>7, <2>2 DEF IntakeInv, IntakeAt, KeyLeads, RowsDealt
  <2>5. RowsCounted' /\ OneChoice'
    BY <1>1, <1>5, <1>7, <2>1, <2>2 DEF IntakeInv, RowsCounted, OneChoice
  <2> QED
    BY <1>3, <2>3, <2>4, <2>5 DEF IntakeInv
<1> QED
  BY <1>6, <1>7

\* The row is dealt with: its key, if it has one, leads to a member.
LEMMA DealtOne ==
  ASSUME Intake!IntakeAssumption, IntakeInv, nkind = "adapter", npc \in {"row", "add", "refer"},
         pos < Len(table), Intake!Deal, UNCHANGED <<nkind, owner, table, ndone>>,
         members \subseteq members',
         RowKeyed(Intake!row) => \A k \in DOMAIN Keys : FirstKey(Intake!KeysOf(Intake!row), k) =>
                                   owner[Keys[k]] \in members'
  PROVE  RowsDealt'
<1>1. ndone = Intake!NotDone /\ pos \in Nat /\ Len(table) \in Nat
  BY DEF IntakeInv, IntakeAt, IntakeTyped, Intake!TypeOK
<1>2. \A i \in 1..Len(table) : i <= pos /\ RowKeyed(table[i])
      => KeyReached(Intake!KeysOf(table[i]))
  BY DEF IntakeInv, RowsDealt
<1>3. SUFFICES ASSUME NEW i \in 1..Len(table), i <= pos + 1, RowKeyed(table[i])
               PROVE  KeyReached(Intake!KeysOf(table[i]))'
  BY <1>1 DEF RowsDealt, Intake!Deal, RowKeyed
<1>4. CASE i <= pos
  BY <1>2, <1>3, <1>4 DEF KeyReached
<1>5. CASE i = pos + 1
  BY <1>3, <1>5 DEF KeyReached, Intake!row
<1> QED
  BY <1>1, <1>3, <1>4, <1>5

(* A row that is dropped needs no record.                                  *)
LEMMA IntakeDropKeeps == ASSUME Intake!IntakeAssumption, IntakeInv, Intake!Drop PROVE IntakeInv'
<1> USE DEF Intake!ledger, Intake!others, Intake!history
<1>1. /\ npc = "row" /\ nkind = "adapter" /\ pos < Len(table) /\ ~RowKeyed(Intake!row)
      /\ pos' = pos + 1 /\ npc' = "row" /\ Intake!Deal
      /\ UNCHANGED <<owner, minted, company, edges, nkind, oldest, ended, changes, members, ndone,
                      table, ident, count, merged, breaks, before, ncut, coalesced, bare>>
  BY DEF Intake!Drop, Intake!Deal, RowKeyed
<1>2. pos \in Nat /\ Len(table) \in Nat /\ pos + 1 \in 0..Len(table) /\ merged \in Nat
      /\ count \in Nat
  BY <1>1 DEF IntakeInv, IntakeTyped, Intake!TypeOK
<1>3. RowsDealt'
  BY <1>1, DealtOne
<1>4. IntakeTyped'
  BY <1>1, <1>2 DEF IntakeInv, IntakeTyped, Intake!TypeOK
<1>5. RowsRelated'
  BY <1>1 DEF IntakeInv, RowsRelated, RelationTold
<1>6. IntakeAt' /\ KeyLeads' /\ RowsCounted' /\ OneChoice'
  BY <1>1, <1>2 DEF IntakeInv, IntakeAt, KeyLeads, RowsCounted, OneChoice
<1> QED
  BY <1>3, <1>4, <1>5, <1>6 DEF IntakeInv

(* A row is written: its keys lead to one identity from now on.            *)
LEMMA IntakeWriteKeeps == ASSUME Intake!IntakeAssumption, IntakeInv, Intake!Write PROVE IntakeInv'
<1> USE DEF Intake!ledger, Intake!others, Intake!history
<1>1. PICK i \in Intake!Ids : i = Intake!Resolved(Intake!KeysOf(Intake!row))
  BY DEF Intake!Write
<1>2. PICK r : r = Intake!row
  OBVIOUS
<1>3. /\ npc = "row" /\ nkind = "adapter" /\ pos < Len(table) /\ RowKeyed(r)
      /\ minted' = IF i > minted THEN i ELSE minted
      /\ owner' = [k \in Intake!SetOf(Keys) |-> IF k \in Intake!KeysOf(r) /\ owner[k] = 0
         THEN i ELSE owner[k]]
      /\ company' = IF r.company = Intake!NoCompany THEN company
         ELSE [company EXCEPT ![i] = r.company]
      /\ ident' = i /\ npc' = "add"
      /\ UNCHANGED <<edges, nkind, oldest, ended, changes, members, ndone, table, pos, count,
         merged,
                      breaks, before, ncut, coalesced, bare>>
  BY <1>1, <1>2 DEF Intake!Write, RowKeyed
<1>4. Intake!row' = r /\ pos \in Nat /\ Len(table) \in Nat /\ r = table[pos + 1]
      /\ r \in Intake!Row
  BY <1>2, <1>3 DEF IntakeInv, IntakeTyped, Intake!TypeOK, Intake!row
<1>5. i \in 1..MaxIds /\ MaxIds \in Nat
  BY IntakeFacts
<1>6. IntakeTyped'
  <2>1. owner' \in [Intake!SetOf(Keys) -> 0..MaxIds] /\ minted' \in 0..MaxIds
    BY <1>3, <1>5 DEF IntakeInv, IntakeTyped, Intake!TypeOK
  <2>2. company' \in [Intake!Ids -> Companies \cup {Intake!NoCompany}]
    BY <1>3, <1>4 DEF IntakeInv, IntakeTyped, Intake!TypeOK, Intake!Row
  <2>3. ident' \in 0..MaxIds
    BY <1>3, <1>5
  <2> QED
    BY <1>3, <2>1, <2>2, <2>3 DEF IntakeInv, IntakeTyped, Intake!TypeOK
<1>7. IntakeAt'
  BY <1>3, <1>4 DEF IntakeInv, IntakeAt, RowKeyed, Intake!KeysOf
<1>8. \A k \in Intake!SetOf(Keys) : owner[k] # 0 => owner'[k] = owner[k]
  BY <1>3
<1>9. KeyLeads'
  <2>1. SUFFICES ASSUME NEW k \in DOMAIN Keys, FirstKey(Intake!KeysOf(r), k)
                 PROVE  owner'[Keys[k]] = i
    BY <1>3, <1>4 DEF KeyLeads, FirstKey, Intake!KeysOf
  <2>2. Keys[k] \in Intake!SetOf(Keys) /\ Keys[k] \in Intake!KeysOf(r)
    BY <2>1, IntakeFacts DEF FirstKey
  <2>3. CASE owner[Keys[k]] = 0
    BY <1>3, <2>2, <2>3
  <2>4. CASE owner[Keys[k]] # 0
    <3> DEFINE K == Intake!Known(Intake!KeysOf(r))
    <3>1. k \in K /\ K \subseteq DOMAIN Keys
      BY <2>2, <2>4 DEF Intake!Known
    <3>2. DOMAIN Keys = 1..Len(Keys) /\ Len(Keys) \in Nat
      BY IntakeFacts
    <3>3. \A j \in K : k <= j
      <4>1. TAKE j \in K
      <4>2. Keys[j] \in Intake!KeysOf(r)
        BY DEF Intake!Known
      <4>3. ~(j \in 1..(k - 1))
        BY <2>1, <4>2 DEF FirstKey
      <4> QED
        BY <3>1, <3>2, <4>3
    <3>4. (CHOOSE x \in K : \A j \in K : x <= j) = k
      BY <3>1, <3>2, <3>3
    <3>5. Intake!Resolved(Intake!KeysOf(r)) = owner[Keys[k]]
      BY <3>1, <3>4 DEF Intake!Resolved
    <3> QED
      BY <1>1, <1>2, <1>8, <2>2, <2>4, <3>5
  <2> QED
    BY <2>3, <2>4
<1>10. RowsDealt'
  <2>1. SUFFICES ASSUME NEW n \in 1..Len(table), n <= pos, RowKeyed(table[n])
                 PROVE  KeyReached(Intake!KeysOf(table[n]))'
    BY <1>3 DEF IntakeInv, IntakeAt, RowsDealt, RowKeyed
  <2>2. KeyReached(Intake!KeysOf(table[n]))
    BY <1>3, <2>1 DEF IntakeInv, RowsDealt
  <2>3. \A k \in DOMAIN Keys : owner[Keys[k]] \in members => owner'[Keys[k]] = owner[Keys[k]]
    BY SMTT(30), <1>8, IntakeFacts DEF IntakeInv, IntakeTyped, Intake!TypeOK
  <2> QED
    BY <1>3, <2>2, <2>3 DEF KeyReached, FirstKey, Intake!KeysOf
<1>11. RowsRelated'
  <2>1. SUFFICES ASSUME NEW j \in Intake!Ids, company'[j] # Intake!NoCompany
                 PROVE  RelationTold(j)' \/ (j = i /\ company'[j] = r.company)
    BY <1>3, <1>4 DEF RowsRelated
  <2>2. CASE j = i /\ r.company # Intake!NoCompany
    BY <1>3, <2>2 DEF IntakeInv, IntakeTyped, Intake!TypeOK
  <2>3. CASE ~(j = i /\ r.company # Intake!NoCompany)
    <3>1. company'[j] = company[j]
      BY <1>3, <2>3 DEF IntakeInv, IntakeTyped, Intake!TypeOK
    <3>2. RelationTold(j)
      BY <1>3, <2>1, <3>1 DEF IntakeInv, RowsRelated
    <3> QED
      BY <1>3, <3>1, <3>2 DEF RelationTold
  <2> QED
    BY <2>2, <2>3
<1>12. RowsCounted' /\ OneChoice'
  BY <1>3 DEF IntakeInv, RowsCounted, OneChoice
<1> QED
  BY <1>6, <1>7, <1>9, <1>10, <1>11, <1>12 DEF IntakeInv

(* The row is added, or coalesces with a record.                           *)
LEMMA IntakeAddKeeps == ASSUME Intake!IntakeAssumption, IntakeInv, Intake!Add PROVE IntakeInv'
<1> USE DEF Intake!ledger, Intake!others
<1>1. PICK r : r = Intake!row
  OBVIOUS
<1>2. /\ npc = "add" /\ nkind = "adapter" /\ pos < Len(table) /\ RowKeyed(r)
         /\ ident \in Intake!Ids
      /\ ndone = Intake!NotDone
  BY <1>1 DEF Intake!Add, IntakeInv, IntakeAt
<1>3. /\ members' = members \cup {ident}
      /\ UNCHANGED <<owner, minted, company, edges, nkind, oldest, ended, changes, ndone, table,
                      ident, breaks, before, ncut, bare>>
  BY DEF Intake!Add
<1>4. pos \in Nat /\ Len(table) \in Nat /\ r = table[pos + 1] /\ r \in Intake!Row
      /\ merged \in Nat /\ count \in Nat /\ before \in Nat
  BY <1>1, <1>2 DEF IntakeInv, IntakeTyped, Intake!TypeOK, Intake!row
<1>5. Cardinality(members) \in Nat
  BY MembersFinite DEF IntakeInv
<1>6. r.company \in Companies \cup {Intake!NoCompany}
  BY <1>4 DEF Intake!Row
<1>7. CASE ident \in members
  <2>1. /\ members' = members /\ merged' = merged + 1 /\ pos' = pos + 1 /\ npc' = "row"
           /\ Intake!Deal
        /\ coalesced' = coalesced \cup {<<ident, r.company>>} /\ count' = count
    BY <1>1, <1>3, <1>7 DEF Intake!Add, Intake!Deal
  <2>2. IntakeTyped'
    <3>1. coalesced' \subseteq Intake!Ids \X (Companies \cup {Intake!NoCompany})
      BY <1>2, <1>6, <2>1 DEF IntakeInv, IntakeTyped, Intake!TypeOK
    <3> QED
      BY <1>2, <1>3, <1>4, <2>1, <3>1 DEF IntakeInv, IntakeTyped, Intake!TypeOK
  <2>3. RowsDealt'
    <3>1. RowKeyed(Intake!row) => \A k \in DOMAIN Keys : FirstKey(Intake!KeysOf(Intake!row), k) =>
                                    owner[Keys[k]] \in members'
      BY <1>2, <1>7, <2>1 DEF IntakeInv, KeyLeads
    <3> QED
      BY <1>2, <1>3, <2>1, <3>1, DealtOne
  <2>4. RowsRelated'
    <3>1. SUFFICES ASSUME NEW j \in Intake!Ids, company[j] # Intake!NoCompany
          PROVE RelationTold(j)'
      BY <1>3, <2>1 DEF RowsRelated
    <3>2. RelationTold(j) \/ (j = ident /\ company[j] = r.company)
      BY <1>1, <3>1 DEF IntakeInv, RowsRelated
    <3> QED
      BY <1>3, <2>1, <3>2 DEF RelationTold
  <2>5. IntakeAt' /\ KeyLeads'
    BY <1>2, <1>3, <2>1 DEF IntakeAt, KeyLeads
  <2>6. RowsCounted'
    <3>1. /\ merged' + count' <= pos'
          /\ ncut = {} => count = Cardinality(members) - before
      BY <1>2, <1>4, <2>1 DEF IntakeInv, RowsCounted
    <3> QED
      BY <1>2, <1>3, <2>1, <3>1 DEF RowsCounted
  <2>7. OneChoice'
    BY <1>2, <1>3 DEF OneChoice
  <2> QED
    BY <2>2, <2>3, <2>4, <2>5, <2>6, <2>7 DEF IntakeInv
<1>8. CASE ident \notin members
  <2>1. npc' = "refer" /\ UNCHANGED <<count, merged, pos, coalesced>>
    BY <1>8 DEF Intake!Add
  <2>2. Cardinality(members') = Cardinality(members) + 1
    BY <1>3, <1>8, MemberMore DEF IntakeInv
  <2>3. Intake!row' = r
    BY <1>3, <1>4, <2>1 DEF Intake!row
  <2>4. IntakeTyped'
    BY <1>2, <1>3, <2>1 DEF IntakeInv, IntakeTyped, Intake!TypeOK
  <2>5. IntakeAt' /\ KeyLeads'
    <3>2. KeyLeads'
      BY <1>1, <1>2, <1>3, <2>1, <2>3 DEF IntakeInv, KeyLeads, FirstKey, Intake!KeysOf
    <3>3. IntakeAt'
      BY <1>2, <1>3, <2>1, <2>3 DEF IntakeInv, IntakeAt, RowKeyed, Intake!KeysOf
    <3> QED
      BY <3>2, <3>3
  <2>6. RowsDealt'
    <3>1. SUFFICES ASSUME NEW n \in 1..Len(table), n <= pos, RowKeyed(table[n])
                   PROVE  KeyReached(Intake!KeysOf(table[n]))'
      BY <1>2, <1>3, <2>1 DEF RowsDealt, RowKeyed
    <3>2. KeyReached(Intake!KeysOf(table[n]))
      BY <1>2, <3>1 DEF IntakeInv, RowsDealt
    <3> QED
      BY <1>3, <3>2 DEF KeyReached
  <2>7. RowsRelated'
    BY <1>1, <1>2, <1>3, <2>1, <2>3 DEF IntakeInv, RowsRelated, RelationTold
  <2>8. RowsCounted' /\ OneChoice'
    BY <1>2, <1>3, <1>4, <1>5, <2>1, <2>2 DEF IntakeInv, RowsCounted, OneChoice
  <2> QED
    BY <2>4, <2>5, <2>6, <2>7, <2>8 DEF IntakeInv
<1> QED
  BY <1>7, <1>8

\* What the end of a row's references keeps, however it comes.
LEMMA Referred ==
  ASSUME Intake!IntakeAssumption, IntakeInv, npc = "refer", Intake!Deal,
         UNCHANGED <<owner, minted, company, nkind, oldest, ended, changes, members, ndone, table,
                     ident, merged, before, coalesced>>
  PROVE  /\ nkind = "adapter" /\ ident \in Intake!Ids /\ ndone = Intake!NotDone
         /\ pos \in Nat /\ count \in Nat /\ merged \in Nat /\ before \in Nat
         /\ pos' \in 0..Len(table)
         /\ RowsDealt' /\ IntakeAt' /\ KeyLeads'
<1>1. /\ nkind = "adapter" /\ ident \in Intake!Ids /\ ident \in members /\ ndone = Intake!NotDone
      /\ pos < Len(table) /\ RowKeyed(Intake!row)
  BY DEF IntakeInv, IntakeAt
<1>2. pos \in Nat /\ Len(table) \in Nat /\ count \in Nat /\ merged \in Nat /\ before \in Nat
  BY <1>1 DEF IntakeInv, IntakeTyped, Intake!TypeOK
<1>3. RowsDealt'
  <2>1. \A k \in DOMAIN Keys : FirstKey(Intake!KeysOf(Intake!row), k)
        => owner[Keys[k]] \in members'
    BY <1>1 DEF IntakeInv, KeyLeads
  <2> QED
    BY <1>1, <2>1, DealtOne
<1>4. IntakeAt' /\ KeyLeads'
  BY <1>1 DEF IntakeAt, KeyLeads, Intake!Deal
<1> QED
  BY <1>1, <1>2, <1>3, <1>4 DEF Intake!Deal

(* The row is related to its company.                                      *)
LEMMA IntakeReferKeeps == ASSUME Intake!IntakeAssumption, IntakeInv, Intake!Refer PROVE IntakeInv'
<1> USE DEF Intake!ledger, Intake!others
<1>1. PICK r : r = Intake!row
  OBVIOUS
<1>2. /\ npc = "refer" /\ Intake!Deal /\ count' = count + 1 /\ pos' = pos + 1 /\ npc' = "row"
      /\ UNCHANGED <<owner, minted, company, nkind, oldest, ended, changes, members, ndone, table,
                      ident, merged, breaks, before, ncut, coalesced>>
  BY DEF Intake!Refer, Intake!Deal
<1>3. \/ /\ edges' = IF r.company = Intake!NoCompany THEN edges
            ELSE edges \cup {<<ident, r.company>>}
         /\ bare' = bare
      \/ r.company # Intake!NoCompany /\ bare' = bare \cup {r.company} /\ edges' = edges
  BY <1>1 DEF Intake!Refer
<1>4. /\ nkind = "adapter" /\ ident \in Intake!Ids /\ ndone = Intake!NotDone
      /\ pos \in Nat /\ count \in Nat /\ merged \in Nat /\ before \in Nat
      /\ pos' \in 0..Len(table)
      /\ RowsDealt' /\ IntakeAt' /\ KeyLeads'
  BY <1>2, Referred
<1>5. r.company \in Companies \cup {Intake!NoCompany}
  <2>1. pos < Len(table) /\ Len(table) \in Nat
    BY <1>2 DEF IntakeInv, IntakeAt, IntakeTyped, Intake!TypeOK
  <2>2. r \in Intake!Row
    BY <1>1, <1>4, <2>1 DEF IntakeInv, IntakeTyped, Intake!row
  <2> QED
    BY <2>2 DEF Intake!Row
<1>6. Cardinality(members) \in Nat
  BY MembersFinite DEF IntakeInv
<1>7. IntakeTyped'
  <2>1. edges' \subseteq Intake!Ids \X Companies /\ bare' \subseteq Companies
    BY <1>3, <1>4, <1>5 DEF IntakeInv, IntakeTyped, Intake!TypeOK
  <2> QED
    BY <1>2, <1>4, <2>1 DEF IntakeInv, IntakeTyped, Intake!TypeOK
<1>8. RowsRelated'
  <2>1. SUFFICES ASSUME NEW j \in Intake!Ids, company[j] # Intake!NoCompany PROVE RelationTold(j)'
    BY <1>2 DEF RowsRelated
  <2>2. RelationTold(j) \/ (j = ident /\ company[j] = r.company)
    BY <1>1, <2>1 DEF IntakeInv, RowsRelated
  <2> QED
    BY <1>2, <1>3, <2>1, <2>2 DEF RelationTold
<1>9. RowsCounted' /\ OneChoice'
  BY <1>2, <1>4, <1>6 DEF IntakeInv, RowsCounted, OneChoice
<1> QED
  BY <1>4, <1>7, <1>8, <1>9 DEF IntakeInv

(* The company fails: the row is cut short.                                *)
LEMMA IntakeReferFailsKeeps == ASSUME Intake!IntakeAssumption, IntakeInv,
      Intake!ReferFails PROVE IntakeInv'
<1> USE DEF Intake!ledger, Intake!others
<1>1. /\ npc = "refer" /\ Intake!Deal /\ ncut' = ncut \cup {ident} /\ pos' = pos + 1
         /\ npc' = "row"
      /\ breaks' = breaks + 1 /\ breaks < MaxBreaks
      /\ UNCHANGED <<owner, minted, company, edges, nkind, oldest, ended, changes, members, ndone,
                      table, ident, count, merged, before, coalesced, bare>>
  BY DEF Intake!ReferFails, Intake!Deal
<1>2. /\ nkind = "adapter" /\ ident \in Intake!Ids /\ ndone = Intake!NotDone
      /\ pos \in Nat /\ count \in Nat /\ merged \in Nat /\ before \in Nat
      /\ pos' \in 0..Len(table)
      /\ RowsDealt' /\ IntakeAt' /\ KeyLeads'
  BY <1>1, Referred
<1>3. breaks' \in 0..MaxBreaks
  BY <1>1, IntakeFacts DEF IntakeInv, IntakeTyped, Intake!TypeOK
<1>4. IntakeTyped'
  BY <1>1, <1>2, <1>3 DEF IntakeInv, IntakeTyped, Intake!TypeOK
<1>5. RowsRelated'
  <2>1. SUFFICES ASSUME NEW j \in Intake!Ids, company[j] # Intake!NoCompany PROVE RelationTold(j)'
    BY <1>1 DEF RowsRelated
  <2>2. RelationTold(j) \/ j = ident
    BY <2>1 DEF IntakeInv, RowsRelated
  <2> QED
    BY <1>1, <2>2 DEF RelationTold
<1>6. RowsCounted' /\ OneChoice'
  BY <1>1, <1>2 DEF IntakeInv, RowsCounted, OneChoice
<1> QED
  BY <1>2, <1>4, <1>5, <1>6 DEF IntakeInv

\* What is picked of distinct elements is distinct.
LEMMA PickedDistinct ==
  ASSUME NEW S, NEW s \in Seq(S), NEW K, Distinct(s)
  PROVE  Distinct(Picked(s, K))
<1>1. PICK p : p = Picked(s, K)
  OBVIOUS
<1>2. p \in Seq(S) /\ DOMAIN p = 1..Len(p) /\ Len(p) \in Nat /\ DOMAIN s = 1..Len(s)
  BY <1>1, PickedIs
<1>3. PICK at : PickedAt(s, K, Len(s), p, at)
  BY <1>1, PickedIs
<1>4. SUFFICES ASSUME NEW i \in 1..Len(p), NEW j \in 1..Len(p), p[i] = p[j] PROVE i = j
  BY <1>1, <1>2 DEF Distinct
<1>5. at[i] = at[j]
  BY ZenonT(30), <1>2, <1>3, <1>4 DEF PickedAt, Distinct
<1>6. at[i] \in 1..Len(s) /\ at[j] \in 1..Len(s)
  BY <1>3 DEF PickedAt
<1> QED
  BY <1>2, <1>3, <1>5, <1>6 DEF PickedAt

(* A group source chooses.                                                 *)
LEMMA IntakeSelectKeeps == ASSUME Intake!IntakeAssumption, IntakeInv, Intake!Select
      PROVE IntakeInv'
<1> USE DEF Intake!ledger, Intake!others, Intake!history
<1>1. /\ npc = "select" /\ table' = Intake!Selection /\ npc' = "row"
      /\ UNCHANGED <<owner, minted, company, edges, nkind, oldest, ended, changes, members,
         ndone, pos,
                      ident, count, merged, breaks, before, ncut, coalesced, bare>>
  BY DEF Intake!Select
<1>2. nkind # "adapter" /\ pos = 0 /\ count = 0 /\ ndone = Intake!NotDone
  BY <1>1 DEF IntakeInv, IntakeAt
<1>3. PICK e : e = Intake!Eligible
  OBVIOUS
<1>4. e \in Seq(Intake!Ids) /\ Distinct(e)
  <2>1. oldest \in Seq(Intake!Ids) /\ Distinct(oldest)
    BY DEF IntakeInv, IntakeTyped, Intake!TypeOK
  <2> QED
    BY <1>3, <2>1, PickedIs, PickedDistinct, IntakePicks DEF Intake!Eligible
<1>5. table' \in Seq(Intake!Ids) /\ Distinct(table') /\ (Limit > 0 => Len(table') <= Limit)
  <2>1. Limit \in Nat /\ Len(e) \in Nat
    BY <1>4, IntakeFacts
  <2>2. CASE Limit > 0 /\ Limit < Len(e)
    <3>1. table' = SubSeq(e, 1, Limit)
      BY <1>1, <1>3, <2>2 DEF Intake!Selection
    <3>2. table' \in Seq(Intake!Ids) /\ Len(table') = Limit
          /\ \A i \in 1..Limit : table'[i] = e[i]
      BY <1>4, <2>1, <2>2, <3>1
    <3> QED
      BY <1>4, <2>1, <2>2, <3>2 DEF Distinct
  <2>3. CASE ~(Limit > 0 /\ Limit < Len(e))
    <3>1. table' = e
      BY <1>1, <1>3, <2>3 DEF Intake!Selection
    <3> QED
      BY <1>4, <2>1, <2>3, <3>1
  <2> QED
    BY <2>2, <2>3
<1>6. IntakeTyped'
  <2>1. 0 \in 0..Len(table')
    BY <1>5
  <2>2. Distinct(table)' /\ Distinct(oldest)'
    BY <1>1, <1>5 DEF Distinct, IntakeInv, IntakeTyped
  <2> QED
    BY <1>1, <1>2, <1>5, <2>1, <2>2 DEF IntakeInv, IntakeTyped, Intake!TypeOK
<1>7. RowsRelated'
  BY <1>1 DEF IntakeInv, RowsRelated, RelationTold
<1>8. IntakeAt' /\ KeyLeads' /\ RowsDealt'
  BY <1>1, <1>2 DEF IntakeInv, IntakeAt, KeyLeads, RowsDealt
<1>9. RowsCounted' /\ OneChoice'
  <2>1. Cardinality({}) = 0
    BY FS_EmptySet
  <2>2. breaks = 0 => members = {} /\ members = {table'[i] : i \in 1..0}
    BY <1>1, <1>2 DEF IntakeInv, OneChoice
  <2> QED
    BY <1>1, <1>2, <2>1, <2>2 DEF IntakeInv, RowsCounted, OneChoice
<1> QED
  BY <1>6, <1>7, <1>8, <1>9 DEF IntakeInv

(* A group source adds one of its choice.                                  *)
LEMMA IntakeTakeKeeps == ASSUME Intake!IntakeAssumption, IntakeInv, Intake!Take PROVE IntakeInv'
<1> USE DEF Intake!ledger, Intake!others, Intake!history
<1>1. PICK r : r = table[pos + 1]
  OBVIOUS
<1>2. /\ npc = "row" /\ nkind # "adapter" /\ pos < Len(table)
      /\ members' = members \cup {r} /\ count' = count + 1 /\ pos' = pos + 1 /\ npc' = "row"
      /\ UNCHANGED <<owner, minted, company, edges, nkind, oldest, ended, changes, ndone,
         table, ident,
                      merged, breaks, before, ncut, coalesced, bare>>
  BY <1>1 DEF Intake!Take, Intake!Deal, Intake!row
<1>3. /\ pos \in Nat /\ Len(table) \in Nat /\ count \in Nat /\ ndone = Intake!NotDone
      /\ r \in Intake!Ids /\ table \in Seq(Intake!Ids) /\ Distinct(table)
         /\ DOMAIN table = 1..Len(table)
  BY <1>1, <1>2 DEF IntakeInv, IntakeTyped, Intake!TypeOK, IntakeAt
<1>4. IntakeTyped'
  BY <1>2, <1>3 DEF IntakeInv, IntakeTyped, Intake!TypeOK
<1>5. RowsRelated'
  BY <1>2 DEF IntakeInv, RowsRelated, RelationTold
<1>6. IntakeAt' /\ KeyLeads'
  BY <1>2 DEF IntakeInv, IntakeAt, KeyLeads
<1>7. RowsDealt'
  BY <1>1, <1>2, <1>3 DEF IntakeInv, RowsDealt
<1>8. RowsCounted'
  BY <1>2 DEF RowsCounted
<1>9. OneChoice'
  <2>1. SUFFICES ASSUME breaks = 0
                 PROVE  /\ members' = {table[i] : i \in 1..(pos + 1)}
                        /\ Cardinality(members') = pos + 1 /\ count + 1 = pos + 1
                        /\ Limit > 0 => Cardinality(members') <= Limit
    BY <1>2, <1>3 DEF OneChoice
  <2>2. members = {table[i] : i \in 1..pos} /\ Cardinality(members) = pos /\ count = pos
    BY <1>2, <2>1 DEF IntakeInv, OneChoice
  <2>3. r \notin members
    BY <1>1, <1>2, <1>3, <2>2 DEF Distinct
  <2>4. Cardinality(members') = pos + 1
    BY <1>2, <2>2, <2>3, MemberMore DEF IntakeInv
  <2>5. members' = {table[i] : i \in 1..(pos + 1)}
    <3>1. 1..(pos + 1) = 1..pos \cup {pos + 1}
      BY <1>3
    <3> QED
      BY <1>1, <1>2, <2>2, <3>1
  <2>6. Limit > 0 => Len(table) <= Limit
    BY <1>2 DEF IntakeInv, IntakeTyped
  <2>7. Limit > 0 => pos + 1 <= Limit
    BY <1>2, <1>3, <2>6, IntakeFacts
  <2> QED
    BY <2>2, <2>4, <2>5, <2>7
<1> QED
  BY <1>4, <1>5, <1>6, <1>7, <1>8, <1>9 DEF IntakeInv

(* The source is done, with its count.                                     *)
LEMMA IntakeFinishKeeps == ASSUME Intake!IntakeAssumption, IntakeInv, Intake!Finish
      PROVE IntakeInv'
<1> USE DEF Intake!ledger, Intake!others, Intake!history
<1>1. /\ npc = "row" /\ pos = Len(table) /\ ndone' = count /\ npc' = "over"
      /\ UNCHANGED <<owner, minted, company, edges, nkind, oldest, ended, changes, members, table,
                      pos, ident, count, merged, breaks, before, ncut, coalesced, bare>>
  BY DEF Intake!Finish
<1>2. count \in Nat /\ ndone' # Intake!NotDone
  BY <1>1 DEF IntakeInv, IntakeTyped, Intake!TypeOK, Intake!NotDone
<1>3. IntakeTyped'
  BY <1>1, <1>2 DEF IntakeInv, IntakeTyped, Intake!TypeOK
<1>4. RowsRelated'
  BY <1>1 DEF IntakeInv, RowsRelated, RelationTold
<1>5. IntakeAt' /\ KeyLeads'
  BY <1>1, <1>2 DEF IntakeInv, IntakeAt, KeyLeads
<1>6. RowsDealt'
  <2>1. \A i \in 1..Len(table) : i <= pos
    <3>1. Len(table) \in Nat
      BY <1>1 DEF IntakeInv, IntakeTyped, Intake!TypeOK
    <3> QED
      BY <1>1, <3>1
  <2>2. nkind = "adapter" => \A i \in 1..Len(table) : RowKeyed(table[i])
        => KeyReached(Intake!KeysOf(table[i]))
    BY <1>1, <2>1 DEF IntakeInv, RowsDealt
  <2>3. nkind # "adapter" => \A i \in 1..Len(table) : table[i] \in members
    BY <1>1, <2>1 DEF IntakeInv, RowsDealt
  <2>4. \A keys : KeyReached(keys)' <=> KeyReached(keys)
    BY <1>1 DEF KeyReached
  <2> QED
    BY <1>1, <2>2, <2>3, <2>4 DEF RowsDealt, RowKeyed
<1>7. RowsCounted' /\ OneChoice'
  BY <1>1, <1>2 DEF IntakeInv, IntakeAt, RowsCounted, OneChoice
<1> QED
  BY <1>3, <1>4, <1>5, <1>6, <1>7 DEF IntakeInv

(* A kill or a failed session.                                             *)
LEMMA IntakeBreakKeeps == ASSUME Intake!IntakeAssumption, IntakeInv, Intake!Break PROVE IntakeInv'
<1> USE DEF Intake!ledger, Intake!others
<1>1. /\ npc # "down" /\ npc' = "down" /\ breaks' = breaks + 1 /\ breaks < MaxBreaks
      /\ ncut' = IF npc \in {"add", "refer"} THEN ncut \cup {ident} ELSE ncut
      /\ UNCHANGED <<owner, minted, company, edges, nkind, oldest, ended, changes, members, ndone,
                      table, pos, ident, count, merged, before, coalesced, bare>>
  BY DEF Intake!Break
<1>2. breaks' \in 0..MaxBreaks /\ breaks' # 0
  BY <1>1, IntakeFacts DEF IntakeInv, IntakeTyped, Intake!TypeOK
<1>3. ncut' \subseteq Intake!Ids
  BY <1>1 DEF IntakeInv, IntakeTyped, Intake!TypeOK, IntakeAt
<1>4. IntakeTyped'
  BY <1>1, <1>2, <1>3 DEF IntakeInv, IntakeTyped, Intake!TypeOK
<1>5. RowsRelated'
  <2>1. SUFFICES ASSUME NEW j \in Intake!Ids, company[j] # Intake!NoCompany PROVE RelationTold(j)'
    BY <1>1 DEF RowsRelated
  <2>2. RelationTold(j) \/ (npc \in {"add", "refer"} /\ j = ident)
    BY <2>1 DEF IntakeInv, RowsRelated
  <2> QED
    BY <1>1, <2>2 DEF RelationTold
<1>6. IntakeAt' /\ KeyLeads'
  BY <1>1 DEF IntakeInv, IntakeAt, KeyLeads
<1>7. RowsDealt'
  BY <1>1 DEF IntakeInv, RowsDealt, RowKeyed, KeyReached
<1>8. RowsCounted' /\ OneChoice'
  BY <1>1, <1>2 DEF IntakeInv, RowsCounted, OneChoice
<1> QED
  BY <1>4, <1>5, <1>6, <1>7, <1>8 DEF IntakeInv

(* Others change the group, or finish a record of it.                      *)
LEMMA IntakeChangeKeeps == ASSUME Intake!IntakeAssumption, IntakeInv, Intake!Change
      PROVE IntakeInv'
<1> USE DEF Intake!ledger, Intake!history
<1>1. /\ nkind # "adapter" /\ changes' = changes + 1 /\ changes < MaxChanges
      /\ UNCHANGED <<owner, minted, company, edges, nkind, members, ndone, npc, table, pos,
         ident, count,
                      merged, breaks, before, ncut, coalesced, bare>>
  BY DEF Intake!Change
<1>2. changes' \in 0..MaxChanges
  BY <1>1, IntakeFacts DEF IntakeInv, IntakeTyped, Intake!TypeOK
<1>3. oldest \in Seq(Intake!Ids) /\ Distinct(oldest) /\ ended \subseteq Intake!Ids
      /\ DOMAIN oldest = 1..Len(oldest) /\ Len(oldest) \in Nat
  BY DEF IntakeInv, IntakeTyped, Intake!TypeOK
<1>4. oldest' \in Seq(Intake!Ids) /\ Distinct(oldest') /\ ended' \subseteq Intake!Ids
  <2>1. CASE \E i \in Intake!Ids \ Intake!SetOf(oldest) : oldest' = Append(oldest, i)
        /\ UNCHANGED ended
    <3>1. PICK i \in Intake!Ids : i \notin Intake!SetOf(oldest) /\ oldest' = Append(oldest, i)
      BY <2>1
    <3>2. /\ oldest' \in Seq(Intake!Ids) /\ Len(oldest') = Len(oldest) + 1
             /\ oldest'[Len(oldest) + 1] = i
          /\ \A j \in 1..Len(oldest) : oldest'[j] = oldest[j] /\ oldest[j] # i
      BY <1>3, <3>1 DEF Intake!SetOf
    <3>3. DOMAIN oldest' = 1..Len(oldest) \cup {Len(oldest) + 1}
      BY <1>3, <3>2
    <3> QED
      BY <1>3, <2>1, <3>2, <3>3 DEF Distinct
  <2>2. CASE \E j \in DOMAIN oldest :
               oldest' = Picked(oldest, DOMAIN oldest \ {j}) /\ UNCHANGED ended
    BY <1>3, <2>2, PickedIs, PickedDistinct
  <2>3. CASE \E i \in Intake!SetOf(oldest) \ ended :
               ended' = ended \cup {i} /\ UNCHANGED oldest
    BY <1>3, <2>3 DEF Intake!SetOf
  <2> QED
    BY <2>1, <2>2, <2>3, IntakePicks DEF Intake!Change
<1>5. IntakeTyped'
  <2>1. Distinct(oldest)' /\ (Distinct(table) => Distinct(table)')
    BY <1>1, <1>4 DEF Distinct
  <2> QED
    BY <1>1, <1>2, <1>4, <2>1 DEF IntakeInv, IntakeTyped, Intake!TypeOK
<1>6. RowsRelated'
  BY <1>1 DEF IntakeInv, RowsRelated, RelationTold, Intake!row
<1>7. IntakeAt' /\ KeyLeads' /\ RowsDealt' /\ RowsCounted' /\ OneChoice'
  BY <1>1 DEF IntakeInv, IntakeAt, KeyLeads, RowsDealt, RowsCounted, OneChoice
<1> QED
  BY <1>5, <1>6, <1>7 DEF IntakeInv

(* Every step keeps the invariant.                                         *)
LEMMA IntakeNext == ASSUME Intake!IntakeAssumption, IntakeInv,
      [Intake!Next]_(Intake!intakeVars) PROVE IntakeInv'
<1>1. CASE UNCHANGED Intake!intakeVars
  <2> USE <1>1 DEF Intake!intakeVars
  <2>1. IntakeTyped'
    BY DEF IntakeInv, IntakeTyped, Intake!TypeOK, Distinct
  <2>2. RowsRelated'
    BY DEF IntakeInv, RowsRelated, RelationTold, Intake!row
  <2>3. IntakeAt' /\ KeyLeads'
    BY DEF IntakeInv, IntakeAt, KeyLeads, RowKeyed, Intake!KeysOf, FirstKey, Intake!row
  <2>4. RowsDealt' /\ RowsCounted' /\ OneChoice'
    BY ZenonT(30) DEF IntakeInv, RowsDealt, RowKeyed, Intake!KeysOf, KeyReached, FirstKey,
          RowsCounted, OneChoice
  <2> QED
    BY <2>1, <2>2, <2>3, <2>4 DEF IntakeInv
<1> QED
  BY <1>1, IntakeBeginKeeps, IntakeDropKeeps, IntakeWriteKeeps, IntakeAddKeeps,
        IntakeReferKeeps, IntakeSelectKeeps, IntakeTakeKeeps, IntakeFinishKeeps,
     IntakeBreakKeeps, IntakeReferFailsKeeps, IntakeChangeKeeps DEF Intake!Next

(* The invariant of the source, in every behaviour of it.                  *)
THEOREM IntakeInvariance == ASSUME Intake!IntakeAssumption PROVE Intake!Spec => []IntakeInv
<1>1. Intake!Init => IntakeInv
  BY IntakeInit
<1>2. IntakeInv /\ [Intake!Next]_(Intake!intakeVars) => IntakeInv'
  BY IntakeNext
<1> QED
  BY <1>1, <1>2, PTL DEF Intake!Spec

(* The key NobodyMissing chooses is the strongest one.                     *)
LEMMA FirstKeyIs ==
  ASSUME Intake!IntakeAssumption, NEW keys, keys \subseteq Intake!SetOf(Keys), keys # {}
  PROVE  \E k \in DOMAIN Keys : FirstKey(keys, k)
<1> DEFINE K == {k \in DOMAIN Keys : Keys[k] \in keys}
<1>1. DOMAIN Keys = 1..Len(Keys) /\ Len(Keys) \in Nat
  BY IntakeFacts
<1>2. K \subseteq Nat /\ K # {}
  BY <1>1 DEF Intake!SetOf
<1>3. PICK k \in K : \A j \in K : ~(j < k)
  BY <1>2, Least
<1>4. FirstKey(keys, k)
  BY <1>1, <1>3 DEF FirstKey
<1> QED
  BY <1>4

(* The invariant implies what the run of MCParts checks.                   *)
LEMMA IntakeKept == ASSUME Intake!IntakeAssumption, IntakeInv PROVE Intake!IntakeHolds
<1>1. Intake!NobodyMissing
  <2>1. SUFFICES ASSUME npc = "over", nkind = "adapter", NEW i \in DOMAIN table,
        RowKeyed(table[i])
                 PROVE  owner[Keys[CHOOSE k \in DOMAIN Keys :
                          /\ Keys[k] \in Intake!KeysOf(table[i])
                          /\ \A j \in 1..(k - 1) :
                             Keys[j] \notin Intake!KeysOf(table[i])]] \in members
    BY DEF Intake!NobodyMissing, RowKeyed
  <2>2. PICK keys : keys = Intake!KeysOf(table[i])
    OBVIOUS
  <2>3. keys \subseteq Intake!SetOf(Keys) /\ keys # {} /\ i \in 1..Len(table)
    <3>1. table \in Seq(Intake!Row)
      BY <2>1 DEF IntakeInv, IntakeTyped
    <3>2. table[i] \in Intake!Row /\ i \in 1..Len(table)
      BY <3>1
    <3> QED
      BY <2>1, <2>2, <3>2 DEF Intake!Row, Intake!KeysOf, RowKeyed
  <2>4. KeyReached(keys)
    BY <2>1, <2>2, <2>3 DEF IntakeInv, IntakeAt, RowsDealt
  <2>5. PICK k \in DOMAIN Keys : FirstKey(keys, k)
    BY <2>3, FirstKeyIs
  <2>6. PICK f \in DOMAIN Keys :
          /\ f = CHOOSE n \in DOMAIN Keys :
                   /\ Keys[n] \in keys
                   /\ \A j \in 1..(n - 1) : Keys[j] \notin keys
          /\ FirstKey(keys, f)
    BY <2>5 DEF FirstKey
  <2> QED
    BY <2>2, <2>4, <2>6 DEF KeyReached
<1>2. Intake!RelatedAsSaid
  BY DEF IntakeInv, IntakeTyped, Intake!TypeOK, RowsRelated, RelationTold, Intake!RelatedAsSaid
<1>3. Intake!CountsTheRun
  BY IntakeCounts DEF IntakeInv, RowsCounted, OneChoice, Intake!CountsTheRun
<1>4. Intake!WithinLimit
  <2>1. nkind # "adapter" /\ npc = "over" => Intake!SetOf(table) \subseteq members
    <3>1. nkind # "adapter" => DOMAIN table = 1..Len(table)
      BY DEF IntakeInv, IntakeTyped
    <3> QED
      BY <3>1 DEF IntakeInv, IntakeAt, RowsDealt, Intake!SetOf
  <2> QED
    BY <2>1, IntakeCounts DEF IntakeInv, OneChoice, Intake!WithinLimit
<1> QED
  BY <1>1, <1>2, <1>3, <1>4 DEF Intake!IntakeHolds

(* Nobody of a whole session is missing when the steps begin, each record  *)
(* is related as it says, the count is the records brought in, and a       *)
(* limit is kept (runner.go, runSource).                                  *)
THEOREM IntakeIsWhole == ASSUME Intake!IntakeAssumption PROVE Intake!Spec => []Intake!IntakeHolds
<1>1. IntakeInv => Intake!IntakeHolds
  BY IntakeKept
<1> QED
  BY <1>1, IntakeInvariance, PTL

-----------------------------------------------------------------------------
(* AiSteps.                                                                *)

(* What AiSteps picks and counts is what the lemmas are about.             *)
LEMMA AiPicks ==
  ASSUME NEW s, NEW K
  PROVE  AiSteps!Picked(s, K) = Picked(s, K)
BY Zenon DEF AiSteps!Picked, Picked

LEMMA AiCounts ==
  ASSUME NEW S
  PROVE  AiSteps!Cardinality(S) = Cardinality(S)
BY Zenon DEF AiSteps!Cardinality, Cardinality

\* Each place of the batches to be asked has a record of its own.
Apart == \A k, l \in DOMAIN stack : \A a \in DOMAIN stack[k], b \in DOMAIN stack[l] :
  stack[k][a] = stack[l][b] => k = l /\ a = b
ToAsk(i) == \E k \in DOMAIN stack : i \in AiSteps!SetOf(stack[k])

\* A record of a session that asks is to be asked, answered or dropped.
AnswerOwed == aphase = "asking" => \A i \in AiSteps!Records :
  /\ answers[i] # "none" => answers[i] = meant[i]
  /\ ToAsk(i) \/ answers[i] # "none" \/ i \in cutoff
  /\ ToAsk(i) => answers[i] = "none" /\ i \notin cutoff
  /\ answers[i] # "none" => i \notin cutoff

AiSettled ==
  /\ waiting # {} => \A i \in AiSteps!Records : messages[i] = <<>>
  /\ aphase \in {"asking", "died"} => waiting # {} /\ ~AiSteps!Deferred
  /\ aphase # "asking" => stack = <<>>
  /\ ~AiSteps!Deferred => waiting \in {AiSteps!Records, {}} /\ DOMAIN batch = {}

Bill(S) == {i \in S : AiSteps!Billable(batch[i])}
Billed ==
  /\ billed + astray.unseen + Cardinality(Bill(DOMAIN batch)) = spent + astray.twice
  /\ (\E i \in DOMAIN batch : batch[i] = AiSteps!Processing) =>
       \A i \in DOMAIN batch : batch[i] = AiSteps!Processing

AiInv == AiSteps!TypeOK /\ Apart /\ AnswerOwed /\ AiSettled /\ Billed /\ AiSteps!OneAnswerEach

(* Into a set n numbers reach, n numbers that go apart reach all of it.    *)
LEMMA Surjects ==
  \A n \in Nat : \A T : \A f \in [1..n -> T], g \in [1..n -> T] :
    (\A i, j \in 1..n : f[i] = f[j] => i = j) /\ (\A t \in T : \E i \in 1..n : g[i] = t)
      => \A t \in T : \E i \in 1..n : f[i] = t
<1> TAKE n \in Nat
<1> TAKE T
<1> TAKE f \in [1..n -> T], g \in [1..n -> T]
<1> HAVE (\A i, j \in 1..n : f[i] = f[j] => i = j) /\ (\A t \in T : \E i \in 1..n : g[i] = t)
<1>1. IsFiniteSet(1..n) /\ Cardinality(1..n) = n
  BY FS_Interval
<1>2. g \in Surjection(1..n, T)
  BY DEF Surjection
<1>3. IsFiniteSet(T) /\ Cardinality(T) <= Cardinality(1..n)
  BY <1>1, <1>2, FS_Surjection
<1>4. f \in Injection(1..n, T)
  BY DEF Injection, IsInjective
<1>5. /\ Cardinality(1..n) <= Cardinality(T)
      /\ Cardinality(1..n) = Cardinality(T) <=> f \in Surjection(1..n, T)
  BY <1>3, <1>4, FS_Injection
<1>6. Cardinality(T) \in Nat
  BY <1>3, FS_CardinalityType
<1>7. f \in Surjection(1..n, T)
  BY <1>1, <1>3, <1>5, <1>6
<1> QED
  BY <1>7 DEF Surjection

\* A valid answer has something to say of every record of its batch.
LEMMA AnswersAll ==
  ASSUME NEW part \in Seq(AiSteps!Records), NEW answer \in AiSteps!Answers(Len(part)),
        AiSteps!Parses(answer, part)
  PROVE  \A i \in AiSteps!SetOf(part) : AiSteps!ValueOf(answer, i) \in AiSteps!Values \ {"bad"}
<1> DEFINE n == Len(part)  items == answer.items
<1>1. n \in Nat /\ DOMAIN part = 1..n /\ part \in [1..n -> AiSteps!SetOf(part)]
      /\ \A t \in AiSteps!SetOf(part) : \E i \in 1..n : part[i] = t
  BY DEF AiSteps!SetOf
<1>2. PICK m \in Nat : items \in [1..m -> AiSteps!Items]
  <2>1. CASE answer \in [form : {"array"}, items : UNION {[1..m -> AiSteps!Items] : m \in 0..n}]
    BY <1>1, <2>1
  <2>2. CASE answer \in [form : {"object"}, items : [1..1 -> AiSteps!Items]]
    BY <2>2
  <2>3. CASE answer \in {[form |-> "prose", items |-> <<>>]}
    BY <2>3 DEF AiSteps!Parses
  <2> QED
    BY <2>1, <2>2, <2>3 DEF AiSteps!Answers, AiSteps!Prose
<1>3. DOMAIN items = 1..m /\ Len(items) = m
  BY <1>2
<1>4. m = n
  BY <1>3 DEF AiSteps!Parses
<1>5. /\ \A k \in 1..n : items[k].key \in AiSteps!SetOf(part) /\ items[k].value # "bad"
      /\ \A k \in 1..n : \A j \in 1..(k - 1) : items[j].key # items[k].key
  BY <1>3, <1>4 DEF AiSteps!Parses
<1> HIDE DEF items
<1> DEFINE f == [k \in 1..n |-> items[k].key]
<1>6. f \in [1..n -> AiSteps!SetOf(part)] /\ \A i, j \in 1..n : f[i] = f[j] => i = j
  <2>1. f \in [1..n -> AiSteps!SetOf(part)]
    BY <1>5
  <2>2. ASSUME NEW i \in 1..n, NEW j \in 1..n, f[i] = f[j] PROVE i = j
    <3>1. ~(i \in 1..(j - 1)) /\ ~(j \in 1..(i - 1))
      BY <1>5, <2>2
    <3> QED
      BY <1>1, <2>2, <3>1
  <2> QED
    BY <2>1, <2>2
<1> HIDE DEF n, f
<1>8. \A t \in AiSteps!SetOf(part) : \E k \in 1..n : f[k] = t
  <2>1. n \in Nat
    BY <1>1
  <2>2. \A T : \A h \in [1..n -> T], w \in [1..n -> T] :
          (\A x, y \in 1..n : h[x] = h[y] => x = y) /\ (\A t \in T : \E x \in 1..n : w[x] = t)
            => \A t \in T : \E x \in 1..n : h[x] = t
    BY <2>1, Surjects, Zenon
  <2>3. /\ part \in [1..n -> AiSteps!SetOf(part)]
           /\ \A t \in AiSteps!SetOf(part) : \E x \in 1..n : part[x] = t
        /\ f \in [1..n -> AiSteps!SetOf(part)] /\ \A x, y \in 1..n : f[x] = f[y] => x = y
    BY <1>1, <1>6
  <2>4. \A h \in [1..n -> AiSteps!SetOf(part)], w \in [1..n -> AiSteps!SetOf(part)] :
          (\A x, y \in 1..n : h[x] = h[y] => x = y)
            /\ (\A t \in AiSteps!SetOf(part) : \E x \in 1..n : w[x] = t)
            => \A t \in AiSteps!SetOf(part) : \E x \in 1..n : h[x] = t
    BY <2>2, ZenonT(60)
  <2> QED
    BY <2>3, <2>4, Zenon
<1>7. TAKE i \in AiSteps!SetOf(part)
<1>9. PICK k \in 1..n : items[k].key = i
  BY <1>8 DEF f
<1>10. PICK c \in 1..n : c = (CHOOSE x \in DOMAIN items : items[x].key = i)
  BY <1>3, <1>4, <1>9
<1>11. AiSteps!ValueOf(answer, i) = items[c].value
  BY <1>10 DEF AiSteps!ValueOf, items
<1>12. items[c].value \in AiSteps!Values /\ items[c].value # "bad"
  BY <1>2, <1>4, <1>5, <1>10 DEF AiSteps!Items
<1> QED
  BY <1>11, <1>12

\* What is written of one record: something, for every step there may be.
LEMMA EmittedIs ==
  ASSUME AiSteps!AiStepsAssumption, step \in AiStepsOf, NEW i, NEW v \in AiSteps!Values \ {"bad"}
  PROVE  /\ AiSteps!Emitted(i, v) \in Seq({"RECORD", "VERDICT"} \X (AiSteps!Values \ {"bad"}))
         /\ AiSteps!Emitted(i, v) # <<>>
<1> DEFINE M == {"RECORD", "VERDICT"} \X (AiSteps!Values \ {"bad"})
<1>1. step.fields \/ step.mode = "filter"
  BY DEF AiSteps!AiStepsAssumption
<1>2. <<"RECORD", v>> \in M /\ <<"VERDICT", v>> \in M
  OBVIOUS
<1>3. PICK r \in M, w \in M : r = <<"RECORD", v>> /\ w = <<"VERDICT", v>>
  BY <1>2
<1>4. AiSteps!Emitted(i, v) \in {<<r>> \o <<w>>, <<r>> \o <<>>, <<>> \o <<w>>}
  BY <1>1, <1>3 DEF AiSteps!Emitted
<1> HIDE DEF M
<1>5. /\ <<r>> \o <<w>> \in Seq(M) /\ <<r>> \o <<w>> # <<>>
      /\ <<r>> \o <<>> \in Seq(M) /\ <<r>> \o <<>> # <<>>
      /\ <<>> \o <<w>> \in Seq(M) /\ <<>> \o <<w>> # <<>>
  OBVIOUS
<1> QED
  BY <1>4, <1>5 DEF M

(* "none" is not an answer.                                                *)
LEMMA NoneIsNoValue == "none" \notin AiSteps!Values /\ "none" \notin AiSteps!Values \ {"bad"}
BY DEF AiSteps!Values

(* A batch is finite, and so is what is billed of it.                      *)
LEMMA BatchFinite ==
  ASSUME AiSteps!AiStepsAssumption, AiSteps!TypeOK
  PROVE  /\ DOMAIN batch \subseteq AiSteps!Records /\ IsFiniteSet(AiSteps!Records)
         /\ \A S : IsFiniteSet(Bill(S \cap DOMAIN batch))
                  /\ Cardinality(Bill(S \cap DOMAIN batch)) \in Nat
<1>1. IsFiniteSet(AiSteps!Records)
  BY FS_Interval DEF AiSteps!AiStepsAssumption, AiSteps!Records
<1>2. DOMAIN batch \subseteq AiSteps!Records
  BY DEF AiSteps!TypeOK
<1>3. \A S : Bill(S \cap DOMAIN batch) \in SUBSET AiSteps!Records
  BY <1>2 DEF Bill
<1>4. \A T \in SUBSET AiSteps!Records : IsFiniteSet(T) /\ Cardinality(T) \in Nat
  BY <1>1, FS_Subset, FS_CardinalityType
<1> QED
  BY <1>1, <1>2, <1>3, <1>4

(* Nothing is asked yet.                                                   *)
LEMMA AiInit == ASSUME AiSteps!AiStepsAssumption, AiSteps!Init PROVE AiInv
<1> USE DEF AiSteps!Init
<1>1. AiSteps!NoBatch \in [{} -> AiSteps!Results \cup {AiSteps!Processing}]
      /\ DOMAIN AiSteps!NoBatch = {}
  BY DEF AiSteps!NoBatch
<1>2. AiSteps!Nothing \in [AiSteps!Records -> (AiSteps!Values \ {"bad"}) \cup {"none"}]
  BY DEF AiSteps!Nothing
<1>3. messages \in [AiSteps!Records -> Seq({"RECORD", "VERDICT"} \X (AiSteps!Values \ {"bad"}))]
  OBVIOUS
<1>4. AiSteps!TypeOK
  <2>1. \E S \in SUBSET AiSteps!Records :
        batch \in [S -> AiSteps!Results \cup {AiSteps!Processing}]
    BY <1>1
  <2>2. astray \in [unseen : Nat, twice : Nat]
    OBVIOUS
  <2> QED
    BY <1>2, <1>3, <2>1, <2>2 DEF AiSteps!TypeOK
<1>5. Billed
  <2>1. Bill(DOMAIN batch) = {}
    BY <1>1 DEF Bill
  <2>2. Cardinality(Bill(DOMAIN batch)) = 0
    BY <2>1, FS_EmptySet
  <2>3. astray.unseen = 0 /\ astray.twice = 0 /\ billed = 0 /\ spent = 0
    OBVIOUS
  <2> QED
    BY <1>1, <2>2, <2>3 DEF Billed
<1>6. Apart /\ AnswerOwed /\ AiSettled /\ AiSteps!OneAnswerEach
  <2>1. 1 \in AiSteps!Records
    BY DEF AiSteps!AiStepsAssumption, AiSteps!Records
  <2> QED
    BY <1>1, <2>1 DEF Apart, AnswerOwed, AiSettled, AiSteps!OneAnswerEach
<1> QED
  BY <1>4, <1>5, <1>6 DEF AiInv

\* A session that asks has nothing to do with a batch or with messages.
LEMMA AskingIsQuiet ==
  ASSUME AiSteps!AiStepsAssumption, AiInv, aphase = "asking"
  PROVE  /\ waiting # {} /\ ~AiSteps!Deferred /\ DOMAIN batch = {}
         /\ \A i \in AiSteps!Records : messages[i] = <<>>
BY DEF AiInv, AiSettled

(* A session that asks begins with one batch of all records.               *)
LEMMA AiOpenKeeps == ASSUME AiSteps!AiStepsAssumption, AiInv, AiSteps!Open PROVE AiInv'
<1>1. PICK p : p = Picked([i \in AiSteps!Records |-> i], waiting)
  OBVIOUS
<1>2. /\ waiting # {} /\ ~AiSteps!Deferred /\ sessions' = sessions + 1 /\ aphase' = "asking"
         /\ attempt' = 0
      /\ stack' = <<p>> /\ answers' = AiSteps!Nothing /\ cutoff' = {}
      /\ UNCHANGED <<step, waiting, messages, batch, spent, billed, meant, astray>>
  BY <1>1, AiPicks DEF AiSteps!Open
<1>3. waiting = AiSteps!Records /\ DOMAIN batch = {}
      /\ \A i \in AiSteps!Records : messages[i] = <<>>
  BY <1>2 DEF AiInv, AiSettled
<1>4. /\ p \in Seq(AiSteps!Records) /\ AiSteps!SetOf(p) = AiSteps!Records
      /\ \A a, b \in DOMAIN p : p[a] = p[b] => a = b
  <2> DEFINE s == [i \in AiSteps!Records |-> i]
  <2>1. s \in Seq(AiSteps!Records) /\ Len(s) = AiRecords /\ AiSteps!Records = 1..AiRecords
        /\ AiRecords \in Nat
    BY DEF AiSteps!Records, AiSteps!AiStepsAssumption
  <2>2. p \in Seq(AiSteps!Records) /\ \E at : PickedAt(s, waiting, AiRecords, p, at)
    BY <1>1, <2>1, PickedIs
  <2>3. PICK at : PickedAt(s, waiting, AiRecords, p, at)
    BY <2>2
  <2>4. /\ at \in [1..Len(p) -> AiSteps!Records]
        /\ \A i \in 1..Len(p) : p[i] = at[i]
        /\ \A i, j \in 1..Len(p) : i < j => at[i] < at[j]
        /\ \A k \in AiSteps!Records : \E i \in 1..Len(p) : at[i] = k
    BY <1>3, <2>1, <2>3 DEF PickedAt
  <2>5. DOMAIN p = 1..Len(p) /\ Len(p) \in Nat
    BY <2>2
  <2>6. AiSteps!SetOf(p) = AiSteps!Records
    BY <2>4, <2>5 DEF AiSteps!SetOf
  <2>7. ASSUME NEW a \in 1..Len(p), NEW b \in 1..Len(p), p[a] = p[b] PROVE a = b
    BY <2>1, <2>4, <2>5, <2>7
  <2> QED
    BY <2>2, <2>5, <2>6, <2>7
<1>5. p # <<>>
  BY <1>2, <1>3, <1>4 DEF AiSteps!SetOf
<1>6. DOMAIN stack' = {1} /\ stack'[1] = p
  BY <1>2
<1>7. AiSteps!TypeOK'
  <2>1. AiSteps!Nothing \in [AiSteps!Records -> (AiSteps!Values \ {"bad"}) \cup {"none"}]
    BY DEF AiSteps!Nothing
  <2> QED
    BY <1>2, <1>4, <1>5, <1>6, <2>1 DEF AiInv, AiSteps!TypeOK
<1>8. Apart'
  BY <1>4, <1>6 DEF Apart
<1>9. AnswerOwed'
  <2>1. \A i \in AiSteps!Records : ToAsk(i)'
    BY <1>4, <1>6 DEF ToAsk
  <2>2. \A i \in AiSteps!Records : answers'[i] = "none" /\ i \notin cutoff'
    BY <1>2 DEF AiSteps!Nothing
  <2> QED
    BY <2>1, <2>2 DEF AnswerOwed
<1>10. AiSettled' /\ AiSteps!OneAnswerEach'
  BY <1>2, <1>3 DEF AiInv, AiSettled, AiSteps!OneAnswerEach, AiSteps!Deferred
<1>11. Billed'
  BY <1>2 DEF AiInv, Billed, Bill
<1> QED
  BY <1>7, <1>8, <1>9, <1>10, <1>11 DEF AiInv

(* The call fails: the session has died.                                   *)
LEMMA AiCallFailsKeeps ==
  ASSUME AiSteps!AiStepsAssumption, AiInv, NEW refused \in BOOLEAN,
        AiSteps!CallFails(refused) PROVE AiInv'
<1>1. PICK unit \in 0..1 : /\ spent' = spent + unit
                          /\ astray' = [astray EXCEPT !.unseen = @ + unit]
  BY DEF AiSteps!CallFails
<1>2. /\ aphase = "asking" /\ aphase' = "died" /\ stack' = <<>>
      /\ UNCHANGED <<step, waiting, attempt, answers, cutoff, messages, batch, billed,
         sessions, meant>>
  BY DEF AiSteps!CallFails
<1>3. waiting # {} /\ ~AiSteps!Deferred /\ \A i \in AiSteps!Records : messages[i] = <<>>
  BY <1>2, AskingIsQuiet
<1>4. /\ astray \in [unseen : Nat, twice : Nat] /\ spent \in Nat /\ billed \in Nat
      /\ astray'.unseen = astray.unseen + unit /\ astray'.twice = astray.twice
      /\ astray' \in [unseen : Nat, twice : Nat] /\ spent' \in Nat
  <2>1. astray \in [unseen : Nat, twice : Nat] /\ spent \in Nat /\ billed \in Nat
    BY DEF AiInv, AiSteps!TypeOK
  <2> QED
    BY <1>1, <2>1
<1>5. AiSteps!TypeOK'
  BY <1>2, <1>4 DEF AiInv, AiSteps!TypeOK
<1>6. Billed'
  <2>1. PICK c : c = Cardinality(Bill(DOMAIN batch))
        /\ billed + astray.unseen + c = spent + astray.twice
    BY DEF AiInv, Billed
  <2>2. c \in Nat
    BY <2>1, BatchFinite DEF AiInv
  <2> QED
    BY SMTT(30), <1>1, <1>2, <1>4, <2>1, <2>2 DEF AiInv, Billed, Bill
<1>7. Apart' /\ AnswerOwed' /\ AiSettled' /\ AiSteps!OneAnswerEach'
  BY <1>2, <1>3 DEF AiInv, Apart, AnswerOwed, AiSettled, AiSteps!OneAnswerEach, AiSteps!Deferred
<1> QED
  BY <1>5, <1>6, <1>7 DEF AiInv

\* One more call that answered.
LEMMA ChargeKeeps ==
  ASSUME AiSteps!AiStepsAssumption, AiInv, NEW cut, AiSteps!Charge(cut), UNCHANGED <<batch,
        astray>>
  PROVE  Billed' /\ spent' \in Nat /\ billed' \in Nat
<1>1. spent' = spent + 1 /\ billed' = billed + 1
  BY DEF AiSteps!Charge, AiSteps!Reported
<1>2. spent \in Nat /\ billed \in Nat /\ astray \in [unseen : Nat, twice : Nat]
  BY DEF AiInv, AiSteps!TypeOK
<1>3. PICK c : c = Cardinality(Bill(DOMAIN batch))
      /\ billed + astray.unseen + c = spent + astray.twice
  BY DEF AiInv, Billed
<1>4. c \in Nat
  <2>1. DOMAIN batch = DOMAIN batch \cap DOMAIN batch
    OBVIOUS
  <2> QED
    BY <1>3, <2>1, BatchFinite DEF AiInv
<1>5. billed' + astray.unseen + c = spent' + astray.twice
  BY <1>1, <1>2, <1>3, <1>4
<1> QED
  BY <1>1, <1>2, <1>3, <1>5 DEF AiInv, Billed, Bill

\* What is left of the batches when the first is done with.
LEMMA BatchLeft ==
  ASSUME AiInv, stack # <<>>, stack' = Tail(stack)
  PROVE  /\ Apart'
         /\ stack' \in Seq(Seq(AiSteps!Records)) /\ \A k \in DOMAIN stack' : stack'[k] # <<>>
         /\ \A i \in AiSteps!Records : ToAsk(i) <=> ToAsk(i)' \/ i \in AiSteps!SetOf(Head(stack))
         /\ \A i \in AiSteps!SetOf(Head(stack)) : ~ToAsk(i)'
<1>1. PICK n \in Nat : DOMAIN stack = 1..n /\ n # 0
  BY DEF AiInv, AiSteps!TypeOK
<1>2. Head(stack) = stack[1] /\ DOMAIN stack' = 1..(n - 1)
      /\ \A k \in 1..(n - 1) : stack'[k] = stack[k + 1]
  BY <1>1 DEF AiInv, AiSteps!TypeOK
<1>3. /\ \A k \in 1..(n - 1) : k + 1 \in 1..n /\ k + 1 # 1
      /\ \A k \in 1..n : k = 1 \/ (k - 1 \in 1..(n - 1) /\ (k - 1) + 1 = k)
      /\ 1 \in 1..n
      /\ \A k, l \in 1..(n - 1) : k + 1 = l + 1 => k = l
  BY <1>1
<1>4. Apart'
  <2>1. SUFFICES ASSUME NEW k \in 1..(n - 1), NEW l \in 1..(n - 1),
                        NEW a \in DOMAIN stack'[k], NEW b \in DOMAIN stack'[l],
                        stack'[k][a] = stack'[l][b]
                 PROVE  k = l /\ a = b
    BY ZenonT(30), <1>2 DEF Apart
  <2>2. k + 1 = l + 1 /\ a = b
    BY <1>1, <1>2, <1>3, <2>1 DEF AiInv, Apart
  <2> QED
    BY <1>3, <2>2
<1>5. stack' \in Seq(Seq(AiSteps!Records)) /\ \A k \in DOMAIN stack' : stack'[k] # <<>>
  <2>1. stack' \in Seq(Seq(AiSteps!Records))
    BY DEF AiInv, AiSteps!TypeOK
  <2> QED
    BY SMTT(30), <1>1, <1>2, <1>3, <2>1 DEF AiInv, AiSteps!TypeOK
<1>6. \A i \in AiSteps!Records : ToAsk(i) <=> ToAsk(i)' \/ i \in AiSteps!SetOf(Head(stack))
  <2>1. SUFFICES ASSUME NEW i \in AiSteps!Records
                 PROVE  ToAsk(i) <=> ToAsk(i)' \/ i \in AiSteps!SetOf(Head(stack))
    OBVIOUS
  <2>2. ToAsk(i) <=> \E k \in 1..n : i \in AiSteps!SetOf(stack[k])
    BY <1>1 DEF ToAsk
  <2>3. ToAsk(i)' <=> \E k \in 1..(n - 1) : i \in AiSteps!SetOf(stack[k + 1])
    BY <1>2 DEF ToAsk
  <2>4. ASSUME NEW k \in 1..n, i \in AiSteps!SetOf(stack[k])
        PROVE  k = 1 \/ \E l \in 1..(n - 1) : i \in AiSteps!SetOf(stack[l + 1])
    BY <1>3, <2>4
  <2> QED
    BY <1>2, <1>3, <2>2, <2>3, <2>4
<1>7. \A i \in AiSteps!SetOf(Head(stack)) : ~ToAsk(i)'
  <2>1. SUFFICES ASSUME NEW i \in AiSteps!SetOf(Head(stack)), ToAsk(i)' PROVE FALSE
    OBVIOUS
  <2>2. PICK k \in 1..(n - 1) : i \in AiSteps!SetOf(stack[k + 1])
    BY <1>2, <2>1 DEF ToAsk
  <2>3. PICK b \in DOMAIN stack[k + 1] : stack[k + 1][b] = i
    BY <2>2 DEF AiSteps!SetOf
  <2>4. PICK a \in DOMAIN stack[1] : stack[1][a] = i
    BY <1>2, <2>1 DEF AiSteps!SetOf
  <2>5. k + 1 = 1
    BY <1>1, <1>3, <2>3, <2>4 DEF AiInv, Apart
  <2> QED
    BY <1>3, <2>5
<1> QED
  BY <1>4, <1>5, <1>6, <1>7

\* The first batch, while there is one.
LEMMA BatchHead ==
  ASSUME AiInv, stack # <<>>
  PROVE  /\ 1 \in DOMAIN stack /\ Head(stack) = stack[1]
         /\ Head(stack) \in Seq(AiSteps!Records) /\ Head(stack) # <<>>
         /\ \A i \in AiSteps!SetOf(Head(stack)) : i \in AiSteps!Records /\ ToAsk(i)
<1>1. PICK n \in Nat : DOMAIN stack = 1..n /\ n # 0
  BY DEF AiInv, AiSteps!TypeOK
<1>2. 1 \in DOMAIN stack /\ Head(stack) = stack[1]
  BY <1>1 DEF AiInv, AiSteps!TypeOK
<1>3. Head(stack) \in Seq(AiSteps!Records) /\ Head(stack) # <<>>
  BY <1>2 DEF AiInv, AiSteps!TypeOK
<1>4. PICK p \in Seq(AiSteps!Records) : p = Head(stack)
  BY <1>3
<1>5. \A i \in AiSteps!SetOf(p) : i \in AiSteps!Records
  BY DEF AiSteps!SetOf
<1>6. \A i \in AiSteps!SetOf(p) : ToAsk(i)
  BY <1>2, <1>4 DEF ToAsk
<1> QED
  BY <1>2, <1>3, <1>4, <1>5, <1>6

(* The reply is understood: the batch is answered.                         *)
LEMMA AiUnderstoodKeeps ==
  ASSUME AiSteps!AiStepsAssumption, AiInv, NEW answer \in AiSteps!Answers(Len(Head(stack))),
        AiSteps!Understood(answer)
  PROVE  AiInv'
<1> DEFINE said == AiSteps!SetOf(Head(stack))
           V == (AiSteps!Values \ {"bad"}) \cup {"none"}
<1>1. /\ aphase = "asking" /\ stack # <<>> /\ AiSteps!Parses(answer, Head(stack))
         /\ AiSteps!Charge(FALSE)
      /\ stack' = Tail(stack) /\ attempt' = 0
      /\ UNCHANGED <<step, aphase, waiting, cutoff, messages, batch, sessions, astray>>
  BY DEF AiSteps!Understood
<1>2. answers' = [i \in AiSteps!Records |-> IF i \in said THEN AiSteps!ValueOf(answer, i)
      ELSE answers[i]]
  BY DEF AiSteps!Understood
<1>3. meant' = [i \in AiSteps!Records |-> IF i \in said THEN answers'[i] ELSE meant[i]]
  BY DEF AiSteps!Understood
<1>4. waiting # {} /\ ~AiSteps!Deferred /\ \A i \in AiSteps!Records : messages[i] = <<>>
  BY <1>1, AskingIsQuiet
<1>5. /\ Head(stack) \in Seq(AiSteps!Records)
      /\ \A i \in said : i \in AiSteps!Records /\ ToAsk(i)
  BY <1>1, BatchHead
<1>6. \A i \in said : AiSteps!ValueOf(answer, i) \in AiSteps!Values \ {"bad"}
  BY <1>1, <1>5, AnswersAll
<1>7. /\ Apart'
      /\ stack' \in Seq(Seq(AiSteps!Records)) /\ \A k \in DOMAIN stack' : stack'[k] # <<>>
      /\ \A i \in AiSteps!Records : ToAsk(i) <=> ToAsk(i)' \/ i \in said
      /\ \A i \in said : ~ToAsk(i)'
  BY <1>1, BatchLeft
<1>8. Billed' /\ spent' \in Nat /\ billed' \in Nat
  BY <1>1, ChargeKeeps
<1>9. answers \in [AiSteps!Records -> V] /\ meant \in [AiSteps!Records -> V]
  BY DEF AiInv, AiSteps!TypeOK
<1>10. \A i \in AiSteps!Records : AiSteps!ValueOf(answer, i) \in V \/ i \notin said
  BY <1>6
<1> HIDE DEF said, V
<1>11. answers' \in [AiSteps!Records -> V]
       /\ \A i \in AiSteps!Records : answers'[i] = IF i \in said
          THEN AiSteps!ValueOf(answer, i) ELSE answers[i]
  BY <1>2, <1>9, <1>10
<1>12. meant' \in [AiSteps!Records -> V]
       /\ \A i \in AiSteps!Records : meant'[i] = IF i \in said THEN answers'[i] ELSE meant[i]
  BY <1>3, <1>9, <1>11
<1>13. AiSteps!TypeOK'
  BY <1>1, <1>7, <1>8, <1>11, <1>12 DEF AiInv, AiSteps!TypeOK, V
<1>14. AnswerOwed'
  <2>1. SUFFICES ASSUME NEW i \in AiSteps!Records
                 PROVE  /\ answers'[i] # "none" => answers'[i] = meant'[i]
                        /\ ToAsk(i)' \/ answers'[i] # "none" \/ i \in cutoff'
                        /\ ToAsk(i)' => answers'[i] = "none" /\ i \notin cutoff'
                        /\ answers'[i] # "none" => i \notin cutoff'
    BY DEF AnswerOwed
  <2>2. /\ answers[i] # "none" => answers[i] = meant[i]
        /\ ToAsk(i) \/ answers[i] # "none" \/ i \in cutoff
        /\ ToAsk(i) => answers[i] = "none" /\ i \notin cutoff
        /\ answers[i] # "none" => i \notin cutoff
    BY <1>1 DEF AiInv, AnswerOwed
  <2>3. CASE i \in said
    <3>1. answers'[i] # "none"
      BY <1>6, <1>11, <2>3, NoneIsNoValue
    <3>2. answers'[i] = meant'[i]
      BY <1>12, <2>3
    <3>3. ~ToAsk(i)' /\ i \notin cutoff'
      BY <1>1, <1>5, <1>7, <2>2, <2>3
    <3> QED
      BY <3>1, <3>2, <3>3
  <2>4. CASE i \notin said
    <3>1. answers'[i] = answers[i] /\ meant'[i] = meant[i]
      BY <1>11, <1>12, <2>4
    <3>2. (ToAsk(i)' <=> ToAsk(i)) /\ cutoff' = cutoff
      BY <1>1, <1>7, <2>4
    <3> QED
      BY <2>2, <3>1, <3>2
  <2> QED
    BY <2>3, <2>4
<1>15. AiSettled' /\ AiSteps!OneAnswerEach'
  BY <1>1, <1>4 DEF AiInv, AiSettled, AiSteps!OneAnswerEach, AiSteps!Deferred
<1> QED
  BY <1>7, <1>8, <1>13, <1>14, <1>15 DEF AiInv

(* The reply is not: it is asked again, or the session dies.               *)
LEMMA AiMisunderstoodKeeps ==
  ASSUME AiSteps!AiStepsAssumption, AiInv, NEW answer, AiSteps!Misunderstood(answer) PROVE AiInv'
<1>1. /\ aphase = "asking" /\ stack # <<>> /\ AiSteps!Charge(FALSE)
      /\ UNCHANGED <<step, waiting, answers, cutoff, messages, batch, sessions, meant, astray>>
  BY DEF AiSteps!Misunderstood
<1>2. waiting # {} /\ ~AiSteps!Deferred /\ \A i \in AiSteps!Records : messages[i] = <<>>
  BY <1>1, AskingIsQuiet
<1>3. Billed' /\ spent' \in Nat /\ billed' \in Nat
  BY <1>1, ChargeKeeps
<1>4. CASE attempt' = 1 /\ aphase' = aphase /\ stack' = stack
  <2>1. AiSteps!TypeOK' /\ Apart' /\ AnswerOwed'
    BY <1>1, <1>3, <1>4 DEF AiInv, AiSteps!TypeOK, Apart, AnswerOwed, ToAsk
  <2>2. AiSettled' /\ AiSteps!OneAnswerEach'
    BY <1>1, <1>2, <1>4 DEF AiInv, AiSettled, AiSteps!OneAnswerEach, AiSteps!Deferred
  <2> QED
    BY <1>3, <2>1, <2>2 DEF AiInv
<1>5. CASE aphase' = "died" /\ stack' = <<>> /\ attempt' = attempt
  <2>1. AiSteps!TypeOK' /\ Apart' /\ AnswerOwed'
    BY <1>1, <1>3, <1>5 DEF AiInv, AiSteps!TypeOK, Apart, AnswerOwed
  <2>2. AiSettled' /\ AiSteps!OneAnswerEach'
    BY <1>1, <1>2, <1>5 DEF AiInv, AiSettled, AiSteps!OneAnswerEach, AiSteps!Deferred
  <2> QED
    BY <1>3, <2>1, <2>2 DEF AiInv
<1> QED
  BY <1>4, <1>5 DEF AiSteps!Misunderstood

\* Two halves of a batch hold its records, each of them some.
LEMMA HalvesAre ==
  ASSUME NEW part \in Seq(AiSteps!Records), Len(part) \notin {0, 1}
  PROVE  \E h \in Nat, l \in Seq(AiSteps!Records), r \in Seq(AiSteps!Records) :
           /\ h \in 1..(Len(part) - 1) /\ AiSteps!Halves(part) = <<l, r>>
           /\ DOMAIN l = 1..h /\ DOMAIN r = 1..(Len(part) - h)
           /\ \A a \in 1..h : l[a] = part[a]
           /\ \A a \in 1..(Len(part) - h) : r[a] = part[h + a]
<1>1. PICK n \in Nat, h \in Nat : n = Len(part) /\ DOMAIN part = 1..n /\ h = n \div 2
  OBVIOUS
<1>2. h \in Nat /\ h \in 1..(n - 1)
  BY <1>1
<1>3. PICK l, r : l = SubSeq(part, 1, h) /\ r = SubSeq(part, h + 1, n)
  OBVIOUS
<1>4. l \in Seq(AiSteps!Records) /\ DOMAIN l = 1..h /\ \A a \in 1..h : l[a] = part[a]
  BY <1>1, <1>2, <1>3
<1>5. r \in Seq(AiSteps!Records) /\ DOMAIN r = 1..(n - h)
      /\ \A a \in 1..(n - h) : r[a] = part[h + a]
  BY <1>1, <1>2, <1>3
<1>6. AiSteps!Halves(part) = <<l, r>>
  BY <1>1, <1>3 DEF AiSteps!Halves
<1> QED
  BY <1>1, <1>2, <1>4, <1>5, <1>6

(* Two batches in the place of one.                                        *)
LEMMA HalvesTwo ==
  ASSUME NEW S, NEW x \in S, NEW y \in S, NEW t, t = <<x, y>>
  PROVE  t \in Seq(S) /\ Len(t) = 2 /\ t[1] = x /\ t[2] = y
OBVIOUS
(* The batches behind the first.                                           *)
LEMMA HalvesTail == 
  ASSUME NEW S, NEW s \in Seq(S), s # <<>>, NEW t, t = Tail(s)
  PROVE  /\ t \in Seq(S) /\ Len(t) = Len(s) - 1
      /\ \A k \in 1..(Len(s) - 1) : t[k] = s[k + 1]
OBVIOUS
(* The halves before the others.                                           *)
LEMMA HalvesCat ==
  ASSUME NEW S, NEW u \in Seq(S), NEW v \in Seq(S), NEW t, t = u \o v
  PROVE  /\ t \in Seq(S) /\ Len(t) = Len(u) + Len(v)
         /\ \A k \in 1..(Len(u) + Len(v)) : t[k] = IF k <= Len(u) THEN u[k] ELSE v[k - Len(u)]
BY ConcatProperties
(* The two halves first, then the others.                                  *)
LEMMA HalvesThen ==
  ASSUME NEW S, NEW x \in S, NEW y \in S, NEW s \in Seq(S), s # <<>>, NEW t, t = <<x,
        y>> \o Tail(s)
  PROVE  /\ t \in Seq(S) /\ DOMAIN t = 1..(Len(s) + 1) /\ t[1] = x /\ t[2] = y
         /\ \A k \in 3..(Len(s) + 1) : t[k] = s[k - 1]
<1>0. PICK two, tail : two = <<x, y>> /\ tail = Tail(s) /\ t = two \o tail
  OBVIOUS
<1>1. two \in Seq(S) /\ Len(two) = 2 /\ two[1] = x /\ two[2] = y
  BY <1>0, HalvesTwo
<1>2. PICK n \in Nat : n = Len(s) /\ n # 0
  OBVIOUS
<1>3. /\ tail \in Seq(S) /\ Len(tail) = n - 1
      /\ \A k \in 1..(n - 1) : tail[k] = s[k + 1]
  <2>1. /\ tail \in Seq(S) /\ Len(tail) = Len(s) - 1
        /\ \A k \in 1..(Len(s) - 1) : tail[k] = s[k + 1]
    BY <1>0, HalvesTail
  <2> QED
    BY <2>1, <1>2, Zenon
<1>4. /\ t \in Seq(S) /\ Len(t) = Len(two) + Len(tail)
      /\ \A k \in 1..(Len(two) + Len(tail)) : t[k] = IF k <= Len(two) THEN two[k]
         ELSE tail[k - Len(two)]
  BY <1>0, <1>1, <1>3, HalvesCat
<1>5. t \in Seq(S) /\ Len(t) = 2 + (n - 1)
      /\ \A k \in 1..(2 + (n - 1)) : t[k] = IF k <= 2 THEN two[k] ELSE tail[k - 2]
  BY <1>1, <1>3, <1>4, Zenon
<1>6. 2 + (n - 1) = n + 1 /\ 1 \in 1..(n + 1) /\ 2 \in 1..(n + 1) /\ 1 <= 2 /\ 2 <= 2
      /\ \A k \in 3..(n + 1) : k \in 1..(n + 1) /\ ~(k <= 2) /\ k - 2 \in 1..(n - 1)
                               /\ (k - 2) + 1 = k - 1
  BY <1>2
<1>7. DOMAIN t = 1..(n + 1)
  BY <1>5, <1>6
<1>8. t[1] = x /\ t[2] = y
  BY <1>1, <1>5, <1>6
<1>9. \A k \in 3..(n + 1) : t[k] = s[k - 1]
  BY <1>3, <1>5, <1>6
<1> QED
  BY <1>2, <1>5, <1>7, <1>8, <1>9, Zenon

(* A batch in halves has the same records, each in one place.              *)
LEMMA SplitIs ==
  ASSUME AiInv, stack # <<>>, Len(Head(stack)) # 1,
        stack' = AiSteps!Halves(Head(stack)) \o Tail(stack)
  PROVE  /\ Apart' /\ stack' \in Seq(Seq(AiSteps!Records))
            /\ \A k \in DOMAIN stack' : stack'[k] # <<>>
         /\ \A i \in AiSteps!Records : ToAsk(i)' <=> ToAsk(i)
<1>1. PICK n \in Nat : DOMAIN stack = 1..n /\ Len(stack) = n /\ n # 0
  BY DEF AiInv, AiSteps!TypeOK
<1>2. PICK part \in Seq(AiSteps!Records), m \in Nat :
        part = Head(stack) /\ part = stack[1] /\ m = Len(part) /\ DOMAIN part = 1..m
  BY BatchHead
<1>3. m \notin {0, 1} /\ Len(part) \notin {0, 1}
  BY <1>2, BatchHead
<1>4. PICK h \in Nat, l \in Seq(AiSteps!Records), r \in Seq(AiSteps!Records) :
        /\ h \in 1..(m - 1) /\ AiSteps!Halves(part) = <<l, r>>
        /\ DOMAIN l = 1..h /\ DOMAIN r = 1..(m - h)
        /\ \A a \in 1..h : l[a] = part[a]
        /\ \A a \in 1..(m - h) : r[a] = part[h + a]
  <2>1. PICK h \in Nat, l \in Seq(AiSteps!Records), r \in Seq(AiSteps!Records) :
          /\ h \in 1..(Len(part) - 1) /\ AiSteps!Halves(part) = <<l, r>>
          /\ DOMAIN l = 1..h /\ DOMAIN r = 1..(Len(part) - h)
          /\ \A a \in 1..h : l[a] = part[a]
          /\ \A a \in 1..(Len(part) - h) : r[a] = part[h + a]
    BY <1>3, HalvesAre, Zenon
  <2> QED
    BY <1>2, <2>1, Zenon
<1>5. PICK S : S = Seq(AiSteps!Records)
  OBVIOUS
<1>6. stack \in Seq(S) /\ l \in S /\ r \in S /\ stack' = <<l, r>> \o Tail(stack)
      /\ \A k \in 1..n : stack[k] # <<>> /\ stack[k] \in S
  <2>1. stack \in Seq(S) /\ \A k \in 1..n : stack[k] # <<>>
    BY <1>1, <1>5 DEF AiInv, AiSteps!TypeOK
  <2>2. \A k \in 1..n : stack[k] \in S
    BY <1>1, <2>1
  <2> QED
    BY <1>2, <1>4, <1>5, <2>1, <2>2, Zenon
<1>s. PICK su : su = stack'
  OBVIOUS
<1>7. /\ su \in Seq(S) /\ DOMAIN su = 1..(n + 1)
      /\ su[1] = l /\ su[2] = r /\ \A k \in 3..(n + 1) : su[k] = stack[k - 1]
  <2>1. su = <<l, r>> \o Tail(stack)
    BY <1>s, <1>6
  <2>2. stack \in Seq(S) /\ l \in S /\ r \in S
    BY <1>6
  <2>3. /\ su \in Seq(S) /\ DOMAIN su = 1..(Len(stack) + 1) /\ su[1] = l /\ su[2] = r
        /\ \A k \in 3..(Len(stack) + 1) : su[k] = stack[k - 1]
    BY <2>1, <2>2, HalvesThen
  <2> QED
    BY <1>1, <2>3, Zenon
<1>8. /\ 1 \in 1..n /\ \A k \in 3..(n + 1) : k - 1 \in 1..n /\ k # 1 /\ k # 2
      /\ 1..(n + 1) = {1, 2} \cup 3..(n + 1) /\ 1 # 2
      /\ \A k \in 1..n : k = 1 \/ (k + 1 \in 3..(n + 1) /\ (k + 1) - 1 = k)
  BY <1>1
<1> DEFINE at(k) == IF k \in {1, 2} THEN 1 ELSE k - 1
           off(k) == IF k = 2 THEN h ELSE 0
<1>9. \A k \in 1..(n + 1) : \A a \in DOMAIN su[k] :
        /\ at(k) \in 1..n /\ off(k) + a \in DOMAIN stack[at(k)] /\ a \in Nat
        /\ su[k][a] = stack[at(k)][off(k) + a]
        /\ k = 1 => a <= h
        /\ k = 2 => a > 0
  <2>1. TAKE k \in 1..(n + 1)
  <2>2. TAKE a \in DOMAIN su[k]
  <2>3. CASE k = 1
    <3>0. su[k] = l
      BY <1>7, <2>3
    <3>1. at(k) = 1 /\ off(k) = 0 /\ a \in 1..h /\ su[k][a] = part[a]
      BY <1>4, <3>0, <2>3
    <3>2. 0 + a = a /\ a \in 1..m
      BY <1>4, <3>1
    <3> QED
      BY <1>2, <1>8, <2>3, <3>1, <3>2
  <2>4. CASE k = 2
    <3>1. at(k) = 1 /\ off(k) = h /\ a \in 1..(m - h) /\ su[k][a] = part[h + a]
      BY <1>4, <1>7, <2>4
    <3>2. h + a \in 1..m /\ a \in Nat /\ a > 0
      BY <1>2, <1>4, <3>1
    <3> QED
      BY <1>2, <1>8, <2>4, <3>1, <3>2
  <2>5. CASE k \in 3..(n + 1)
    <3>1. at(k) = k - 1 /\ off(k) = 0 /\ k - 1 \in 1..n /\ k # 1 /\ k # 2
      BY <1>8, <2>5
    <3>2. stack[k - 1] \in Seq(AiSteps!Records)
      BY <1>5, <1>6, <3>1
    <3>3. a \in Nat /\ 0 + a = a
      <4>1. PICK q \in Seq(AiSteps!Records) : q = su[k] /\ a \in DOMAIN q
        BY <1>7, <2>5, <3>2
      <4> QED
        BY <4>1
    <3> QED
      BY <1>7, <2>5, <3>1, <3>3
  <2> QED
    BY <1>8, <2>3, <2>4, <2>5
<1>10. ASSUME NEW k \in 1..(n + 1), NEW j \in 1..(n + 1),
              NEW a \in DOMAIN su[k], NEW b \in DOMAIN su[j], su[k][a] = su[j][b]
       PROVE  k = j /\ a = b
  <2>2. at(k) = at(j) /\ off(k) + a = off(j) + b
    <3>1. /\ at(k) \in DOMAIN stack /\ at(j) \in DOMAIN stack
          /\ off(k) + a \in DOMAIN stack[at(k)] /\ off(j) + b \in DOMAIN stack[at(j)]
          /\ stack[at(k)][off(k) + a] = stack[at(j)][off(j) + b]
      BY <1>1, <1>9, <1>10
    <3> HIDE DEF at, off
    <3> QED
      BY <3>1 DEF AiInv, Apart
  <2>3. /\ a \in Nat /\ b \in Nat /\ (k = 1 => a <= h) /\ (k = 2 => a > 0)
        /\ (j = 1 => b <= h) /\ (j = 2 => b > 0)
    BY <1>9
  <2> QED
    BY SMTT(30), <1>1, <1>4, <2>2, <2>3
<1>13. Apart'
  <2> DEFINE Own(t) == \A k, j \in DOMAIN t : \A a \in DOMAIN t[k], b \in DOMAIN t[j] :
                         t[k][a] = t[j][b] => k = j /\ a = b
  <2>1. \A k, j \in 1..(n + 1) : \A a \in DOMAIN su[k], b \in DOMAIN su[j] :
          su[k][a] = su[j][b] => k = j /\ a = b
    BY <1>10
  <2>2. Own(su)
    BY <1>7, <2>1, Zenon
  <2> HIDE DEF Own
  <2>3. Own(stack')
    BY <1>s, <2>2, Zenon
  <2> QED
    BY <2>3, Zenon DEF Apart, Own
<1>11. \A k \in 1..(n + 1) : su[k] # <<>>
  <2>1. l # <<>> /\ r # <<>>
    BY <1>2, <1>4
  <2>2. \A k \in 3..(n + 1) : su[k] # <<>>
    BY <1>6, <1>7, <1>8
  <2> QED
    BY <1>7, <1>8, <2>1, <2>2
<1>12. ASSUME NEW i \in AiSteps!Records PROVE ToAsk(i)' <=> ToAsk(i)
  <2>1. ToAsk(i)' <=> \E k \in 1..(n + 1) : \E a \in DOMAIN su[k] : su[k][a] = i
    <3>1. ToAsk(i)' <=> \E k \in DOMAIN stack' : \E a \in DOMAIN stack'[k] : stack'[k][a] = i
      BY Zenon DEF ToAsk, AiSteps!SetOf
    <3>2. stack' = su /\ DOMAIN stack' = 1..(n + 1)
      BY <1>s, <1>7
    <3> QED
      BY <3>1, <3>2
  <2>2. ToAsk(i) <=> \E k \in 1..n : \E a \in DOMAIN stack[k] : stack[k][a] = i
    BY <1>1, Zenon DEF ToAsk, AiSteps!SetOf
  <2>3. ASSUME NEW k \in 1..(n + 1), NEW a \in DOMAIN su[k], su[k][a] = i PROVE ToAsk(i)
    <3> HIDE DEF at, off
    <3> QED
      BY <1>9, <2>2, <2>3
  <2>4. ASSUME NEW k \in 1..n, NEW a \in DOMAIN stack[k], stack[k][a] = i
        PROVE  \E j \in 1..(n + 1) : \E b \in DOMAIN su[j] : su[j][b] = i
    <3>1. CASE k # 1
      <4>1. k + 1 \in 3..(n + 1) /\ k + 1 \in 1..(n + 1) /\ su[k + 1] = stack[k]
        BY <1>7, <1>8, <3>1
      <4> QED
        BY <2>4, <4>1
    <3>2. CASE k = 1 /\ a \in 1..h
      <4>1. 1 \in 1..(n + 1) /\ a \in DOMAIN su[1] /\ su[1][a] = i
        BY <1>2, <1>4, <1>7, <1>8, <2>4, <3>2
      <4> QED
        BY <4>1
    <3>3. CASE k = 1 /\ a \in (h + 1)..m
      <4>1. a - h \in 1..(m - h) /\ h + (a - h) = a
        BY <1>4, <3>3
      <4>2. 2 \in 1..(n + 1) /\ a - h \in DOMAIN su[2] /\ su[2][a - h] = i
        BY <1>2, <1>4, <1>7, <1>8, <2>4, <3>3, <4>1
      <4> QED
        BY <4>2
    <3>4. CASE k = 1
      <4>1. a \in 1..m /\ (a \in 1..h \/ a \in (h + 1)..m)
        BY <1>2, <1>4, <3>4
      <4> QED
        BY <3>2, <3>3, <3>4, <4>1
    <3> QED
      BY <3>1, <3>4
  <2> QED
    BY <2>1, <2>2, <2>3, <2>4
<1> QED
  BY <1>5, <1>7, <1>s, <1>11, <1>12, <1>13

(* The reply is cut off: the batch is halved, or its one record dropped.   *)
LEMMA AiCutOffKeeps == ASSUME AiSteps!AiStepsAssumption, AiInv, AiSteps!CutOff PROVE AiInv'
<1>1. /\ aphase = "asking" /\ stack # <<>> /\ AiSteps!Charge(TRUE) /\ attempt' = 0
      /\ UNCHANGED <<step, aphase, waiting, answers, messages, batch, sessions, meant, astray>>
  BY DEF AiSteps!CutOff
<1>2. waiting # {} /\ ~AiSteps!Deferred /\ \A i \in AiSteps!Records : messages[i] = <<>>
  BY <1>1, AskingIsQuiet
<1>3. Billed' /\ spent' \in Nat /\ billed' \in Nat
  BY <1>1, ChargeKeeps
<1>4. stack' = <<>> \/ aphase' = "asking"
  BY <1>1
<1>5. AiSettled' /\ AiSteps!OneAnswerEach'
  BY <1>1, <1>2 DEF AiInv, AiSettled, AiSteps!OneAnswerEach, AiSteps!Deferred
<1> DEFINE said == AiSteps!SetOf(Head(stack))
<1>6. \A i \in said : i \in AiSteps!Records /\ ToAsk(i)
  BY <1>1, BatchHead
<1>7. CASE stack' = Tail(stack) /\ cutoff' = cutoff \cup said
  <2>1. /\ Apart'
        /\ stack' \in Seq(Seq(AiSteps!Records)) /\ \A k \in DOMAIN stack' : stack'[k] # <<>>
        /\ \A i \in AiSteps!Records : ToAsk(i) <=> ToAsk(i)' \/ i \in said
        /\ \A i \in said : ~ToAsk(i)'
    BY <1>1, <1>7, BatchLeft DEF AiInv, AiSteps!TypeOK
  <2> HIDE DEF said
  <2>2. AiSteps!TypeOK'
    BY <1>1, <1>3, <1>6, <1>7, <2>1 DEF AiInv, AiSteps!TypeOK
  <2>3. AnswerOwed'
    <3>1. SUFFICES ASSUME NEW i \in AiSteps!Records
                   PROVE  /\ answers'[i] # "none" => answers'[i] = meant'[i]
                          /\ ToAsk(i)' \/ answers'[i] # "none" \/ i \in cutoff'
                          /\ ToAsk(i)' => answers'[i] = "none" /\ i \notin cutoff'
                          /\ answers'[i] # "none" => i \notin cutoff'
      BY DEF AnswerOwed
    <3>2. /\ answers[i] # "none" => answers[i] = meant[i]
          /\ ToAsk(i) \/ answers[i] # "none" \/ i \in cutoff
          /\ ToAsk(i) => answers[i] = "none" /\ i \notin cutoff
          /\ answers[i] # "none" => i \notin cutoff
      BY <1>1 DEF AiInv, AnswerOwed
    <3>3. (ToAsk(i) <=> ToAsk(i)' \/ i \in said) /\ (i \in said => ~ToAsk(i)')
      BY <2>1
    <3>4. i \in cutoff' <=> i \in cutoff \/ i \in said
      BY <1>7
    <3> QED
      BY <1>1, <3>2, <3>3, <3>4
  <2> QED
    BY <1>3, <1>5, <2>1, <2>2, <2>3 DEF AiInv
<1>8. CASE Len(Head(stack)) # 1 /\ stack' = AiSteps!Halves(Head(stack)) \o Tail(stack)
      /\ cutoff' = cutoff
  <2>1. /\ Apart' /\ stack' \in Seq(Seq(AiSteps!Records))
           /\ \A k \in DOMAIN stack' : stack'[k] # <<>>
        /\ \A i \in AiSteps!Records : ToAsk(i)' <=> ToAsk(i)
    BY <1>1, <1>8, SplitIs
  <2>2. AiSteps!TypeOK'
    BY <1>1, <1>3, <1>8, <2>1 DEF AiInv, AiSteps!TypeOK
  <2>3. AnswerOwed'
    BY <1>1, <1>8, <2>1 DEF AiInv, AnswerOwed
  <2> QED
    BY <1>3, <1>5, <2>1, <2>2, <2>3 DEF AiInv
<1> QED
  BY <1>7, <1>8 DEF AiSteps!CutOff

(* No batch is left: the answers are emitted, and only a dropped record    *)
(* has none.                                                               *)
LEMMA AiFinishKeeps == ASSUME AiSteps!AiStepsAssumption, AiInv, AiSteps!Finish PROVE AiInv'
<1>1. /\ aphase = "asking" /\ stack = <<>> /\ aphase' = "idle" /\ waiting' = {}
      /\ UNCHANGED <<step, stack, attempt, answers, cutoff, batch, spent, billed, sessions,
                     meant, astray>>
  BY DEF AiSteps!Finish
<1>2. messages' = [i \in AiSteps!Records |-> IF answers[i] = "none" THEN messages[i]
                                             ELSE messages[i] \o AiSteps!Emitted(i, answers[i])]
  BY DEF AiSteps!Finish, AiSteps!Emit
<1>3. waiting # {} /\ ~AiSteps!Deferred /\ DOMAIN batch = {}
      /\ \A i \in AiSteps!Records : messages[i] = <<>>
  BY <1>1, AskingIsQuiet
<1>4. step \in AiStepsOf
      /\ answers \in [AiSteps!Records -> (AiSteps!Values \ {"bad"}) \cup {"none"}]
  BY DEF AiInv, AiSteps!TypeOK
<1>5. \A i \in AiSteps!Records :
        /\ answers[i] = "none" <=> i \in cutoff
        /\ answers[i] = "none" => messages'[i] = <<>>
        /\ answers[i] # "none" => /\ messages'[i] = AiSteps!Emitted(i, meant[i])
                                  /\ messages'[i] # <<>>
        /\ messages'[i] \in Seq({"RECORD", "VERDICT"} \X (AiSteps!Values \ {"bad"}))
  <2>1. TAKE i \in AiSteps!Records
  <2>2. /\ answers[i] # "none" => answers[i] = meant[i]
        /\ answers[i] = "none" <=> i \in cutoff
    <3>1. ~ToAsk(i)
      BY <1>1 DEF ToAsk
    <3> QED
      BY <1>1, <3>1 DEF AiInv, AnswerOwed
  <2>3. CASE answers[i] = "none"
    <3>1. messages'[i] = <<>>
      BY <1>2, <1>3, <2>3
    <3>2. <<>> \in Seq({"RECORD", "VERDICT"} \X (AiSteps!Values \ {"bad"}))
      OBVIOUS
    <3> QED
      BY <2>2, <2>3, <3>1, <3>2, Zenon
  <2>4. CASE answers[i] # "none"
    <3>1. answers[i] \in AiSteps!Values \ {"bad"}
      BY <1>4, <2>4
    <3>2. PICK e \in Seq({"RECORD", "VERDICT"} \X (AiSteps!Values \ {"bad"})) :
            e = AiSteps!Emitted(i, answers[i]) /\ e # <<>>
      BY <1>4, <3>1, EmittedIs
    <3>3. messages'[i] = <<>> \o e
      BY <1>2, <1>3, <2>4, <3>2
    <3>4. <<>> \o e = e
      OBVIOUS
    <3> QED
      BY <2>2, <2>4, <3>2, <3>3, <3>4, Zenon
  <2> QED
    BY <2>3, <2>4
<1>6. AiSteps!TypeOK'
  <2>1. DOMAIN messages' = AiSteps!Records /\ messages' = [i \in AiSteps!Records |-> messages'[i]]
    BY <1>2
  <2>2. messages' \in [AiSteps!Records -> Seq({"RECORD",
        "VERDICT"} \X (AiSteps!Values \ {"bad"}))]
    BY <1>5, <2>1, Zenon
  <2> QED
    BY <1>1, <2>2 DEF AiInv, AiSteps!TypeOK
<1>7. Apart' /\ AnswerOwed' /\ AiSettled' /\ Billed'
  <2>1. Apart' /\ AnswerOwed'
    BY <1>1 DEF AiInv, Apart, AnswerOwed
  <2>2. AiSettled'
    BY <1>1, <1>3 DEF AiSettled, AiSteps!Deferred
  <2>3. Billed'
    BY <1>1 DEF AiInv, Billed, Bill
  <2> QED
    BY <2>1, <2>2, <2>3
<1>8. AiSteps!OneAnswerEach'
  <2>1. \A i \in AiSteps!Records : AiSteps!Emitted(i, meant[i])' = AiSteps!Emitted(i, meant[i])
    BY <1>1 DEF AiSteps!Emitted
  <2> QED
    BY <1>1, <1>5, <2>1 DEF AiSteps!OneAnswerEach
<1> QED
  BY <1>6, <1>7, <1>8 DEF AiInv

(* A batch is submitted; its token is kept, or lost with the bill.         *)
LEMMA AiSubmitKeeps ==
  ASSUME AiSteps!AiStepsAssumption, AiInv, NEW kept \in BOOLEAN, AiSteps!Submit(kept) PROVE AiInv'
<1>1. /\ AiSteps!Deferred /\ aphase = "idle" /\ waiting # {} /\ DOMAIN batch = {}
      /\ sessions' = sessions + 1
      /\ UNCHANGED <<step, aphase, waiting, stack, attempt, answers, cutoff, messages, billed,
                     meant>>
  BY DEF AiSteps!Submit
<1>2. /\ sessions \in Nat /\ spent \in Nat /\ billed \in Nat
      /\ astray \in [unseen : Nat, twice : Nat] /\ waiting \subseteq AiSteps!Records
  BY DEF AiInv, AiSteps!TypeOK
<1>3. \A i \in AiSteps!Records : messages[i] = <<>>
  BY <1>1 DEF AiInv, AiSettled
<1>4. Apart' /\ AnswerOwed' /\ AiSteps!OneAnswerEach' /\ AiSteps!Deferred'
  <2>1. Apart' /\ AnswerOwed'
    BY <1>1 DEF AiInv, Apart, AnswerOwed
  <2>2. AiSteps!OneAnswerEach' /\ AiSteps!Deferred'
    BY <1>1, <1>3 DEF AiSteps!OneAnswerEach, AiSteps!Deferred
  <2> QED
    BY <2>1, <2>2
<1>5. AiSettled'
  BY <1>1, <1>3, <1>4 DEF AiInv, AiSettled
<1>6. Bill(DOMAIN batch) = {} /\ Cardinality({}) = 0
  BY <1>1, FS_EmptySet DEF Bill
<1>7. billed + astray.unseen = spent + astray.twice
  BY <1>2, <1>6 DEF AiInv, Billed
<1>8. CASE kept
  <2>1. batch' = [i \in waiting |-> AiSteps!Processing] /\ UNCHANGED <<spent, astray>>
    BY <1>8 DEF AiSteps!Submit
  <2>2. Bill(DOMAIN batch)' = {}
    BY <2>1 DEF Bill, AiSteps!Billable, AiSteps!Values, AiSteps!Processing
  <2>3. Billed'
    <3>1. Cardinality(Bill(DOMAIN batch)') = 0
      BY <1>6, <2>2
    <3>2. billed' + astray'.unseen + 0 = spent' + astray'.twice
      BY <1>1, <1>2, <1>7, <2>1
    <3>3. \A i \in DOMAIN batch' : batch'[i] = AiSteps!Processing
      BY <2>1
    <3> QED
      BY <3>1, <3>2, <3>3 DEF Billed
  <2>4. batch' \in [waiting -> AiSteps!Results \cup {AiSteps!Processing}]
        /\ waiting \in SUBSET AiSteps!Records
    BY <1>2, <2>1
  <2>5. \E S \in SUBSET AiSteps!Records :
        batch' \in [S -> AiSteps!Results \cup {AiSteps!Processing}]
    BY <2>4
  <2>6. AiSteps!TypeOK'
    BY <1>1, <1>2, <2>1, <2>5 DEF AiInv, AiSteps!TypeOK
  <2> QED
    BY <1>4, <1>5, <2>3, <2>6 DEF AiInv
<1>9. CASE ~kept
  <2>1. /\ spent' = spent + Cardinality(waiting)
        /\ astray' = [astray EXCEPT !.unseen = @ + Cardinality(waiting)]
        /\ batch' = batch
    BY <1>9, AiCounts DEF AiSteps!Submit
  <2>2. PICK c \in Nat : c = Cardinality(waiting)
    <3>1. IsFiniteSet(waiting)
      BY <1>2, BatchFinite, FS_Subset DEF AiInv
    <3> QED
      BY <3>1, FS_CardinalityType
  <2>3. /\ spent' = spent + c /\ astray'.unseen = astray.unseen + c
        /\ astray'.twice = astray.twice
        /\ astray' \in [unseen : Nat, twice : Nat] /\ spent' \in Nat
    BY <1>2, <2>1, <2>2
  <2>4. Billed'
    BY SMTT(30), <1>1, <1>2, <1>6, <1>7, <2>1, <2>3 DEF AiInv, Billed, Bill
  <2>5. AiSteps!TypeOK'
    BY SMTT(30), <1>1, <1>2, <2>1, <2>3 DEF AiInv, AiSteps!TypeOK
  <2> QED
    BY <1>4, <1>5, <2>4, <2>5 DEF AiInv
<1> QED
  BY <1>8, <1>9

(* The provider ends a batch and charges for what it answered.             *)
LEMMA AiProviderEndsKeeps == ASSUME AiSteps!AiStepsAssumption, AiInv, AiSteps!ProviderEnds
      PROVE AiInv'
<1>1. /\ \E i \in DOMAIN batch : batch[i] = AiSteps!Processing
      /\ UNCHANGED <<step, aphase, waiting, stack, attempt, answers, cutoff, messages, billed,
                     sessions, meant, astray>>
  BY DEF AiSteps!ProviderEnds
<1>2. PICK results \in [DOMAIN batch -> AiSteps!Results] :
        /\ batch' = results
        /\ spent' = spent + Cardinality({i \in DOMAIN batch : AiSteps!Billable(results[i])})
  BY AiCounts DEF AiSteps!ProviderEnds
<1>3. DOMAIN batch' = DOMAIN batch /\ \A i \in DOMAIN batch : batch'[i] \in AiSteps!Results
  BY <1>2
<1>4. Bill(DOMAIN batch)' = {i \in DOMAIN batch : AiSteps!Billable(results[i])}
  BY <1>2, <1>3 DEF Bill, AiSteps!Billable
<1>5. Bill(DOMAIN batch) = {} /\ Cardinality({}) = 0
  BY <1>1, FS_EmptySet DEF AiInv, Billed, Bill, AiSteps!Billable, AiSteps!Values,
        AiSteps!Processing
<1>6. PICK c \in Nat : c = Cardinality(Bill(DOMAIN batch)')
  <2>1. Bill(DOMAIN batch)' \subseteq AiSteps!Records
    BY <1>4, BatchFinite DEF AiInv
  <2>2. IsFiniteSet(Bill(DOMAIN batch)')
    BY <2>1, BatchFinite, FS_Subset DEF AiInv
  <2> QED
    BY <2>2, FS_CardinalityType
<1>7. spent' = spent + c /\ spent \in Nat /\ billed \in Nat
      /\ astray \in [unseen : Nat, twice : Nat]
  BY <1>2, <1>4, <1>6 DEF AiInv, AiSteps!TypeOK
<1>8. billed + astray.unseen = spent + astray.twice
  BY <1>5, <1>7 DEF AiInv, Billed
<1>9. AiSteps!Processing \notin AiSteps!Results
  BY DEF AiSteps!Processing, AiSteps!Results, AiSteps!Values
<1>10. Billed'
  <2>1. billed' + astray'.unseen + c = spent' + astray'.twice
    BY <1>1, <1>7, <1>8
  <2>2. ~ \E i \in DOMAIN batch' : batch'[i] = AiSteps!Processing
    BY <1>3, <1>9
  <2> QED
    BY <1>6, <2>1, <2>2 DEF Billed
<1>11. AiSteps!TypeOK'
  <2>1. \E S \in SUBSET AiSteps!Records :
        batch' \in [S -> AiSteps!Results \cup {AiSteps!Processing}]
    <3>1. DOMAIN batch \in SUBSET AiSteps!Records
          /\ batch' \in [DOMAIN batch -> AiSteps!Results \cup {AiSteps!Processing}]
      BY <1>2, BatchFinite DEF AiInv
    <3> QED
      BY <3>1
  <2> QED
    BY <1>1, <1>7, <2>1 DEF AiInv, AiSteps!TypeOK
<1>12. Apart' /\ AnswerOwed'
  BY <1>1 DEF AiInv, Apart, AnswerOwed, ToAsk
<1>13. AiSettled' /\ AiSteps!OneAnswerEach'
  BY <1>1, <1>3 DEF AiInv, AiSettled, AiSteps!OneAnswerEach, AiSteps!Deferred, AiSteps!Emitted
<1> QED
  BY <1>10, <1>11, <1>12, <1>13 DEF AiInv

\* Where a batch is out, the step defers it.
LEMMA DeferredBatch == ASSUME AiInv, DOMAIN batch # {} PROVE AiSteps!Deferred /\ aphase = "idle"
BY DEF AiInv, AiSteps!TypeOK, AiSettled

(* Records leave while they wait.                                          *)
LEMMA AiWithdrawKeeps ==
  ASSUME AiSteps!AiStepsAssumption, AiInv, NEW i \in AiSteps!Records, AiSteps!Withdraw(i)
        PROVE AiInv'
<1>1. /\ DOMAIN batch # {} /\ i \in waiting /\ waiting' = waiting \ {i}
      /\ UNCHANGED <<step, aphase, stack, attempt, answers, cutoff, messages, batch, spent,
                     billed, sessions, meant, astray>>
  BY DEF AiSteps!Withdraw
<1>2. AiSteps!Deferred /\ aphase = "idle"
  BY <1>1, DeferredBatch
<1>3. AiSteps!TypeOK' /\ Apart' /\ AnswerOwed' /\ Billed'
  BY <1>1, <1>2 DEF AiInv, AiSteps!TypeOK, Apart, AnswerOwed, Billed, Bill
<1>4. AiSettled' /\ AiSteps!OneAnswerEach'
  BY <1>1, <1>2 DEF AiInv, AiSettled, AiSteps!OneAnswerEach, AiSteps!Deferred, AiSteps!Emitted
<1> QED
  BY <1>3, <1>4 DEF AiInv

(* A batch is collected: billed once for those that wait, or killed        *)
(* behind its COST.                                                        *)
LEMMA AiCollectKeeps ==
  ASSUME AiSteps!AiStepsAssumption, AiInv, NEW killed \in BOOLEAN, AiSteps!Collect(killed)
        PROVE AiInv'
<1> DEFINE units(S) == Cardinality({i \in S \cap DOMAIN batch : AiSteps!Billable(batch[i])})
           said == [i \in AiSteps!Records |-> IF AiSteps!Accepted(i) THEN batch[i] ELSE "none"]
<1>1. /\ DOMAIN batch # {} /\ waiting # {}
         /\ \A i \in DOMAIN batch : batch[i] # AiSteps!Processing
      /\ sessions' = sessions + 1 /\ billed' = billed + units(waiting)
      /\ UNCHANGED <<step, aphase, stack, attempt, answers, cutoff, spent>>
  BY AiCounts DEF AiSteps!Collect
<1>2. AiSteps!Deferred /\ aphase = "idle" /\ \A i \in AiSteps!Records : messages[i] = <<>>
  BY <1>1, DeferredBatch DEF AiInv, AiSettled
<1>3. PICK u, v : u = units(waiting) /\ v = units(DOMAIN batch \ waiting)
  OBVIOUS
<1>4. u \in Nat /\ v \in Nat /\ Cardinality(Bill(DOMAIN batch)) = u + v
  <2> DEFINE A == Bill(waiting \cap DOMAIN batch)
             B == Bill((DOMAIN batch \ waiting) \cap DOMAIN batch)
  <2>1. u = Cardinality(A) /\ v = Cardinality(B)
    BY <1>3 DEF Bill
  <2>2. IsFiniteSet(A) /\ IsFiniteSet(B) /\ Cardinality(A) \in Nat /\ Cardinality(B) \in Nat
    BY BatchFinite DEF AiInv
  <2>3. A \cap B = {} /\ A \cup B = Bill(DOMAIN batch)
    BY DEF Bill
  <2> HIDE DEF A, B
  <2>4. Cardinality(A \cup B) = Cardinality(A) + Cardinality(B) - Cardinality(A \cap B)
    BY <2>2, FS_Union
  <2>5. Cardinality(A \cap B) = 0
    BY <2>3, FS_EmptySet
  <2>6. Cardinality(Bill(DOMAIN batch)) = Cardinality(A) + Cardinality(B) - 0
    BY <2>3, <2>4, <2>5, Zenon
  <2> QED
    BY <2>1, <2>2, <2>6
<1>5. /\ sessions \in Nat /\ spent \in Nat /\ billed \in Nat
      /\ astray \in [unseen : Nat, twice : Nat] /\ waiting \subseteq AiSteps!Records
  BY DEF AiInv, AiSteps!TypeOK
<1>6. billed + astray.unseen + (u + v) = spent + astray.twice
  BY <1>4 DEF AiInv, Billed
<1>7. Apart' /\ AnswerOwed' /\ AiSteps!Deferred'
  BY <1>1, <1>2 DEF AiInv, Apart, AnswerOwed, AiSteps!Deferred
<1>8. CASE killed
  <2>1. /\ astray' = [astray EXCEPT !.twice = @ + u] /\ billed' = billed + u
        /\ UNCHANGED <<messages, meant, waiting, batch>>
    BY <1>1, <1>3, <1>8, AiCounts DEF AiSteps!Collect
  <2>2. /\ astray'.twice = astray.twice + u /\ astray'.unseen = astray.unseen
        /\ astray' \in [unseen : Nat, twice : Nat]
    BY <1>4, <1>5, <2>1
  <2>3. Billed'
    <3>1. PICK c : c = Cardinality(Bill(DOMAIN batch)) /\ c = u + v
      BY <1>4
    <3>2. billed' + astray'.unseen + c = spent' + astray'.twice
      BY <1>1, <1>4, <1>5, <1>6, <2>1, <2>2, <3>1
    <3> QED
      BY <2>1, <3>1, <3>2 DEF AiInv, Billed, Bill
  <2>4. AiSteps!TypeOK'
    BY SMTT(30), <1>1, <1>4, <1>5, <2>1, <2>2 DEF AiInv, AiSteps!TypeOK
  <2>5. AiSettled' /\ AiSteps!OneAnswerEach'
    BY <1>1, <1>2, <1>7, <2>1 DEF AiInv, AiSettled, AiSteps!OneAnswerEach, AiSteps!Emitted
  <2> QED
    BY <1>7, <2>3, <2>4, <2>5 DEF AiInv
<1>9. CASE ~killed
  <2>1. /\ astray' = [astray EXCEPT !.unseen = @ + v] /\ billed' = billed + u
        /\ messages' = [i \in AiSteps!Records |-> IF said[i] = "none" THEN messages[i]
                                                  ELSE messages[i] \o AiSteps!Emitted(i, said[i])]
        /\ meant' = [i \in AiSteps!Records |-> IF AiSteps!Accepted(i) THEN said[i] ELSE meant[i]]
        /\ waiting' = {} /\ batch' = AiSteps!NoBatch
    BY <1>1, <1>3, <1>9, AiCounts DEF AiSteps!Collect, AiSteps!Emit
  <2>2. /\ astray'.unseen = astray.unseen + v /\ astray'.twice = astray.twice
        /\ astray' \in [unseen : Nat, twice : Nat]
    BY SMTT(30), <1>4, <1>5, <2>1
  <2>3. AiSteps!NoBatch \in [{} -> AiSteps!Results \cup {AiSteps!Processing}]
        /\ DOMAIN AiSteps!NoBatch = {}
    BY DEF AiSteps!NoBatch
  <2>4. Billed'
    <3>1. Bill(DOMAIN batch)' = {}
      BY <2>1, <2>3 DEF Bill
    <3>2. Cardinality(Bill(DOMAIN batch)') = 0
      BY <3>1, FS_EmptySet
    <3>3. billed' + astray'.unseen + 0 = spent' + astray'.twice
      BY <1>1, <1>4, <1>5, <1>6, <2>1, <2>2
    <3> QED
      BY <2>1, <2>3, <3>2, <3>3 DEF Billed
  <2> DEFINE M == Seq({"RECORD", "VERDICT"} \X (AiSteps!Values \ {"bad"}))
  <2>5. \A i \in AiSteps!Records : /\ messages'[i] \in {<<>>, AiSteps!Emitted(i, meant'[i])}
                                   /\ messages'[i] \in M
                                   /\ meant'[i] \in (AiSteps!Values \ {"bad"}) \cup {"none"}
    <3>1. TAKE i \in AiSteps!Records
    <3>2. <<>> \in M
      OBVIOUS
    <3>3. CASE AiSteps!Accepted(i)
      <4>1. batch[i] \in AiSteps!Values \ {"bad"} /\ said[i] = batch[i] /\ batch[i] # "none"
        BY <3>3, NoneIsNoValue DEF AiSteps!Accepted
      <4>2. PICK e \in M : e = AiSteps!Emitted(i, batch[i])
        BY <4>1, EmittedIs DEF AiInv, AiSteps!TypeOK
      <4>3. messages'[i] = <<>> \o e /\ meant'[i] = batch[i]
        BY <1>2, <2>1, <3>3, <4>1, <4>2
      <4>4. <<>> \o e = e
        OBVIOUS
      <4> QED
        BY <4>1, <4>2, <4>3, <4>4, Zenon
    <3>4. CASE ~AiSteps!Accepted(i)
      <4>1. said[i] = "none" /\ messages'[i] = <<>> /\ meant'[i] = meant[i]
        BY <1>2, <2>1, <3>4
      <4> QED
        BY <3>2, <4>1 DEF AiInv, AiSteps!TypeOK
    <3> QED
      BY <3>3, <3>4
  <2>6. messages' \in [AiSteps!Records -> M]
        /\ meant' \in [AiSteps!Records -> (AiSteps!Values \ {"bad"}) \cup {"none"}]
    <3>1. /\ messages' = [i \in AiSteps!Records |-> messages'[i]]
          /\ meant' = [i \in AiSteps!Records |-> meant'[i]]
      BY <2>1
    <3> QED
      BY <2>5, <3>1, Zenon
  <2>7. AiSteps!TypeOK'
    <3>1. \E S \in SUBSET AiSteps!Records :
          batch' \in [S -> AiSteps!Results \cup {AiSteps!Processing}]
      BY <2>1, <2>3
    <3>2. billed' \in Nat /\ sessions' \in Nat /\ spent' \in Nat
          /\ waiting' \subseteq AiSteps!Records
      BY <1>1, <1>4, <1>5, <2>1
    <3> HIDE DEF said, units
    <3> QED
      BY <1>1, <2>2, <2>6, <3>1, <3>2 DEF AiInv, AiSteps!TypeOK
  <2>8. AiSettled' /\ AiSteps!OneAnswerEach'
    <3>1. \A i \in AiSteps!Records : AiSteps!Emitted(i, meant[i])' = AiSteps!Emitted(i, meant'[i])
      BY <1>1 DEF AiSteps!Emitted
    <3>2. AiSteps!OneAnswerEach'
      BY <1>1, <1>2, <1>7, <2>5, <3>1 DEF AiSteps!OneAnswerEach
    <3>3. AiSettled'
      BY <1>1, <1>2, <1>7, <2>1, <2>3 DEF AiInv, AiSettled
    <3> QED
      BY <3>2, <3>3
  <2> QED
    BY <1>7, <2>4, <2>7, <2>8 DEF AiInv
<1> QED
  BY <1>8, <1>9

(* Every step keeps the invariant.                                         *)
LEMMA AiNext == AiSteps!AiStepsAssumption /\ AiInv /\ [AiSteps!Next]_(AiSteps!vars) => AiInv'
<1> SUFFICES ASSUME AiSteps!AiStepsAssumption, AiInv, [AiSteps!Next]_(AiSteps!vars) PROVE AiInv'
  OBVIOUS
<1>1. CASE AiSteps!Open \/ AiSteps!CutOff \/ AiSteps!Finish \/ AiSteps!ProviderEnds
  BY <1>1, AiOpenKeeps, AiCutOffKeeps, AiFinishKeeps, AiProviderEndsKeeps
<1>2. CASE \E n \in 1 .. AiRecords : aphase = "asking" /\ stack # <<>> /\ n = Len(Head(stack))
             /\ \E a \in {b \in AiSteps!Answers(n) : AiSteps!Parses(b, Head(stack))} :
                  AiSteps!Understood(a)
  <2>1. PICK a \in AiSteps!Answers(Len(Head(stack))) : AiSteps!Understood(a)
    BY <1>2
  <2> QED
    BY <2>1, AiUnderstoodKeeps
<1>3. CASE \E b \in BOOLEAN : AiSteps!CallFails(b) \/ AiSteps!Submit(b) \/ AiSteps!Collect(b)
  BY <1>3, AiCallFailsKeeps, AiSubmitKeeps, AiCollectKeeps
<1>4. CASE \E i \in AiSteps!Records : AiSteps!Withdraw(i)
  BY <1>4, AiWithdrawKeeps
<1>5. CASE AiSteps!Misunderstood(AiSteps!Prose)
  BY <1>5, AiMisunderstoodKeeps
<1>6. CASE UNCHANGED AiSteps!vars
  <2>1. AiSteps!TypeOK' /\ Apart' /\ AnswerOwed'
    BY <1>6 DEF AiInv, AiSteps!TypeOK, Apart, AnswerOwed, ToAsk, AiSteps!vars
  <2>2. AiSettled' /\ Billed' /\ AiSteps!OneAnswerEach'
    BY <1>6 DEF AiInv, AiSettled, Billed, Bill, AiSteps!OneAnswerEach, AiSteps!Deferred,
          AiSteps!Emitted, AiSteps!vars
  <2> QED
    BY <2>1, <2>2 DEF AiInv
<1> QED
  BY <1>1, <1>2, <1>3, <1>4, <1>5, <1>6 DEF AiSteps!Next

(* The invariant of the AI steps, in every behaviour of them.              *)
THEOREM AiInvariance == ASSUME AiSteps!AiStepsAssumption PROVE AiSteps!Spec => []AiInv
<1>1. AiSteps!Init => AiInv
  BY AiInit
<1>2. AiInv /\ [AiSteps!Next]_(AiSteps!vars) => AiInv'
  BY AiNext
<1> QED
  BY <1>1, <1>2, PTL DEF AiSteps!Spec

(* The invariant implies what the run of MCParts checks.                   *)
LEMMA AiKept == AiSteps!AiStepsAssumption /\ AiInv => AiSteps!AnswersArePaid
<1> SUFFICES ASSUME AiSteps!AiStepsAssumption, AiInv PROVE AiSteps!AnswersArePaid
  OBVIOUS
<1>1. AiSteps!CostsAreReported
  <2>1. SUFFICES ASSUME DOMAIN batch = {} PROVE billed + astray.unseen = spent + astray.twice
    BY DEF AiSteps!CostsAreReported
  <2>2. Cardinality(Bill(DOMAIN batch)) = 0
    BY <2>1, FS_EmptySet DEF Bill
  <2>3. billed \in Nat /\ spent \in Nat /\ astray \in [unseen : Nat, twice : Nat]
    BY DEF AiInv, AiSteps!TypeOK
  <2> QED
    BY <2>2, <2>3 DEF AiInv, Billed
<1> QED
  BY <1>1 DEF AiInv, AiSteps!AnswersArePaid

(* What is answered is answered once, by what the model said of that        *)
(* record, and what the receipt says was spent is what the model charged,  *)
(* but for what is named (aisteps.go).                                     *)
THEOREM ModelIsPaid ==
  ASSUME AiSteps!AiStepsAssumption PROVE AiSteps!Spec => []AiSteps!AnswersArePaid
<1>1. AiInv => AiSteps!AnswersArePaid
  BY AiKept
<1> QED
  BY <1>1, AiInvariance, PTL

-----------------------------------------------------------------------------
(* Fetch.                                                                  *)

(* What a page keeps is what the lemmas about Picked are about.            *)
LEMMA FetchPicks ==
  ASSUME NEW s, NEW K
  PROVE  Fetch!Picked(s, K) = Picked(s, K)
BY Zenon DEF Fetch!Picked, Picked

\* s has the numbers of E, in their order.
Lists(s, E) ==
  /\ s \in Seq(Nat)
  /\ \A i, j \in 1 .. Len(s) : i < j => s[i] < s[j]
  /\ \A i \in 1 .. Len(s) : s[i] \in E
  /\ \A x \in E : \E i \in 1 .. Len(s) : s[i] = x

Places(list, from, to) == {n \in from + 1 .. to : list[n]}

(* Sequences that agree everywhere.                                        *)
LEMMA SameSeq ==
  ASSUME NEW s \in Seq(Nat), NEW t \in Seq(Nat), Len(s) = Len(t),
         \A k \in 1 .. Len(s) : s[k] = t[k]
  PROVE  s = t
OBVIOUS

(* One sequence behind another.                                            *)
LEMMA Behind ==
  ASSUME NEW s \in Seq(Nat), NEW t \in Seq(Nat)
  PROVE  s \o t \in Seq(Nat) /\ Len(s \o t) = Len(s) + Len(t)
OBVIOUS

(* The beginning of a sequence.                                            *)
LEMMA Front ==
  ASSUME NEW s \in Seq(Nat), NEW l \in 0 .. Len(s)
  PROVE  /\ SubSeq(s, 1, l) \in Seq(Nat) /\ Len(SubSeq(s, 1, l)) = l
         /\ \A k \in 1 .. l : SubSeq(s, 1, l)[k] = s[k]
OBVIOUS

(* A page has the places it reaches.                                       *)
LEMMA FilledIs ==
  ASSUME NEW list, NEW from \in Nat, NEW n \in Nat
  PROVE  Lists(Fetch!Filled(list, from, n), Places(list, from, from + n))
<1> DEFINE s == [k \in 1 .. n |-> from + k]
           K == {k \in 1 .. n : list[from + k]}
<1>1. s \in Seq(Nat) /\ Len(s) = n /\ \A k \in 1 .. n : s[k] = from + k
  OBVIOUS
<1>2. K \subseteq 1 .. n /\ \A k \in 1 .. n : k \in K <=> list[from + k]
  OBVIOUS
<1> HIDE DEF s, K
<1>p. PICK p \in Seq(Nat) : p = Picked(s, K) /\ \E q : PickedAt(s, K, n, p, q)
  BY <1>1, PickedIs
<1>3. PICK at1 : PickedAt(s, K, n, p, at1)
  BY <1>p
<1>4. /\ at1 \in [1..Len(p) -> K \cap 1..n]
      /\ \A i \in 1..Len(p) : p[i] = s[at1[i]]
      /\ \A i, j \in 1..Len(p) : i < j => at1[i] < at1[j]
      /\ \A k \in K \cap 1..n : \E i \in 1..Len(p) : at1[i] = k
  BY <1>3 DEF PickedAt
<1>5. \A i \in 1 .. Len(p) : at1[i] \in 1 .. n /\ at1[i] \in K /\ p[i] = from + at1[i]
  BY <1>1, <1>4
<1>6. \A i, j \in 1 .. Len(p) : i < j => p[i] < p[j]
  BY <1>4, <1>5
<1>7. \A i \in 1 .. Len(p) : p[i] \in Places(list, from, from + n)
  BY SMTT(30), <1>2, <1>5 DEF Places
<1>8. ASSUME NEW x \in Places(list, from, from + n) PROVE \E i \in 1 .. Len(p) : p[i] = x
  <2>1. x - from \in 1 .. n /\ from + (x - from) = x /\ list[x]
    BY DEF Places
  <2>2. x - from \in K
    BY <1>2, <2>1
  <2>3. PICK i \in 1 .. Len(p) : at1[i] = x - from
    BY <1>4, <2>1, <2>2
  <2> QED
    BY <1>5, <2>1, <2>3
<1>9. Fetch!Filled(list, from, n) = p
  BY <1>p, FetchPicks DEF Fetch!Filled, s, K
<1> QED
  BY <1>3, <1>6, <1>7, <1>8, <1>9 DEF Lists

(* Two pages in a row.                                                     *)
LEMMA ListsMore ==
  ASSUME NEW list, NEW a \in Nat, NEW b \in Nat, a <= b, NEW s, NEW t,
         Lists(s, Places(list, 0, a)), Lists(t, Places(list, a, b))
  PROVE  Lists(s \o t, Places(list, 0, b))
<1>1. /\ s \in Seq(Nat) /\ t \in Seq(Nat) /\ s \o t \in Seq(Nat)
      /\ Len(s) \in Nat /\ Len(t) \in Nat /\ Len(s \o t) = Len(s) + Len(t)
  BY DEF Lists
<1>2. \A i \in 1 .. Len(s) : (s \o t)[i] = s[i]
  BY <1>1
<1>3. \A i \in 1 .. Len(t) : (s \o t)[Len(s) + i] = t[i]
  BY <1>1
<1>4. PICK u \in Seq(Nat) : u = s \o t
  BY <1>1
<1>5. \A i \in 1 .. Len(s) : s[i] \in 1 .. a /\ list[s[i]]
  BY DEF Lists, Places
<1>6. \A i \in 1 .. Len(t) : t[i] \in a + 1 .. b /\ list[t[i]]
  BY DEF Lists, Places
<1>7. ASSUME NEW i \in 1 .. Len(u)
      PROVE  \/ i \in 1 .. Len(s) /\ u[i] = s[i]
             \/ i - Len(s) \in 1 .. Len(t) /\ u[i] = t[i - Len(s)]
  <2>1. CASE i <= Len(s)
    BY <1>1, <1>2, <1>4, <2>1
  <2>2. CASE i > Len(s)
    <3>1. i - Len(s) \in 1 .. Len(t) /\ Len(s) + (i - Len(s)) = i
      BY <1>1, <1>4, <2>2
    <3>2. (s \o t)[Len(s) + (i - Len(s))] = t[i - Len(s)]
      BY <1>3, <3>1
    <3> QED
      BY <1>4, <3>1, <3>2
  <2> QED
    BY <1>1, <2>1, <2>2
<1>8. \A i, j \in 1 .. Len(u) : i < j => u[i] < u[j]
  <2> TAKE i, j \in 1 .. Len(u)
  <2> HAVE i < j
  <2>1. CASE j \in 1 .. Len(s) /\ u[j] = s[j]
    <3>1. i \in 1 .. Len(s) /\ u[i] = s[i]
      BY SMTT(30), <1>1, <1>7, <2>1
    <3> QED
      BY <2>1, <3>1 DEF Lists
  <2>2. CASE j - Len(s) \in 1 .. Len(t) /\ u[j] = t[j - Len(s)]
    <3>1. CASE i \in 1 .. Len(s) /\ u[i] = s[i]
      <4>1. s[i] \in 1 .. a /\ t[j - Len(s)] \in a + 1 .. b
        BY <1>5, <1>6, <2>2, <3>1
      <4> QED
        BY SMTT(30), <2>2, <3>1, <4>1
    <3>2. CASE i - Len(s) \in 1 .. Len(t) /\ u[i] = t[i - Len(s)]
      <4>1. i - Len(s) < j - Len(s)
        BY <1>1
      <4> QED
        BY <2>2, <3>2, <4>1 DEF Lists
    <3> QED
      BY <1>7, <3>1, <3>2
  <2> QED
    BY <1>7, <2>1, <2>2
<1>9. \A i \in 1 .. Len(u) : u[i] \in 1 .. b /\ list[u[i]]
  <2> TAKE i \in 1 .. Len(u)
  <2>1. CASE i \in 1 .. Len(s) /\ u[i] = s[i]
    <3>1. s[i] \in 1 .. a /\ list[s[i]]
      BY <1>5, <2>1
    <3> QED
      BY <2>1, <3>1
  <2>2. CASE i - Len(s) \in 1 .. Len(t) /\ u[i] = t[i - Len(s)]
    <3>1. t[i - Len(s)] \in a + 1 .. b /\ list[t[i - Len(s)]]
      BY <1>6, <2>2
    <3> QED
      BY <2>2, <3>1
  <2> QED
    BY <1>7, <2>1, <2>2
<1>10. ASSUME NEW x \in Places(list, 0, b) PROVE \E i \in 1 .. Len(u) : u[i] = x
  <2>1. CASE x <= a
    <3>1. x \in Places(list, 0, a)
      BY <2>1 DEF Places
    <3>2. PICK i \in 1 .. Len(s) : s[i] = x
      BY <3>1 DEF Lists
    <3> QED
      BY <1>1, <1>2, <1>4, <3>2
  <2>2. CASE x > a
    <3>1. x \in Places(list, a, b)
      BY <2>2 DEF Places
    <3>2. PICK i \in 1 .. Len(t) : t[i] = x
      BY <3>1 DEF Lists
    <3>3. Len(s) + i \in 1 .. Len(u) /\ u[Len(s) + i] = x
      BY <1>1, <1>3, <1>4, <3>2
    <3> QED
      BY <3>3
  <2> QED
    BY <2>1, <2>2 DEF Places
<1>11. \A i \in 1 .. Len(u) : u[i] \in Places(list, 0, b)
  BY <1>9 DEF Places
<1>12. Lists(u, Places(list, 0, b))
  BY <1>8, <1>10, <1>11 DEF Lists
<1> QED
  BY <1>4, <1>12

(* What reaches less far is the beginning of what reaches farther.         *)
LEMMA ListsBegin ==
  ASSUME NEW list, NEW a \in Nat, NEW b \in Nat, a <= b, NEW s, NEW t,
         Lists(s, Places(list, 0, a)), Lists(t, Places(list, 0, b))
  PROVE  Fetch!Begins(s, t)
<1>1. s \in Seq(Nat) /\ t \in Seq(Nat) /\ Len(s) \in Nat /\ Len(t) \in Nat
  BY DEF Lists
<1>2. /\ \A i \in 1 .. Len(s) : s[i] \in 1 .. a /\ list[s[i]]
      /\ \A i \in 1 .. Len(t) : t[i] \in 1 .. b /\ list[t[i]]
      /\ \A x \in 1 .. a : list[x] => \E i \in 1 .. Len(s) : s[i] = x
      /\ \A x \in 1 .. b : list[x] => \E i \in 1 .. Len(t) : t[i] = x
  BY DEF Lists, Places
<1>3. /\ \A i, j \in 1 .. Len(s) : i < j => s[i] < s[j]
      /\ \A i, j \in 1 .. Len(t) : i < j => t[i] < t[j]
  BY DEF Lists
<1> DEFINE T == {n \in 1 .. Len(s) : n > Len(t) \/ s[n] # t[n]}
<1>4. SUFFICES ASSUME T # {} PROVE FALSE
  <2>1. \A n \in 1 .. Len(s) : n <= Len(t) /\ s[n] = t[n]
    <3> TAKE n \in 1 .. Len(s)
    <3>1. n \notin T
      BY <1>4
    <3> QED
      BY <1>1, <3>1
  <2>2. Len(s) <= Len(t)
    BY <1>1, <2>1
  <2> QED
    BY <2>1, <2>2 DEF Fetch!Begins
<1>5. PICK n \in T : \A m \in T : ~(m < n)
  <2>1. T \subseteq Nat
    BY <1>1
  <2> QED
    BY <1>4, <2>1, Least
<1>6. \A m \in 1 .. Len(s) : m < n => m <= Len(t) /\ s[m] = t[m]
  BY <1>1, <1>5
<1>7. n \in 1 .. Len(s)
  BY <1>5
<1> HIDE DEF T
<1>8. s[n] \in 1 .. b /\ list[s[n]]
  BY <1>2, <1>7
<1>9. PICK m \in 1 .. Len(t) : t[m] = s[n]
  BY <1>2, <1>8
<1>10. ~(m < n)
  <2>1. ASSUME m < n PROVE FALSE
    <3>1. m \in 1 .. Len(s) /\ s[m] = t[m]
      BY <1>1, <1>6, <1>7, <2>1
    <3>2. s[m] < s[n]
      BY <1>3, <1>7, <2>1, <3>1
    <3> QED
      BY <1>8, <1>9, <3>1, <3>2
  <2> QED
    BY <2>1
<1>11. n \in 1 .. Len(t)
  BY <1>1, <1>7, <1>9, <1>10
<1>12. t[n] \in 1 .. b /\ list[t[n]] /\ s[n] # t[n]
  BY <1>2, <1>5, <1>11 DEF T
<1>13. t[n] < s[n]
  <2>1. n < m
    BY <1>1, <1>7, <1>9, <1>10, <1>12
  <2> QED
    BY <1>3, <1>9, <1>11, <2>1
<1>14. t[n] \in 1 .. a
  BY <1>2, <1>7, <1>12, <1>13
<1>15. PICK k \in 1 .. Len(s) : s[k] = t[n]
  BY <1>2, <1>12, <1>14
<1>16. k < n
  <2>1. ASSUME n < k PROVE FALSE
    <3>1. s[n] < s[k]
      BY <1>3, <1>7, <2>1
    <3> QED
      BY <1>8, <1>12, <1>13, <1>15, <3>1
  <2>2. n # k
    BY <1>12, <1>15
  <2> QED
    BY <1>1, <1>7, <2>1, <2>2
<1>17. k \in 1 .. Len(t) /\ t[k] = t[n] /\ t[k] < t[n]
  BY <1>3, <1>6, <1>11, <1>15, <1>16
<1> QED
  BY <1>12, <1>17

(* What reaches as far is the same.                                        *)
LEMMA ListsAlike ==
  ASSUME NEW list, NEW a \in Nat, NEW s, NEW t,
         Lists(s, Places(list, 0, a)), Lists(t, Places(list, 0, a))
  PROVE  s = t
<1>1. Fetch!Begins(s, t) /\ Fetch!Begins(t, s)
  BY ListsBegin
<1>2. s \in Seq(Nat) /\ t \in Seq(Nat)
  BY DEF Lists
<1>3. Len(s) \in Nat /\ Len(t) \in Nat /\ Len(s) = Len(t) /\ \A k \in 1 .. Len(s) : s[k] = t[k]
  BY <1>1, <1>2 DEF Fetch!Begins
<1> QED
  BY <1>2, <1>3, SameSeq

\* A limit cuts a list short.
CutAt(s, limit) == IF limit = 0 THEN s ELSE SubSeq(s, 1, Fetch!Smaller(limit, Len(s)))

(* A list cut at a limit.                                                  *)
LEMMA CutIs ==
  ASSUME NEW s \in Seq(Nat), NEW limit \in Nat
  PROVE  /\ CutAt(s, limit) \in Seq(Nat)
         /\ Len(CutAt(s, limit)) = IF limit = 0 \/ Len(s) < limit THEN Len(s) ELSE limit
         /\ \A k \in 1 .. Len(CutAt(s, limit)) : k \in 1 .. Len(s) /\ CutAt(s, limit)[k] = s[k]
<1>1. CASE limit = 0
  BY <1>1 DEF CutAt
<1>2. CASE limit # 0
  <2>1. PICK l \in 0 .. Len(s) : /\ l = Fetch!Smaller(limit, Len(s))
                                /\ l = IF Len(s) < limit THEN Len(s) ELSE limit
    BY <1>2 DEF Fetch!Smaller
  <2>2. CutAt(s, limit) = SubSeq(s, 1, l)
    BY <1>2, <2>1 DEF CutAt
  <2>3. /\ SubSeq(s, 1, l) \in Seq(Nat) /\ Len(SubSeq(s, 1, l)) = l
        /\ \A k \in 1 .. l : SubSeq(s, 1, l)[k] = s[k]
    BY <2>1
  <2> QED
    BY <1>2, <2>1, <2>2, <2>3
<1> QED
  BY <1>1, <1>2

(* The beginning of a list, cut as the list is.                            *)
LEMMA CutBegins ==
  ASSUME NEW s \in Seq(Nat), NEW t \in Seq(Nat), NEW limit \in Nat, Fetch!Begins(s, t)
  PROVE  /\ Fetch!Begins(CutAt(s, limit), CutAt(t, limit))
         /\ limit > 0 /\ Len(s) >= limit => CutAt(s, limit) = CutAt(t, limit)
         /\ limit = 0 \/ Len(s) < limit => CutAt(s, limit) = s
<1>1. PICK c \in Seq(Nat) :
        /\ c = CutAt(s, limit) /\ Len(c) = IF limit = 0 \/ Len(s) < limit THEN Len(s) ELSE limit
        /\ \A k \in 1 .. Len(c) : k \in 1 .. Len(s) /\ c[k] = s[k]
  BY CutIs
<1>2. PICK d \in Seq(Nat) :
        /\ d = CutAt(t, limit) /\ Len(d) = IF limit = 0 \/ Len(t) < limit THEN Len(t) ELSE limit
        /\ \A k \in 1 .. Len(d) : k \in 1 .. Len(t) /\ d[k] = t[k]
  BY CutIs
<1>3. Len(s) \in Nat /\ Len(t) \in Nat /\ Len(s) <= Len(t) /\ \A k \in 1 .. Len(s) : s[k] = t[k]
  BY DEF Fetch!Begins
<1>4. Len(c) <= Len(d)
  BY <1>1, <1>2, <1>3
<1>5. \A k \in 1 .. Len(c) : c[k] = d[k]
  <2> TAKE k \in 1 .. Len(c)
  <2>1. k \in 1 .. Len(s) /\ c[k] = s[k] /\ s[k] = t[k]
    BY <1>1, <1>3
  <2>2. k \in 1 .. Len(d)
    BY <1>1, <1>2, <1>4
  <2>3. d[k] = t[k]
    BY <1>2, <2>2
  <2> QED
    BY <2>1, <2>3
<1>6. limit > 0 /\ Len(s) >= limit => c = d
  <2>1. limit > 0 /\ Len(s) >= limit => Len(c) = Len(d)
    BY SMTT(30), <1>1, <1>2, <1>3
  <2> QED
    BY <1>5, <2>1, SameSeq
<1>7. limit = 0 \/ Len(s) < limit => c = s
  <2>1. limit = 0 \/ Len(s) < limit => Len(c) = Len(s)
    BY <1>1
  <2>2. \A k \in 1 .. Len(c) : c[k] = s[k]
    BY <1>1
  <2> QED
    BY <2>1, <2>2, SameSeq
<1> QED
  BY <1>1, <1>2, <1>4, <1>5, <1>6, <1>7 DEF Fetch!Begins

(* What is added to a list below its limit, cut at the limit.              *)
LEMMA CutAdds ==
  ASSUME NEW s \in Seq(Nat), NEW t \in Seq(Nat), NEW limit \in Nat \ {0}, Len(s) < limit
  PROVE  s \o SubSeq(t, 1, Fetch!Smaller(limit - Len(s), Len(t))) = CutAt(s \o t, limit)
<1>1. PICK l \in 0 .. Len(t) : /\ l = Fetch!Smaller(limit - Len(s), Len(t))
                               /\ l = IF limit - Len(s) < Len(t) THEN limit - Len(s) ELSE Len(t)
  BY DEF Fetch!Smaller
<1>2. PICK u \in Seq(Nat) : /\ u = SubSeq(t, 1, l) /\ Len(u) = l
                            /\ \A k \in 1 .. l : u[k] = t[k]
  <2>1. l \in 0 .. Len(t)
    BY <1>1
  <2>2. /\ SubSeq(t, 1, l) \in Seq(Nat) /\ Len(SubSeq(t, 1, l)) = l
        /\ \A k \in 1 .. l : SubSeq(t, 1, l)[k] = t[k]
    BY <2>1, Front
  <2> QED
    BY Zenon, <2>2
<1>3. PICK v \in Seq(Nat) : v = s \o u /\ Len(v) = Len(s) + l
  <2>1. u \in Seq(Nat) /\ Len(u) = l
    BY <1>2
  <2>2. s \o u \in Seq(Nat) /\ Len(s \o u) = Len(s) + Len(u)
    BY <2>1, Behind
  <2> QED
    BY <2>1, <2>2
<1>4. /\ \A k \in 1 .. Len(s) : v[k] = s[k]
      /\ \A k \in 1 .. Len(v) : k > Len(s) => v[k] = u[k - Len(s)]
  BY <1>2, <1>3
<1>5. PICK w \in Seq(Nat) : w = s \o t /\ Len(w) = Len(s) + Len(t)
  <2>1. s \o t \in Seq(Nat) /\ Len(s \o t) = Len(s) + Len(t)
    OBVIOUS
  <2> QED
    BY <2>1
<1>6. /\ \A k \in 1 .. Len(s) : w[k] = s[k]
      /\ \A k \in 1 .. Len(w) : k > Len(s) => w[k] = t[k - Len(s)]
  BY <1>5
<1>7. PICK c \in Seq(Nat) :
        /\ c = CutAt(w, limit) /\ Len(c) = IF limit = 0 \/ Len(w) < limit THEN Len(w) ELSE limit
        /\ \A k \in 1 .. Len(c) : k \in 1 .. Len(w) /\ c[k] = w[k]
  BY CutIs
<1>8. Len(c) = Len(v)
  BY <1>1, <1>3, <1>5, <1>7
<1>9. \A k \in 1 .. Len(v) : v[k] = c[k]
  <2> TAKE k \in 1 .. Len(v)
  <2>1. c[k] = w[k] /\ k \in 1 .. Len(w)
    BY <1>7, <1>8
  <2>2. CASE k <= Len(s)
    BY <1>4, <1>6, <2>1, <2>2
  <2>3. CASE k > Len(s)
    <3>1. k - Len(s) \in 1 .. l
      BY <1>3, <2>3
    <3> QED
      BY <1>2, <1>4, <1>6, <2>1, <2>3, <3>1
  <2> QED
    BY <2>2, <2>3
<1>10. c = v
  BY <1>7, <1>8, <1>9, SameSeq
<1> QED
  BY <1>1, <1>2, <1>3, <1>5, <1>7, <1>10

\* Where the page that is asked for starts, ends, and how far pages go.
PageStart == Fetch!Smaller((page.num - 1) * Fetch!Size, Len(Fetch!Listed))
PageEnd   == IF bind.strategy = "none" THEN Len(Fetch!Listed)
             ELSE Fetch!Smaller(page.num * Fetch!Size, Len(Fetch!Listed))
ReachOf(i)  == IF bind.strategy # "none" /\ bind.max > 0
                 THEN Fetch!Smaller(bind.max * Fetch!Size, Len(Listings[i])) ELSE Len(Listings[i])

Underway == /\ fphase = "new" => record = 0
            /\ fphase = "calling" => record \in given

\* A page is asked for behind exactly what was brought in.
PageAt == fphase = "calling" /\ Fetch!Pages =>
  /\ page.num >= 1 /\ served[record] = page.num - 1 /\ fsaid[record] = <<>>
  /\ Lists(emitted[record], Places(Fetch!Listed, 0, PageStart))
  /\ bind.strategy = "none" => page.num = 1
  /\ bind.strategy = "offset" => page.offset = PageStart
  /\ bind.strategy = "cursor" => page.cursor = PageStart
  /\ bind.max > 0 => page.num <= bind.max
  /\ bind.limit > 0 => Len(emitted[record]) < bind.limit

\* What was brought in is the beginning of what is wanted, and all of it at the end.
PagesSoFar == Fetch!Pages => \A i \in Fetch!Records :
  /\ Fetch!Begins(emitted[i], Fetch!Wanted(i))
  /\ i > record => emitted[i] = <<>> /\ served[i] = 0 /\ fsaid[i] = <<>>
  /\ Fetch!Over(i) /\ fsaid[i] = <<>> => /\ emitted[i] = Fetch!Wanted(i)
                                        /\ charged[i] = Len(Fetch!Wanted(i))

\* A record is spoken of once; who was acknowledged is not given again.
OneWord == ~Fetch!Pages => \A i \in Fetch!Records :
  /\ Fetch!Over(i) => Len(fsaid[i]) = 1
  /\ i \in given /\ (i > record \/ (i = record /\ fphase = "calling")) => fsaid[i] = <<>>
  /\ i \notin given => fsaid[i] = <<"RECORD">>
  /\ copies[i] <= unsure[i] + IF fsaid[i] = <<"RECORD">> THEN 1 ELSE 0
  /\ Fetch!Delivers /\ fsaid[i] = <<"RECORD">> => copies[i] > 0

FetchInv == Fetch!TypeOK /\ Underway /\ PageAt /\ PagesSoFar /\ OneWord

(* What the assumption says of a binding and of the records.               *)
LEMMA FetchFacts ==
  ASSUME Fetch!FetchAssumption, bind \in Bindings
  PROVE  /\ Fetch!Size \in Nat /\ Fetch!Size > 0 /\ (bind.size > 0 => Fetch!Size = bind.size)
         /\ bind.role \in Fetch!Roles /\ bind.strategy \in {"none", "page", "offset", "cursor"}
         /\ bind.max \in Nat /\ bind.limit \in Nat /\ bind.size \in Nat
         /\ bind.attempts \in Nat /\ bind.attempts > 0
         /\ Fetch!Records \subseteq Nat \ {0} /\ 1 \in Fetch!Records /\ FetchSessions \in Nat \ {0}
         /\ \A i \in Fetch!Records : Listings[i] \in Seq(BOOLEAN) /\ Len(Listings[i]) \in Nat
<1>1. Fetch!IsBinding(bind) /\ PageDefault \in Nat \ {0} /\ FetchSessions \in Nat \ {0}
  BY DEF Fetch!FetchAssumption
<1>2. /\ bind.role \in Fetch!Roles /\ bind.strategy \in {"none", "page", "offset", "cursor"}
      /\ bind.max \in Nat /\ bind.limit \in Nat /\ bind.size \in Nat
      /\ bind.attempts \in Nat /\ bind.attempts > 0
  BY <1>1 DEF Fetch!IsBinding
<1>3. Fetch!Size \in Nat /\ Fetch!Size > 0 /\ (bind.size > 0 => Fetch!Size = bind.size)
  BY <1>1, <1>2 DEF Fetch!Size
<1>4. Listings \in Seq(Seq(BOOLEAN)) /\ Listings # <<>> /\ Fetch!Records = 1 .. Len(Listings)
  BY DEF Fetch!FetchAssumption, Fetch!Records
<1>5. Fetch!Records \subseteq Nat \ {0} /\ 1 \in Fetch!Records
  <2>1. Len(Listings) \in Nat /\ Len(Listings) # 0
    BY <1>4
  <2> QED
    BY <1>4, <2>1
<1>6. \A i \in Fetch!Records : Listings[i] \in Seq(BOOLEAN)
  BY <1>4
<1>7. \A i \in Fetch!Records : Len(Listings[i]) \in Nat
  BY <1>6
<1> QED
  BY <1>1, <1>2, <1>3, <1>5, <1>6, <1>7

(* A page more is its size more.                                           *)
LEMMA Products ==
  ASSUME NEW S \in Nat, NEW m \in Nat, NEW n \in Nat, m <= n
  PROVE  m * S \in Nat /\ n * S \in Nat /\ m * S <= n * S /\ (m + 1) * S = m * S + S
<1>1. PICK d \in Nat : n = m + d
  <2>1. n - m \in Nat /\ n = m + (n - m)
    OBVIOUS
  <2> QED
    BY <2>1
<1>2. d * S \in Nat /\ m * S \in Nat /\ (m + d) * S = m * S + d * S
  OBVIOUS
<1>3. (m + 1) * S = m * S + S
  OBVIOUS
<1> QED
  BY <1>1, <1>2, <1>3

(* What is wanted is cut out of all that the pages reach.                  *)
LEMMA WantedIs ==
  ASSUME Fetch!FetchAssumption, bind \in Bindings, NEW i \in Fetch!Records
  PROVE  /\ ReachOf(i) \in Nat /\ ReachOf(i) <= Len(Listings[i])
         /\ \E full : /\ Lists(full, Places(Listings[i], 0, ReachOf(i)))
                      /\ Fetch!Wanted(i) = CutAt(full, bind.limit)
<1>1. ReachOf(i) \in Nat /\ ReachOf(i) <= Len(Listings[i])
  <2>1. bind.max * Fetch!Size \in Nat /\ Len(Listings[i]) \in Nat
    BY FetchFacts, Products
  <2> QED
    BY <2>1 DEF ReachOf, Fetch!Smaller
<1>2. Lists(Fetch!Filled(Listings[i], 0, ReachOf(i)), Places(Listings[i], 0, 0 + ReachOf(i)))
  BY <1>1, FilledIs
<1>3. 0 + ReachOf(i) = ReachOf(i)
  BY <1>1
<1>4. Fetch!Wanted(i) = CutAt(Fetch!Filled(Listings[i], 0, ReachOf(i)), bind.limit)
  BY DEF Fetch!Wanted, CutAt, ReachOf
<1> QED
  BY <1>1, <1>2, <1>3, <1>4

(* The page at hand, in the positions of the list.                         *)
LEMMA PageIs ==
  ASSUME Fetch!FetchAssumption, bind \in Bindings, page \in [num : Nat, offset : Nat, cursor : Nat],
         record \in Fetch!Records, fphase = "calling", Fetch!Pages, PageAt
  PROVE  /\ PageStart \in Nat /\ PageEnd \in Nat
         /\ PageStart <= PageEnd /\ PageEnd <= Len(Fetch!Listed)
         /\ Fetch!Got \in Nat /\ Fetch!Got = PageEnd - PageStart
         /\ Lists(Fetch!Fresh, Places(Fetch!Listed, PageStart, PageEnd))
         /\ PageEnd <= ReachOf(record)
         /\ Fetch!Terminated => PageEnd = ReachOf(record)
         /\ ~Fetch!Terminated => Fetch!Until = PageEnd /\ bind.strategy # "none"
<1> DEFINE S == Fetch!Size
           L == Len(Fetch!Listed)
<1>1. PICK m \in Nat : page.num = m + 1
  <2>1. page.num \in Nat /\ page.num >= 1
    BY DEF PageAt
  <2>2. page.num - 1 \in Nat /\ page.num = (page.num - 1) + 1
    BY <2>1
  <2> QED
    BY <2>2
<1>2. PICK a \in Nat : a = m * S /\ page.num * S = a + S /\ (page.num - 1) * S = a
  <2>1. S \in Nat
    BY FetchFacts
  <2>2. m * S \in Nat /\ (m + 1) * S = m * S + S
    BY <2>1, Products
  <2>3. page.num - 1 = m
    BY <1>1
  <2> QED
    BY <1>1, <2>2, <2>3
<1>3. S \in Nat /\ S > 0 /\ L \in Nat
  BY FetchFacts DEF Fetch!Listed
<1>4. /\ PageStart = Fetch!Smaller(a, L)
      /\ PageEnd = IF bind.strategy = "none" THEN L ELSE Fetch!Smaller(a + S, L)
  BY <1>2 DEF PageStart, PageEnd
<1>5. bind.strategy = "none" => m = 0 /\ a = 0
  <2>1. bind.strategy = "none" => m = 0
    BY <1>1 DEF PageAt
  <2> QED
    BY <1>2, <1>3, <2>1
<1>6. /\ bind.strategy = "page" => Fetch!From = a
      /\ bind.strategy \in {"offset", "cursor"} => Fetch!From = Fetch!Smaller(a, L)
      /\ bind.strategy = "none" => Fetch!From = 0
  BY <1>2, <1>4 DEF Fetch!From, PageAt
<1>7. Fetch!Until = IF bind.strategy = "none" THEN L ELSE Fetch!Smaller(Fetch!From + S, L)
  BY DEF Fetch!Until
<1>8. Fetch!Got = IF Fetch!Until > Fetch!From THEN Fetch!Until - Fetch!From ELSE 0
  BY DEF Fetch!Got
<1>9. bind.strategy \in {"none", "page", "offset", "cursor"}
  BY FetchFacts
<1> HIDE DEF S, L
<1>10. Fetch!From \in Nat /\ Fetch!Until \in Nat
  BY <1>3, <1>6, <1>7, <1>9 DEF Fetch!Smaller
<1>11. /\ PageStart \in Nat /\ PageEnd \in Nat /\ PageStart <= PageEnd /\ PageEnd <= L
       /\ Fetch!Got \in Nat /\ Fetch!Got = PageEnd - PageStart
       /\ Fetch!Got > 0 => Fetch!From = PageStart
       /\ Fetch!Got = 0 => PageEnd = L
       /\ Fetch!Got < S => PageEnd = L
       /\ Fetch!Got > 0 => Fetch!Until = PageEnd
  <2>1. CASE bind.strategy = "none"
    BY <1>3, <1>4, <1>5, <1>6, <1>7, <1>8, <2>1 DEF Fetch!Smaller
  <2>2. CASE bind.strategy # "none" /\ Fetch!From = a
    BY <1>3, <1>4, <1>7, <1>8, <2>2 DEF Fetch!Smaller
  <2>3. CASE bind.strategy # "none" /\ Fetch!From = Fetch!Smaller(a, L)
    BY <1>3, <1>4, <1>7, <1>8, <2>3 DEF Fetch!Smaller
  <2> QED
    BY <1>6, <1>9, <2>1, <2>2, <2>3
<1>12. Lists(Fetch!Fresh, Places(Fetch!Listed, PageStart, PageEnd))
  <2>1. Lists(Fetch!Fresh, Places(Fetch!Listed, Fetch!From, Fetch!From + Fetch!Got))
    BY <1>10, <1>11, FilledIs DEF Fetch!Fresh
  <2>2. CASE Fetch!Got > 0
    <3>1. Fetch!From = PageStart /\ Fetch!From + Fetch!Got = PageEnd
      BY <1>11, <2>2
    <3> QED
      BY <2>1, <3>1
  <2>3. CASE Fetch!Got = 0
    <3>1. /\ Places(Fetch!Listed, Fetch!From, Fetch!From + Fetch!Got) = {}
          /\ Places(Fetch!Listed, PageStart, PageEnd) = {}
      BY <1>10, <1>11, <2>3 DEF Places
    <3> QED
      BY <2>1, <3>1
  <2> QED
    BY <1>11, <2>2, <2>3
<1>13. PICK r \in Nat : /\ r = ReachOf(record) /\ r <= L
                        /\ bind.strategy # "none" /\ bind.max > 0
                             => r = Fetch!Smaller(bind.max * S, L)
                        /\ bind.strategy = "none" \/ bind.max = 0 => r = L
  <2>1. ReachOf(record) \in Nat /\ ReachOf(record) <= L /\ bind.max \in Nat
    BY WantedIs, FetchFacts DEF L, Fetch!Listed
  <2> QED
    BY <2>1 DEF ReachOf, L, S, Fetch!Listed
<1>14. bind.max > 0 => a + S <= bind.max * S /\ bind.max * S \in Nat
  <2>1. CASE bind.max > 0
    <3>1. page.num \in Nat /\ bind.max \in Nat /\ page.num <= bind.max
      BY <2>1, FetchFacts DEF PageAt
    <3>2. page.num * S <= bind.max * S /\ bind.max * S \in Nat
      BY <1>3, <3>1, Products
    <3> QED
      BY <1>2, <3>2
  <2> QED
    BY <2>1
<1>15. bind.max \in Nat
  BY FetchFacts
<1>16. PageEnd <= r
  <2>1. CASE bind.strategy # "none" /\ bind.max > 0
    BY <1>3, <1>4, <1>13, <1>14, <2>1 DEF Fetch!Smaller
  <2>2. CASE bind.strategy = "none" \/ bind.max = 0
    BY <1>11, <1>13, <2>2
  <2> QED
    BY <1>15, <2>1, <2>2
<1>17. PageEnd = L => PageEnd = r
  BY <1>3, <1>11, <1>13, <1>16
<1>18. ASSUME Fetch!Terminated PROVE PageEnd = r
  <2>1. CASE bind.strategy = "none"
    BY <1>4, <1>17, <2>1
  <2>2. CASE Fetch!Got = 0
    BY <1>11, <1>17, <2>2
  <2>3. CASE bind.strategy # "none" /\ bind.max > 0 /\ served[record] + 1 >= bind.max
    <3>1. bind.max = page.num
      BY <1>1, <1>15, <2>3 DEF PageAt
    <3> QED
      BY <1>2, <1>4, <1>13, <2>3, <3>1
  <2>4. CASE bind.strategy # "none" /\ page.num * Fetch!Size >= Len(Fetch!Listed)
    <3>1. a + S >= L
      BY <1>2, <2>4 DEF S, L
    <3>2. PageEnd = L
      BY <1>3, <1>4, <2>4, <3>1 DEF Fetch!Smaller
    <3> QED
      BY <1>17, <3>2
  <2>5. CASE bind.size > 0 /\ Fetch!Got < bind.size
    <3>1. Fetch!Got < S
      BY <2>5, FetchFacts DEF S
    <3> QED
      BY <1>11, <1>17, <3>1
  <2>6. CASE Fetch!Got > 0 /\ Fetch!Until = Len(Fetch!Listed)
    BY <1>11, <1>17, <2>6 DEF L
  <2> QED
    BY <1>11, <1>18, <2>1, <2>2, <2>3, <2>4, <2>5, <2>6 DEF Fetch!Terminated
<1>19. ~Fetch!Terminated => Fetch!Got > 0 /\ bind.strategy # "none"
  BY <1>11 DEF Fetch!Terminated
<1> QED
  BY <1>11, <1>12, <1>13, <1>16, <1>18, <1>19 DEF L

(* What a page adds.                                                       *)
LEMMA PageDoes ==
  ASSUME Fetch!FetchAssumption, Fetch!TypeOK, record \in Fetch!Records, fphase = "calling",
         Fetch!Pages, PageAt
  PROVE  /\ emitted[record] \o Fetch!Taken \in Seq(Nat)
         /\ Fetch!Begins(emitted[record] \o Fetch!Taken, Fetch!Wanted(record))
         /\ Fetch!Full \/ Fetch!Terminated => emitted[record] \o Fetch!Taken = Fetch!Wanted(record)
         /\ ~Fetch!Full => Lists(emitted[record] \o Fetch!Taken, Places(Fetch!Listed, 0, PageEnd))
         /\ ~Fetch!Full /\ bind.limit > 0 => Len(emitted[record] \o Fetch!Taken) < bind.limit
<1>1. /\ bind \in Bindings /\ page \in [num : Nat, offset : Nat, cursor : Nat]
      /\ bind.limit \in Nat
  BY FetchFacts DEF Fetch!TypeOK
<1>2. /\ PageStart \in Nat /\ PageEnd \in Nat /\ PageStart <= PageEnd
      /\ Lists(Fetch!Fresh, Places(Fetch!Listed, PageStart, PageEnd))
      /\ PageEnd <= ReachOf(record) /\ (Fetch!Terminated => PageEnd = ReachOf(record))
  BY <1>1, PageIs
<1>3. PICK full : /\ Lists(full, Places(Fetch!Listed, 0, ReachOf(record)))
                  /\ Fetch!Wanted(record) = CutAt(full, bind.limit)
  BY <1>1, WantedIs DEF Fetch!Listed
<1>4. PICK e \in Seq(Nat) : /\ e = emitted[record] /\ Lists(e, Places(Fetch!Listed, 0, PageStart))
                            /\ bind.limit > 0 => Len(e) < bind.limit
  BY DEF PageAt, Lists
<1>5. PICK f \in Seq(Nat) : f = Fetch!Fresh /\ Lists(f, Places(Fetch!Listed, PageStart, PageEnd))
  BY <1>2 DEF Lists
<1>6. PICK all \in Seq(Nat) : all = e \o f /\ Len(all) = Len(e) + Len(f)
  <2>1. e \o f \in Seq(Nat) /\ Len(e \o f) = Len(e) + Len(f)
    BY Behind
  <2> QED
    BY Zenon, <2>1
<1>7. Lists(all, Places(Fetch!Listed, 0, PageEnd))
  BY <1>2, <1>4, <1>5, <1>6, ListsMore
<1>8. full \in Seq(Nat) /\ ReachOf(record) \in Nat
  BY <1>1, <1>3, WantedIs DEF Lists
<1>9. Fetch!Begins(all, full)
  BY <1>2, <1>3, <1>7, <1>8, ListsBegin
<1>10. emitted[record] \o Fetch!Taken = CutAt(all, bind.limit)
  <2>1. CASE bind.limit = 0
    BY <1>4, <1>5, <1>6, <2>1 DEF Fetch!Taken, CutAt
  <2>2. CASE bind.limit \in Nat \ {0}
    <3>1. PICK lim \in Nat \ {0} : lim = bind.limit /\ Len(e) < lim
      BY <1>4, <2>2
    <3>2. Fetch!Taken = SubSeq(f, 1, Fetch!Smaller(lim - Len(e), Len(f)))
      BY <1>4, <1>5, <3>1 DEF Fetch!Taken
    <3>3. e \o SubSeq(f, 1, Fetch!Smaller(lim - Len(e), Len(f))) = CutAt(e \o f, lim)
      BY <3>1, CutAdds
    <3> QED
      BY <1>4, <1>6, <3>1, <3>2, <3>3
  <2> QED
    BY <1>1, <2>1, <2>2
<1>11. PICK c \in Seq(Nat) :
         /\ c = CutAt(all, bind.limit)
         /\ Len(c) = IF bind.limit = 0 \/ Len(all) < bind.limit THEN Len(all) ELSE bind.limit
  BY <1>1, CutIs
<1>12. Fetch!Begins(c, Fetch!Wanted(record))
  BY <1>1, <1>3, <1>8, <1>9, <1>11, CutBegins
<1>13. Fetch!Full <=> bind.limit > 0 /\ Len(all) >= bind.limit
  <2>1. Fetch!Taken \in Seq(Nat)
    <3>1. CASE bind.limit = 0
      BY <1>5, <3>1 DEF Fetch!Taken
    <3>2. CASE bind.limit \in Nat \ {0}
      <4>0. bind.limit - Len(e) \in Nat /\ Len(f) \in Nat
        BY <1>4, <3>2
      <4>1. PICK l \in 0 .. Len(f) : l = Fetch!Smaller(bind.limit - Len(e), Len(f))
        <5>1. PICK d \in Nat : d = bind.limit - Len(e)
          BY <4>0
        <5>2. Fetch!Smaller(d, Len(f)) \in 0 .. Len(f)
          BY <4>0 DEF Fetch!Smaller
        <5> QED
          BY <5>1, <5>2
      <4>2. Fetch!Taken = SubSeq(f, 1, l)
        BY <1>4, <1>5, <3>2, <4>1 DEF Fetch!Taken
      <4> QED
        BY <4>1, <4>2, Front
    <3> QED
      BY <1>1, <3>1, <3>2
  <2>2. Len(emitted[record] \o Fetch!Taken) = Len(emitted[record]) + Len(Fetch!Taken)
    BY <1>4, <2>1, Behind
  <2>3. Len(emitted[record]) + Len(Fetch!Taken) = Len(c)
    BY <1>10, <1>11, <2>2
  <2> QED
    BY <1>1, <1>11, <2>3 DEF Fetch!Full
<1>14. Fetch!Full => c = Fetch!Wanted(record)
  BY <1>1, <1>3, <1>8, <1>9, <1>11, <1>13, CutBegins
<1>15. ~Fetch!Full => c = all /\ (bind.limit > 0 => Len(c) < bind.limit)
  BY SMTT(30), <1>1, <1>8, <1>9, <1>11, <1>13, CutBegins
<1>16. ~Fetch!Full /\ Fetch!Terminated => c = Fetch!Wanted(record)
  <2> SUFFICES ASSUME ~Fetch!Full, Fetch!Terminated PROVE c = Fetch!Wanted(record)
    OBVIOUS
  <2>1. all = full
    BY <1>2, <1>3, <1>7, <1>8, ListsAlike
  <2> QED
    BY <1>3, <1>11, <2>1
<1> QED
  BY <1>7, <1>10, <1>11, <1>12, <1>14, <1>15, <1>16

(* The binding stays, and what is wanted of it.                            *)
LEMMA BindingStays ==
  ASSUME bind' = bind
  PROVE  /\ Fetch!Pages' = Fetch!Pages /\ Fetch!Delivers' = Fetch!Delivers
         /\ Fetch!Size' = Fetch!Size
         /\ \A i : Fetch!Wanted(i)' = Fetch!Wanted(i)
<1>1. Fetch!Size' = Fetch!Size
  BY DEF Fetch!Size
<1>2. Fetch!Pages' = Fetch!Pages /\ Fetch!Delivers' = Fetch!Delivers
  BY DEF Fetch!Pages, Fetch!Delivers
<1>3. ASSUME NEW i PROVE Fetch!Wanted(i)' = Fetch!Wanted(i)
  BY <1>1 DEF Fetch!Wanted
<1> QED
  BY <1>1, <1>2, <1>3

(* Nothing is given yet.                                                   *)
LEMMA FetchInit == ASSUME Fetch!FetchAssumption, Fetch!Init PROVE FetchInv
<1>1. bind \in Bindings
  BY DEF Fetch!Init
<1>2. Fetch!TypeOK
  <2>1. given \subseteq Fetch!Records
    BY <1>1, FetchFacts DEF Fetch!Init
  <2>2. /\ fphase = "new" /\ record = 0 /\ page \in [num : Nat, offset : Nat, cursor : Nat]
        /\ class = "none" /\ opened \in 1 .. FetchSessions /\ tries \in 0 .. bind.attempts
    BY <1>1, FetchFacts DEF Fetch!Init, Fetch!FirstPage
  <2>3. emitted \in [Fetch!Records -> Seq(Nat)]
    BY DEF Fetch!Init
  <2>4. \A counter \in {served, charged, copies, unsure} : counter \in [Fetch!Records -> Nat]
    BY DEF Fetch!Init
  <2>5. fsaid \in [Fetch!Records -> Seq({"RECORD", "ERROR", "LOG"})]
    BY DEF Fetch!Init
  <2> QED
    BY <1>1, <2>1, <2>2, <2>3, <2>4, <2>5 DEF Fetch!TypeOK
<1>3. Underway /\ PageAt
  BY DEF Fetch!Init, Underway, PageAt
<1>4. PagesSoFar
  <2> SUFFICES ASSUME NEW i \in Fetch!Records
               PROVE  /\ Fetch!Begins(emitted[i], Fetch!Wanted(i))
                      /\ emitted[i] = <<>> /\ served[i] = 0 /\ fsaid[i] = <<>>
                      /\ ~Fetch!Over(i)
    BY DEF PagesSoFar
  <2>1. emitted[i] = <<>> /\ served[i] = 0 /\ fsaid[i] = <<>>
    BY DEF Fetch!Init
  <2>2. PICK full : /\ Lists(full, Places(Listings[i], 0, ReachOf(i)))
                    /\ Fetch!Wanted(i) = CutAt(full, bind.limit)
    BY <1>1, WantedIs
  <2>3. Fetch!Wanted(i) \in Seq(Nat)
    BY <1>1, <2>2, CutIs, FetchFacts DEF Lists
  <2>4. Fetch!Begins(<<>>, Fetch!Wanted(i))
    BY <2>3 DEF Fetch!Begins
  <2>5. ~Fetch!Over(i)
    BY <1>1, FetchFacts DEF Fetch!Init, Fetch!Over
  <2> QED
    BY <2>1, <2>4, <2>5
<1>5. OneWord
  <2> SUFFICES ASSUME ~Fetch!Pages, NEW i \in Fetch!Records
               PROVE  /\ ~Fetch!Over(i) /\ fsaid[i] = <<>> /\ i \in given
                      /\ copies[i] = 0 /\ unsure[i] = 0
    <3>1. <<>> # <<"RECORD">>
      OBVIOUS
    <3> QED
      BY <3>1 DEF OneWord
  <2>1. ~Fetch!Over(i)
    BY <1>1, FetchFacts DEF Fetch!Init, Fetch!Over
  <2>2. given = Fetch!Records
    BY DEF Fetch!Init, Fetch!Pages
  <2> QED
    BY <2>1, <2>2 DEF Fetch!Init
<1> QED
  BY <1>2, <1>3, <1>4, <1>5 DEF FetchInv


(* A session opens, has no credential, is cancelled or closes.             *)
LEMMA FetchQuiet ==
  ASSUME Fetch!FetchAssumption, FetchInv, Fetch!Open \/ Fetch!Close \/ Fetch!Cancel
  PROVE  FetchInv'
<1>1. /\ UNCHANGED <<bind, given, record, tries, page, emitted, served, charged, fsaid, opened,
                     copies, unsure>>
      /\ fphase' \in {"reading", "ended", "died"}
      /\ fphase' # "died" => fphase \in {"new", "reading"}
      /\ class' \in {class, "auth", "none"}
  BY DEF Fetch!Open, Fetch!Close, Fetch!Cancel
<1>2. bind \in Bindings /\ record \in Fetch!Records \cup {0} /\ (fphase = "new" => record = 0)
  BY DEF FetchInv, Fetch!TypeOK, Underway
<1>3. Fetch!TypeOK'
  BY <1>1 DEF FetchInv, Fetch!TypeOK, Fetch!Classes
<1>4. Underway' /\ PageAt'
  BY <1>1 DEF Underway, PageAt
<1>5. ASSUME NEW i \in Fetch!Records PROVE Fetch!Over(i)' => Fetch!Over(i)
  <2>1. i # 0
    BY <1>2, FetchFacts
  <2> QED
    BY <1>1, <1>2, <2>1 DEF Fetch!Over
<1>6. /\ Fetch!Pages' = Fetch!Pages /\ Fetch!Delivers' = Fetch!Delivers
      /\ \A i : Fetch!Wanted(i)' = Fetch!Wanted(i)
  BY <1>1, BindingStays
<1>7. PagesSoFar'
  <2> SUFFICES ASSUME Fetch!Pages, NEW i \in Fetch!Records
               PROVE  /\ Fetch!Begins(emitted[i], Fetch!Wanted(i))
                      /\ i > record => emitted[i] = <<>> /\ served[i] = 0 /\ fsaid[i] = <<>>
                      /\ Fetch!Over(i)' /\ fsaid[i] = <<>> =>
                           emitted[i] = Fetch!Wanted(i) /\ charged[i] = Len(Fetch!Wanted(i))
    BY <1>1, <1>6 DEF PagesSoFar
  <2> QED
    BY <1>5 DEF FetchInv, PagesSoFar
<1>8. OneWord'
  <2> SUFFICES ASSUME ~Fetch!Pages, NEW i \in Fetch!Records
               PROVE  /\ Fetch!Over(i)' => Len(fsaid[i]) = 1
                      /\ i \in given /\ i > record => fsaid[i] = <<>>
                      /\ i \notin given => fsaid[i] = <<"RECORD">>
                      /\ copies[i] <= unsure[i] + IF fsaid[i] = <<"RECORD">> THEN 1 ELSE 0
                      /\ Fetch!Delivers /\ fsaid[i] = <<"RECORD">> => copies[i] > 0
    BY <1>1, <1>6 DEF OneWord
  <2>1. /\ Fetch!Over(i) => Len(fsaid[i]) = 1
        /\ i \in given /\ i > record => fsaid[i] = <<>>
        /\ i \notin given => fsaid[i] = <<"RECORD">>
        /\ copies[i] <= unsure[i] + IF fsaid[i] = <<"RECORD">> THEN 1 ELSE 0
        /\ Fetch!Delivers /\ fsaid[i] = <<"RECORD">> => copies[i] > 0
    BY Zenon DEF FetchInv, OneWord
  <2> QED
    BY <1>5, <2>1
<1> QED
  BY <1>3, <1>4, <1>7, <1>8 DEF FetchInv

(* The first of some numbers.                                              *)
LEMMA FirstOf ==
  ASSUME NEW S \in SUBSET Nat, S # {}
  PROVE  Fetch!First(S) \in S /\ \A j \in S : Fetch!First(S) <= j
<1>1. PICK i \in S : \A j \in S : ~(j < i)
  BY Least
<1>2. \A j \in S : i <= j
  BY <1>1
<1>3. \E k \in S : \A j \in S : k <= j
  BY <1>2
<1> QED
  BY Zenon, <1>3 DEF Fetch!First

(* The next record, none of which is passed over.                          *)
LEMMA FetchReads == ASSUME Fetch!FetchAssumption, FetchInv, Fetch!Read PROVE FetchInv'
<1>1. /\ UNCHANGED <<bind, given, emitted, served, charged, fsaid, class, opened, copies, unsure>>
      /\ fphase = "reading" /\ fphase' = "calling" /\ tries' = 0 /\ page' = Fetch!FirstPage
      /\ Fetch!Left # {} /\ record' = Fetch!First(Fetch!Left)
  BY DEF Fetch!Read
<1>2. /\ bind \in Bindings /\ record \in Fetch!Records \cup {0}
      /\ Fetch!Records \subseteq Nat \ {0} /\ given \subseteq Fetch!Records
  BY FetchFacts DEF FetchInv, Fetch!TypeOK
<1>3. Fetch!Left \in SUBSET Nat
  BY <1>2 DEF Fetch!Left
<1>4. PICK m \in Fetch!Left : record' = m /\ \A j \in Fetch!Left : m <= j
  BY <1>1, <1>3, FirstOf
<1>5. m \in given /\ m \in Fetch!Records /\ m > record /\ m \in Nat /\ record \in Nat
  BY <1>2, <1>4 DEF Fetch!Left
<1>6. /\ Fetch!Pages' = Fetch!Pages /\ Fetch!Delivers' = Fetch!Delivers
      /\ Fetch!Size' = Fetch!Size
      /\ \A i : Fetch!Wanted(i)' = Fetch!Wanted(i)
  BY <1>1, BindingStays
<1>7. Fetch!TypeOK'
  <2>1. /\ page' \in [num : Nat, offset : Nat, cursor : Nat]
        /\ tries' \in 0 .. bind'.attempts
    BY <1>1, <1>2, FetchFacts DEF Fetch!FirstPage
  <2> QED
    BY <1>1, <1>4, <1>5, <2>1 DEF FetchInv, Fetch!TypeOK
<1>8. Underway'
  BY <1>1, <1>4, <1>5 DEF Underway
<1>9. ASSUME NEW i \in Fetch!Records PROVE Fetch!Over(i)' => Fetch!Over(i)
  <2> SUFFICES ASSUME i \in given, i < m PROVE i <= record
    BY <1>1, <1>2, <1>4, <1>5 DEF Fetch!Over
  <2>1. i \notin Fetch!Left /\ i \in Nat
    BY <1>2, <1>4, <1>5
  <2> QED
    BY <1>5, <2>1 DEF Fetch!Left
<1>10. PagesSoFar'
  <2> SUFFICES ASSUME Fetch!Pages, NEW i \in Fetch!Records
               PROVE  /\ Fetch!Begins(emitted[i], Fetch!Wanted(i))
                      /\ i > m => emitted[i] = <<>> /\ served[i] = 0 /\ fsaid[i] = <<>>
                      /\ Fetch!Over(i)' /\ fsaid[i] = <<>> =>
                           emitted[i] = Fetch!Wanted(i) /\ charged[i] = Len(Fetch!Wanted(i))
    BY <1>1, <1>4, <1>6 DEF PagesSoFar
  <2>1. i > m => i > record
    BY <1>2, <1>5
  <2> QED
    BY <1>9, <2>1 DEF FetchInv, PagesSoFar
<1>11. OneWord'
  <2> SUFFICES ASSUME ~Fetch!Pages, NEW i \in Fetch!Records
               PROVE  /\ Fetch!Over(i)' => Len(fsaid[i]) = 1
                      /\ i \in given /\ (i > m \/ i = m) => fsaid[i] = <<>>
                      /\ i \notin given => fsaid[i] = <<"RECORD">>
                      /\ copies[i] <= unsure[i] + IF fsaid[i] = <<"RECORD">> THEN 1 ELSE 0
                      /\ Fetch!Delivers /\ fsaid[i] = <<"RECORD">> => copies[i] > 0
    BY <1>1, <1>4, <1>6 DEF OneWord
  <2>1. i > m \/ i = m => i > record
    BY <1>2, <1>5
  <2>2. /\ Fetch!Over(i) => Len(fsaid[i]) = 1
        /\ i \in given /\ i > record => fsaid[i] = <<>>
        /\ i \notin given => fsaid[i] = <<"RECORD">>
        /\ copies[i] <= unsure[i] + IF fsaid[i] = <<"RECORD">> THEN 1 ELSE 0
        /\ Fetch!Delivers /\ fsaid[i] = <<"RECORD">> => copies[i] > 0
    BY Zenon DEF FetchInv, OneWord
  <2> QED
    BY <1>9, <2>1, <2>2
<1>12. PageAt'
  <2> SUFFICES ASSUME Fetch!Pages PROVE PageAt'
    BY <1>6 DEF PageAt
  <2>1. emitted[m] = <<>> /\ served[m] = 0 /\ fsaid[m] = <<>>
    BY <1>5 DEF FetchInv, PagesSoFar
  <2>2. Len(Listings[m]) \in Nat /\ Fetch!Size \in Nat /\ bind.max \in Nat /\ bind.limit \in Nat
    BY <1>2, <1>5, FetchFacts
  <2>3. page'.num = 1 /\ page'.offset = 0 /\ page'.cursor = 0
    BY <1>1 DEF Fetch!FirstPage
  <2>4. PageStart' = 0
    <3>1. PageStart' = Fetch!Smaller((1 - 1) * Fetch!Size, Len(Listings[m]))
      <4>1. PageStart' = Fetch!Smaller((page'.num - 1) * Fetch!Size', Len(Listings[record']))
        BY DEF PageStart, Fetch!Listed
      <4> QED
        BY <1>4, <1>6, <2>3, <4>1
    <3>2. (1 - 1) * Fetch!Size = 0
      BY <2>2
    <3> QED
      BY <2>2, <3>1, <3>2 DEF Fetch!Smaller
  <2>5. Lists(<<>>, Places(Listings[m], 0, 0))
    <3>1. Places(Listings[m], 0, 0) = {}
      BY DEF Places
    <3> QED
      BY <3>1 DEF Lists
  <2>6. Fetch!Listed' = Listings[m]
    BY <1>4 DEF Fetch!Listed
  <2> QED
    BY <1>1, <1>4, <2>1, <2>2, <2>3, <2>4, <2>5, <2>6 DEF PageAt
<1> QED
  BY <1>7, <1>8, <1>10, <1>11, <1>12 DEF FetchInv

\* What is said of the records that are not at hand, and of the one that is.
WordsOf(i) ==
  /\ Fetch!Over(i) => Len(fsaid[i]) = 1
  /\ i \in given /\ i > record => fsaid[i] = <<>>
  /\ i \notin given => fsaid[i] = <<"RECORD">>
  /\ copies[i] <= unsure[i] + IF fsaid[i] = <<"RECORD">> THEN 1 ELSE 0
  /\ Fetch!Delivers /\ fsaid[i] = <<"RECORD">> => copies[i] > 0

(* What is said of one record.                                             *)
LEMMA Words ==
  ASSUME OneWord, ~Fetch!Pages, NEW i \in Fetch!Records
  PROVE  WordsOf(i) /\ (i \in given /\ i = record /\ fphase = "calling" => fsaid[i] = <<>>)
BY Zenon DEF OneWord, WordsOf

(* An attempt reached the target, or may have.                             *)
LEMMA ReachedIs ==
  ASSUME Fetch!FetchAssumption, Fetch!TypeOK, record \in Fetch!Records, NEW a \in Replies,
         Fetch!Reached(a)
  PROVE  /\ copies' \in [Fetch!Records -> Nat] /\ unsure' \in [Fetch!Records -> Nat]
         /\ \A i \in Fetch!Records : i # record => copies'[i] = copies[i] /\ unsure'[i] = unsure[i]
         /\ copies'[record] = copies[record] + IF Fetch!Delivers THEN a.copies ELSE 0
         /\ unsure'[record] = unsure[record] + IF Fetch!Unsure(a) THEN 1 ELSE 0
         /\ a.copies \in {0, 1} /\ copies[record] \in Nat /\ unsure[record] \in Nat
         /\ a.kind # "none" /\ a.copies = 1 => Fetch!Unsure(a)
         /\ a.kind = "none" => a.copies = 1
<1>1. Fetch!IsReply(a)
  BY DEF Fetch!FetchAssumption
<1>2. a.copies \in {0, 1} /\ (a.kind = "none" => a.copies = 1)
  BY <1>1 DEF Fetch!IsReply
<1>3. a.kind # "none" /\ a.copies = 1 => Fetch!Unsure(a)
  BY <1>1 DEF Fetch!IsReply, Fetch!Unsure
<1>4. copies \in [Fetch!Records -> Nat] /\ unsure \in [Fetch!Records -> Nat]
  BY DEF Fetch!TypeOK
<1>5. PICK c \in Nat : c = IF Fetch!Delivers THEN a.copies ELSE 0
  BY <1>2
<1>6. PICK u \in Nat : u = IF Fetch!Unsure(a) THEN 1 ELSE 0
  OBVIOUS
<1>7. /\ copies' = [copies EXCEPT ![record] = copies[record] + c]
      /\ unsure' = [unsure EXCEPT ![record] = unsure[record] + u]
  BY <1>5, <1>6 DEF Fetch!Reached
<1> QED
  BY <1>2, <1>3, <1>4, <1>5, <1>6, <1>7

(* The attempt is repeated.                                                *)
LEMMA FetchRetries ==
  ASSUME Fetch!FetchAssumption, FetchInv, NEW a \in Replies, Fetch!Retry(a)
  PROVE  FetchInv'
<1>1. /\ UNCHANGED <<bind, fphase, given, record, page, emitted, served, charged, fsaid, class,
                     opened>>
      /\ fphase = "calling" /\ a.kind # "none" /\ tries' = tries + 1 /\ Fetch!Reached(a)
      /\ tries + 1 < Fetch!Attempts
  BY DEF Fetch!Retry, Fetch!MoreTries
<1>2. bind \in Bindings /\ record \in Fetch!Records /\ record \in given /\ Fetch!TypeOK
  BY <1>1 DEF FetchInv, Fetch!TypeOK, Underway
<1>3. /\ Fetch!Pages' = Fetch!Pages /\ Fetch!Delivers' = Fetch!Delivers
      /\ Fetch!Size' = Fetch!Size
      /\ \A i : Fetch!Wanted(i)' = Fetch!Wanted(i)
  BY <1>1, BindingStays
<1>4. /\ copies' \in [Fetch!Records -> Nat] /\ unsure' \in [Fetch!Records -> Nat]
      /\ \A i \in Fetch!Records : i # record => copies'[i] = copies[i] /\ unsure'[i] = unsure[i]
      /\ copies'[record] = copies[record] + IF Fetch!Delivers THEN a.copies ELSE 0
      /\ unsure'[record] = unsure[record] + IF Fetch!Unsure(a) THEN 1 ELSE 0
      /\ a.copies \in {0, 1} /\ copies[record] \in Nat /\ unsure[record] \in Nat
      /\ a.copies = 1 => Fetch!Unsure(a)
  BY <1>1, <1>2, ReachedIs
<1>5. Fetch!TypeOK'
  <2>1. tries' \in 0 .. bind.attempts
    <3>1. bind.attempts \in Nat /\ bind.attempts > 0 /\ tries \in 0 .. bind.attempts
      BY <1>2, FetchFacts DEF Fetch!TypeOK
    <3>2. Fetch!Attempts \in {1, bind.attempts}
      BY DEF Fetch!Attempts
    <3> QED
      BY <1>1, <3>1, <3>2
  <2> QED
    BY <1>1, <1>2, <1>4, <2>1 DEF Fetch!TypeOK
<1>6. Underway'
  BY <1>1 DEF FetchInv, Underway
<1>7. \A i : Fetch!Over(i)' = Fetch!Over(i)
  BY <1>1 DEF Fetch!Over
<1>8. PagesSoFar'
  <2> SUFFICES ASSUME Fetch!Pages, NEW i \in Fetch!Records
               PROVE  /\ Fetch!Begins(emitted[i], Fetch!Wanted(i))
                      /\ i > record => emitted[i] = <<>> /\ served[i] = 0 /\ fsaid[i] = <<>>
                      /\ Fetch!Over(i) /\ fsaid[i] = <<>> =>
                           emitted[i] = Fetch!Wanted(i) /\ charged[i] = Len(Fetch!Wanted(i))
    BY <1>1, <1>3, <1>7 DEF PagesSoFar
  <2> QED
    BY DEF FetchInv, PagesSoFar
<1>9. PageAt'
  <2>1. PageStart' = PageStart /\ Fetch!Listed' = Fetch!Listed
    BY <1>1, <1>3 DEF PageStart, Fetch!Listed
  <2> QED
    BY <1>1, <1>3, <2>1 DEF FetchInv, PageAt
<1>10. OneWord'
  <2> SUFFICES ASSUME ~Fetch!Pages, NEW i \in Fetch!Records
               PROVE  /\ Fetch!Over(i) => Len(fsaid[i]) = 1
                      /\ i \in given /\ (i > record \/ i = record) => fsaid[i] = <<>>
                      /\ i \notin given => fsaid[i] = <<"RECORD">>
                      /\ copies'[i] <= unsure'[i] + IF fsaid[i] = <<"RECORD">> THEN 1 ELSE 0
                      /\ Fetch!Delivers /\ fsaid[i] = <<"RECORD">> => copies'[i] > 0
    BY <1>1, <1>3, <1>7 DEF OneWord
  <2>1. WordsOf(i) /\ (i = record => fsaid[i] = <<>>)
    BY <1>1, <1>2, Words DEF FetchInv
  <2>2. <<>> # <<"RECORD">>
    OBVIOUS
  <2>3. CASE i = record
    <3>1. fsaid[i] = <<>> /\ copies[i] <= unsure[i]
      <4>1. fsaid[i] = <<>> /\ fsaid[i] # <<"RECORD">>
        BY <2>1, <2>2, <2>3
      <4>2. copies[i] <= unsure[i] + 0 /\ unsure[i] \in Nat
        BY <1>4, <2>1, <2>3, <4>1 DEF WordsOf
      <4> QED
        BY <4>1, <4>2
    <3>2. copies'[i] <= unsure'[i]
      BY <1>4, <2>3, <3>1
    <3>3. ~Fetch!Over(i)
      BY <1>1, <2>3, <1>2, FetchFacts DEF Fetch!Over
    <3>4. unsure'[i] \in Nat /\ copies'[i] \in Nat
      BY <1>4
    <3> QED
      BY <1>2, <2>2, <2>3, <3>1, <3>2, <3>3, <3>4
  <2>4. CASE i # record
    BY <1>4, <2>1, <2>4 DEF WordsOf
  <2> QED
    BY <2>3, <2>4
<1> QED
  BY <1>5, <1>6, <1>8, <1>9, <1>10 DEF FetchInv

(* What errorRule finds is one of the rules of the binding.                *)
LEMMA RuleIs ==
  ASSUME Fetch!FetchAssumption, bind \in Bindings, NEW a \in Replies, Fetch!HasRule(a)
  PROVE  Fetch!Rule(a) \in Fetch!Rules
<1>1. PICK n \in Fetch!Telling(a) : n = Fetch!First(Fetch!Telling(a))
  <2>1. Fetch!Telling(a) \in SUBSET Nat /\ Fetch!Telling(a) # {}
    BY DEF Fetch!HasRule, Fetch!Telling, Fetch!Entries
  <2> QED
    BY <2>1, FirstOf
<1>2. PICK entry \in {"404", "4xx", "5xx", "default"} : entry = Fetch!Entries(a)[n]
  BY DEF Fetch!Telling, Fetch!Entries
<1>3. PICK rules \in Seq(Fetch!Rules) : rules = bind.errors[entry]
  BY SMTT(30) DEF Fetch!FetchAssumption, Fetch!IsBinding
<1>4. Fetch!Fitting(a, entry) # {} /\ Fetch!Fitting(a, entry) \subseteq DOMAIN rules
  BY ZenonT(30), <1>1, <1>2, <1>3 DEF Fetch!Telling, Fetch!Fitting
<1>5. PICK k \in Fetch!Fitting(a, entry) : k = Fetch!First(Fetch!Fitting(a, entry))
  <2>1. DOMAIN rules \subseteq Nat
    BY <1>3
  <2> QED
    BY <1>4, <2>1, FirstOf
<1>6. rules[k] \in Fetch!Rules
  BY <1>4, <1>5
<1> QED
  BY <1>1, <1>2, <1>3, <1>5, <1>6 DEF Fetch!Rule

(* An error is reported under one of the classes.                          *)
LEMMA ClassIs ==
  ASSUME Fetch!FetchAssumption, bind \in Bindings, NEW a \in Replies, a.kind # "none"
  PROVE  Fetch!ClassOf(a) \in Fetch!Classes
<1>1. a.kind \in Fetch!Classes
  BY DEF Fetch!FetchAssumption, Fetch!IsReply
<1>2. Fetch!HasRule(a) => Fetch!Rule(a).class \in Fetch!Classes \cup {Fetch!NoClass}
  BY RuleIs DEF Fetch!Rules
<1>3. "provider" \in Fetch!Classes
  BY DEF Fetch!Classes
<1> QED
  BY <1>1, <1>2, <1>3 DEF Fetch!ClassOf

(* The record is given up: something is said of it, or the session ends.   *)
LEMMA FetchGivesUp ==
  ASSUME Fetch!FetchAssumption, FetchInv, NEW a \in Replies, Fetch!GiveUp(a)
  PROVE  FetchInv'
<1>1. /\ UNCHANGED <<bind, given, record, tries, page, emitted, served, charged, opened>>
      /\ fphase = "calling" /\ a.kind # "none" /\ Fetch!Reached(a)
      /\ fphase' \in {"reading", "died"}
      /\ \/ \E m \in {"LOG", "ERROR"} : Fetch!Say(m)
         \/ fsaid' = fsaid /\ fphase' = "died"
      /\ class' \in {class, Fetch!ClassOf(a)}
  <2>1. Fetch!Names(a) \/ Fetch!Stops(a)
    BY DEF Fetch!Stops
  <2> QED
    BY <2>1 DEF Fetch!GiveUp, Fetch!Goes, Fetch!Dies
<1>2. bind \in Bindings /\ record \in Fetch!Records /\ record \in given /\ Fetch!TypeOK
  BY <1>1 DEF FetchInv, Fetch!TypeOK, Underway
<1>3. /\ Fetch!Pages' = Fetch!Pages /\ Fetch!Delivers' = Fetch!Delivers
      /\ Fetch!Size' = Fetch!Size
      /\ \A i : Fetch!Wanted(i)' = Fetch!Wanted(i)
  BY <1>1, BindingStays
<1>4. /\ copies' \in [Fetch!Records -> Nat] /\ unsure' \in [Fetch!Records -> Nat]
      /\ \A i \in Fetch!Records : i # record => copies'[i] = copies[i] /\ unsure'[i] = unsure[i]
      /\ copies'[record] = copies[record] + IF Fetch!Delivers THEN a.copies ELSE 0
      /\ unsure'[record] = unsure[record] + IF Fetch!Unsure(a) THEN 1 ELSE 0
      /\ a.copies \in {0, 1} /\ copies[record] \in Nat /\ unsure[record] \in Nat
      /\ a.copies = 1 => Fetch!Unsure(a)
  BY <1>1, <1>2, ReachedIs
<1>5. /\ fsaid' \in [Fetch!Records -> Seq({"RECORD", "ERROR", "LOG"})]
      /\ \A i \in Fetch!Records : i # record => fsaid'[i] = fsaid[i]
      /\ \/ \E m \in {"LOG", "ERROR"} : fsaid'[record] = Append(fsaid[record], m)
         \/ fsaid'[record] = fsaid[record] /\ fphase' = "died"
  <2>1. CASE fsaid' = fsaid /\ fphase' = "died"
    BY <1>2, <2>1 DEF Fetch!TypeOK
  <2>2. ASSUME NEW m \in {"LOG", "ERROR"}, Fetch!Say(m)
        PROVE  /\ fsaid' \in [Fetch!Records -> Seq({"RECORD", "ERROR", "LOG"})]
               /\ \A i \in Fetch!Records : i # record => fsaid'[i] = fsaid[i]
               /\ fsaid'[record] = Append(fsaid[record], m)
    <3>1. fsaid \in [Fetch!Records -> Seq({"RECORD", "ERROR", "LOG"})]
      BY <1>2 DEF Fetch!TypeOK
    <3>2. Append(fsaid[record], m) \in Seq({"RECORD", "ERROR", "LOG"})
      BY <1>2, <3>1
    <3>3. fsaid' = [fsaid EXCEPT ![record] = Append(fsaid[record], m)]
      BY <2>2 DEF Fetch!Say
    <3> QED
      BY <1>2, <3>1, <3>2, <3>3
  <2> QED
    BY <1>1, <2>1, <2>2
<1>6. Fetch!TypeOK'
  <2>1. class' \in Fetch!Classes \cup {"none"}
    BY <1>1, <1>2, ClassIs DEF Fetch!TypeOK
  <2> QED
    BY <1>1, <1>2, <1>4, <1>5, <2>1 DEF Fetch!TypeOK
<1>7. Underway' /\ PageAt'
  BY <1>1 DEF Underway, PageAt
<1>8. \A i \in Fetch!Records : i # record => Fetch!Over(i)' = Fetch!Over(i)
  BY <1>1 DEF Fetch!Over
<1>9. ASSUME NEW i \in Fetch!Records, i = record PROVE Fetch!Over(i)' => fphase' # "died"
  BY <1>1, <1>2, <1>9, FetchFacts DEF Fetch!Over
<1>10. PagesSoFar'
  <2> SUFFICES ASSUME Fetch!Pages, NEW i \in Fetch!Records
               PROVE  /\ Fetch!Begins(emitted[i], Fetch!Wanted(i))
                      /\ i > record => emitted[i] = <<>> /\ served[i] = 0 /\ fsaid'[i] = <<>>
                      /\ Fetch!Over(i)' /\ fsaid'[i] = <<>> =>
                           emitted[i] = Fetch!Wanted(i) /\ charged[i] = Len(Fetch!Wanted(i))
    BY <1>1, <1>3 DEF PagesSoFar
  <2>1. /\ Fetch!Begins(emitted[i], Fetch!Wanted(i))
        /\ i > record => emitted[i] = <<>> /\ served[i] = 0 /\ fsaid[i] = <<>>
        /\ Fetch!Over(i) /\ fsaid[i] = <<>> =>
             emitted[i] = Fetch!Wanted(i) /\ charged[i] = Len(Fetch!Wanted(i))
    BY DEF FetchInv, PagesSoFar
  <2>2. CASE i # record
    BY <1>5, <1>8, <2>1, <2>2
  <2>3. CASE i = record
    <3>1. Fetch!Over(i)' => fsaid'[i] # <<>>
      <4> SUFFICES ASSUME Fetch!Over(i)' PROVE fsaid'[i] # <<>>
        OBVIOUS
      <4>1. PICK m \in {"LOG", "ERROR"} : fsaid'[record] = Append(fsaid[record], m)
        BY <1>5, <1>9, <2>3
      <4>2. fsaid[record] \in Seq({"RECORD", "ERROR", "LOG"})
        BY <1>2 DEF Fetch!TypeOK
      <4> QED
        BY <2>3, <4>1, <4>2
    <3>2. ~(i > record)
      BY <1>2, <2>3, FetchFacts
    <3> QED
      BY <2>1, <3>1, <3>2
  <2> QED
    BY <2>2, <2>3
<1>11. OneWord'
  <2> SUFFICES ASSUME ~Fetch!Pages, NEW i \in Fetch!Records
               PROVE  /\ Fetch!Over(i)' => Len(fsaid'[i]) = 1
                      /\ i \in given /\ i > record => fsaid'[i] = <<>>
                      /\ i \notin given => fsaid'[i] = <<"RECORD">>
                      /\ copies'[i] <= unsure'[i] + IF fsaid'[i] = <<"RECORD">> THEN 1 ELSE 0
                      /\ Fetch!Delivers /\ fsaid'[i] = <<"RECORD">> => copies'[i] > 0
    BY <1>1, <1>3 DEF OneWord
  <2>1. WordsOf(i) /\ (i = record => fsaid[i] = <<>>)
    BY <1>1, <1>2, Words DEF FetchInv
  <2>2. CASE i = record
    <3>1. fsaid[i] = <<>> /\ copies[i] <= unsure[i]
      <4>1. fsaid[i] = <<>> /\ fsaid[i] # <<"RECORD">>
        BY <2>1, <2>2
      <4>2. copies[i] <= unsure[i] + 0 /\ unsure[i] \in Nat
        BY <1>4, <2>1, <2>2, <4>1 DEF WordsOf
      <4> QED
        BY <4>1, <4>2
    <3>2. copies'[i] <= unsure'[i]
      BY <1>4, <2>2, <3>1
    <3>3. fsaid'[i] # <<"RECORD">> /\ (Fetch!Over(i)' => Len(fsaid'[i]) = 1)
      <4>1. CASE fsaid'[record] = fsaid[record] /\ fphase' = "died"
        <5>1. fsaid'[i] = fsaid[i]
          BY <2>2, <4>1
        <5>2. ~Fetch!Over(i)'
          BY <1>9, <2>2, <4>1
        <5>3. fsaid[i] # <<"RECORD">>
          BY <3>1
        <5> QED
          BY <5>1, <5>2, <5>3
      <4>2. ASSUME NEW m \in {"LOG", "ERROR"}, fsaid'[record] = Append(fsaid[record], m)
            PROVE  fsaid'[i] # <<"RECORD">> /\ Len(fsaid'[i]) = 1
        <5>1. fsaid'[i] = Append(<<>>, m)
          BY <2>2, <3>1, <4>2
        <5>2. fsaid'[i] = <<m>>
          BY <5>1
        <5> QED
          BY <4>2, <5>2
      <4> QED
        BY <1>5, <4>1, <4>2
    <3>4. unsure'[i] \in Nat /\ copies'[i] \in Nat /\ ~(i > record)
      BY <1>2, <1>4, <2>2, FetchFacts
    <3> QED
      BY <1>2, <2>2, <3>2, <3>3, <3>4
  <2>3. CASE i # record
    BY <1>4, <1>5, <1>8, <2>1, <2>3 DEF WordsOf
  <2> QED
    BY <2>2, <2>3
<1> QED
  BY <1>6, <1>7, <1>10, <1>11 DEF FetchInv

(* A page: the next one is asked for behind it, or everything is there.    *)
LEMMA FetchPages == ASSUME Fetch!FetchAssumption, FetchInv, Fetch!Page PROVE FetchInv'
<1>1. PICK a \in Replies : Fetch!Reached(a) /\ a.kind = "none" /\ fphase = "calling"
  BY DEF Fetch!Page, Fetch!Answer200
<1>2. /\ UNCHANGED <<bind, given, record, fsaid, class, opened>> /\ Fetch!Pages /\ tries' = 0
      /\ emitted' = [emitted EXCEPT ![record] = @ \o Fetch!Taken]
      /\ served'  = [served EXCEPT ![record] = @ + 1]
      /\ \/ /\ Fetch!Full \/ Fetch!Terminated
            /\ charged' = [charged EXCEPT ![record] = Len(emitted'[record])]
            /\ fphase' = "reading" /\ page' = page
         \/ /\ ~Fetch!Full /\ ~Fetch!Terminated
            /\ page' = Fetch!NextPage /\ UNCHANGED <<charged, fphase>>
  BY DEF Fetch!Page
<1>3. bind \in Bindings /\ record \in Fetch!Records /\ record \in given /\ Fetch!TypeOK
  BY <1>1 DEF FetchInv, Fetch!TypeOK, Underway
<1>4. /\ Fetch!Pages' = Fetch!Pages /\ Fetch!Delivers' = Fetch!Delivers
      /\ Fetch!Size' = Fetch!Size
      /\ \A i : Fetch!Wanted(i)' = Fetch!Wanted(i)
  BY <1>2, BindingStays
<1>5. copies' \in [Fetch!Records -> Nat] /\ unsure' \in [Fetch!Records -> Nat]
  BY <1>1, <1>3, ReachedIs
<1>6. PICK new \in Seq(Nat) :
        /\ new = emitted[record] \o Fetch!Taken
        /\ Fetch!Begins(new, Fetch!Wanted(record))
        /\ Fetch!Full \/ Fetch!Terminated => new = Fetch!Wanted(record)
        /\ ~Fetch!Full => Lists(new, Places(Fetch!Listed, 0, PageEnd))
        /\ ~Fetch!Full /\ bind.limit > 0 => Len(new) < bind.limit
  BY <1>1, <1>2, <1>3, PageDoes DEF FetchInv
<1>7. /\ emitted' \in [Fetch!Records -> Seq(Nat)]
      /\ \A i \in Fetch!Records : i # record => emitted'[i] = emitted[i]
      /\ emitted'[record] = new
  <2>1. emitted \in [Fetch!Records -> Seq(Nat)]
    BY <1>3 DEF Fetch!TypeOK
  <2>2. emitted' = [emitted EXCEPT ![record] = new]
    BY <1>2, <1>6
  <2> QED
    BY <1>3, <2>1, <2>2
<1>8. /\ served' \in [Fetch!Records -> Nat] /\ served'[record] = served[record] + 1
      /\ \A i \in Fetch!Records : i # record => served'[i] = served[i]
  <2>1. served \in [Fetch!Records -> Nat]
    BY <1>3 DEF Fetch!TypeOK
  <2> QED
    BY <1>2, <1>3, <2>1
<1>9. /\ charged' \in [Fetch!Records -> Nat]
      /\ \A i \in Fetch!Records : i # record => charged'[i] = charged[i]
      /\ Fetch!Full \/ Fetch!Terminated => charged'[record] = Len(new)
  <2>1. charged \in [Fetch!Records -> Nat] /\ Len(new) \in Nat
    BY <1>3 DEF Fetch!TypeOK
  <2>2. Fetch!Full \/ Fetch!Terminated => charged' = [charged EXCEPT ![record] = Len(new)]
    BY <1>2, <1>7
  <2>3. ~(Fetch!Full \/ Fetch!Terminated) => charged' = charged
    BY <1>2
  <2> QED
    BY <1>3, <2>1, <2>2, <2>3
<1>10. /\ page \in [num : Nat, offset : Nat, cursor : Nat]
       /\ PageStart \in Nat /\ PageEnd \in Nat
       /\ Fetch!Got \in Nat /\ Fetch!Got = PageEnd - PageStart
       /\ ~Fetch!Terminated => Fetch!Until = PageEnd /\ bind.strategy # "none"
  <2>1. page \in [num : Nat, offset : Nat, cursor : Nat] /\ PageAt
    BY <1>3 DEF Fetch!TypeOK, FetchInv
  <2> QED
    BY <1>1, <1>2, <1>3, <2>1, PageIs
<1>11. page' \in [num : Nat, offset : Nat, cursor : Nat]
  <2>1. CASE page' = page
    BY <1>10, <2>1
  <2>2. CASE page' = Fetch!NextPage /\ ~Fetch!Terminated
    BY <1>10, <2>2 DEF Fetch!NextPage
  <2> QED
    BY <1>2, <2>1, <2>2
<1>12. Fetch!TypeOK'
  <2>1. tries' \in 0 .. bind.attempts
    BY <1>2, <1>3, FetchFacts
  <2>2. fphase' \in {"new", "reading", "calling", "ended", "died"}
    BY <1>1, <1>2
  <2> QED
    BY <1>2, <1>3, <1>5, <1>7, <1>8, <1>9, <1>11, <2>1, <2>2 DEF Fetch!TypeOK
<1>13. Underway'
  BY <1>1, <1>2, <1>3 DEF Underway
<1>14. \A i \in Fetch!Records : i # record => Fetch!Over(i)' = Fetch!Over(i)
  <2>1. fphase' \in {"reading", "calling"}
    BY <1>1, <1>2
  <2> QED
    BY <1>2 DEF Fetch!Over
<1>15. ASSUME NEW i \in Fetch!Records, i = record
       PROVE  Fetch!Over(i)' => Fetch!Full \/ Fetch!Terminated
  BY <1>1, <1>2, <1>3, <1>15, FetchFacts DEF Fetch!Over
<1>16. PagesSoFar'
  <2> SUFFICES ASSUME NEW i \in Fetch!Records
               PROVE  /\ Fetch!Begins(emitted'[i], Fetch!Wanted(i))
                      /\ i > record => emitted'[i] = <<>> /\ served'[i] = 0 /\ fsaid[i] = <<>>
                      /\ Fetch!Over(i)' /\ fsaid[i] = <<>> =>
                           emitted'[i] = Fetch!Wanted(i) /\ charged'[i] = Len(Fetch!Wanted(i))
    BY <1>2, <1>4 DEF PagesSoFar
  <2>1. CASE i = record
    <3>1. ~(i > record)
      BY <1>3, <2>1, FetchFacts
    <3>2. emitted'[i] = new /\ Fetch!Wanted(i) = Fetch!Wanted(record)
      BY <1>7, <2>1
    <3>3. Fetch!Over(i)' => emitted'[i] = Fetch!Wanted(i) /\ charged'[i] = Len(Fetch!Wanted(i))
      <4>1. Fetch!Over(i)' => Fetch!Full \/ Fetch!Terminated
        BY <1>15, <2>1
      <4> QED
        BY <1>6, <1>9, <2>1, <3>2, <4>1
    <3> QED
      BY <1>6, <3>1, <3>2, <3>3
  <2>2. CASE i # record
    <3>1. /\ Fetch!Begins(emitted[i], Fetch!Wanted(i))
          /\ i > record => emitted[i] = <<>> /\ served[i] = 0 /\ fsaid[i] = <<>>
          /\ Fetch!Over(i) /\ fsaid[i] = <<>> =>
               emitted[i] = Fetch!Wanted(i) /\ charged[i] = Len(Fetch!Wanted(i))
      BY <1>2 DEF FetchInv, PagesSoFar
    <3> QED
      BY <1>7, <1>8, <1>9, <1>14, <2>2, <3>1
  <2> QED
    BY <2>1, <2>2
<1>17. PageAt'
  <2> SUFFICES ASSUME fphase' = "calling" PROVE PageAt'
    BY DEF PageAt
  <2>1. ~Fetch!Full /\ ~Fetch!Terminated /\ page' = Fetch!NextPage
    BY <1>2
  <2>2. /\ page'.num = page.num + 1 /\ page'.offset = page.offset + Fetch!Got
        /\ page'.cursor = PageEnd
    BY <1>10, <2>1 DEF Fetch!NextPage
  <2>3. /\ page.num >= 1 /\ served[record] = page.num - 1 /\ fsaid[record] = <<>>
        /\ bind.strategy = "offset" => page.offset = PageStart
        /\ page.num \in Nat /\ bind.max \in Nat
    BY <1>1, <1>2, <1>3, <1>10, FetchFacts DEF FetchInv, PageAt
  <2>4. bind.strategy # "none"
    BY <1>10, <2>1
  <2>5. Fetch!Listed' = Fetch!Listed
    BY <1>2 DEF Fetch!Listed
  <2>6. PageStart' = PageEnd
    <3>1. PageStart' = Fetch!Smaller((page'.num - 1) * Fetch!Size, Len(Fetch!Listed))
      BY <1>4, <2>5 DEF PageStart
    <3>2. page'.num - 1 = page.num
      BY <2>2, <2>3
    <3> QED
      BY <2>4, <3>1, <3>2 DEF PageEnd
  <2>7. bind.max > 0 => page.num + 1 <= bind.max
    BY <2>1, <2>3 DEF Fetch!Terminated
  <2>8. bind.strategy = "offset" => page'.offset = PageEnd
    BY <1>10, <2>2, <2>3
  <2>9. emitted'[record'] = new /\ served'[record'] = page'.num - 1 /\ fsaid'[record'] = <<>>
    <3>1. served[record] + 1 = page'.num - 1
      BY <2>2, <2>3
    <3>2. emitted'[record] = new /\ served'[record] = page'.num - 1 /\ fsaid[record] = <<>>
      BY <1>7, <1>8, <2>3, <3>1
    <3> QED
      BY <1>2, <3>2
  <2>10. Lists(new, Places(Fetch!Listed, 0, PageEnd)) /\ (bind.limit > 0 => Len(new) < bind.limit)
    BY <1>6, <2>1
  <2>11. page'.num >= 1
    BY <2>2, <2>3
  <2> QED
    BY <1>2, <2>2, <2>4, <2>5, <2>6, <2>7, <2>8, <2>9, <2>10, <2>11 DEF PageAt
<1>18. OneWord'
  BY <1>2, <1>4 DEF OneWord
<1> QED
  BY <1>12, <1>13, <1>16, <1>17, <1>18 DEF FetchInv

(* A record that has its answer.                                           *)
LEMMA FetchAnswers == ASSUME Fetch!FetchAssumption, FetchInv, Fetch!Single PROVE FetchInv'
<1>1. PICK a \in Replies : Fetch!Reached(a) /\ a.kind = "none" /\ fphase = "calling"
  BY DEF Fetch!Single, Fetch!Answer200
<1>2. /\ UNCHANGED <<bind, given, record, tries, page, emitted, served, class, opened>>
      /\ ~Fetch!Pages
      /\ fphase' = "reading"
      /\ charged' = [charged EXCEPT ![record] = IF bind.role \in {"enrich", "deliver"}
                                                THEN @ + 1 ELSE @]
  BY DEF Fetch!Single, Fetch!Goes
<1>3. PICK m \in {"RECORD", "LOG"} : Fetch!Say(m) /\ (Fetch!Delivers => m = "RECORD")
  BY DEF Fetch!Single
<1>4. bind \in Bindings /\ record \in Fetch!Records /\ record \in given /\ Fetch!TypeOK
  BY <1>1 DEF FetchInv, Fetch!TypeOK, Underway
<1>5. /\ Fetch!Pages' = Fetch!Pages /\ Fetch!Delivers' = Fetch!Delivers
      /\ Fetch!Size' = Fetch!Size
      /\ \A i : Fetch!Wanted(i)' = Fetch!Wanted(i)
  BY <1>2, BindingStays
<1>6. /\ copies' \in [Fetch!Records -> Nat] /\ unsure' \in [Fetch!Records -> Nat]
      /\ \A i \in Fetch!Records : i # record => copies'[i] = copies[i] /\ unsure'[i] = unsure[i]
      /\ copies'[record] = copies[record] + IF Fetch!Delivers THEN 1 ELSE 0
      /\ unsure'[record] = unsure[record] + IF Fetch!Unsure(a) THEN 1 ELSE 0
      /\ copies[record] \in Nat /\ unsure[record] \in Nat
  BY <1>1, <1>4, ReachedIs
<1>7. ~Fetch!Unsure(a)
  BY <1>1 DEF Fetch!Unsure
<1>8. /\ fsaid' \in [Fetch!Records -> Seq({"RECORD", "ERROR", "LOG"})]
      /\ \A i \in Fetch!Records : i # record => fsaid'[i] = fsaid[i]
      /\ fsaid'[record] = Append(fsaid[record], m)
  <2>1. fsaid \in [Fetch!Records -> Seq({"RECORD", "ERROR", "LOG"})]
    BY <1>4 DEF Fetch!TypeOK
  <2>2. Append(fsaid[record], m) \in Seq({"RECORD", "ERROR", "LOG"})
    BY <1>4, <2>1
  <2>3. fsaid' = [fsaid EXCEPT ![record] = Append(fsaid[record], m)]
    BY <1>3 DEF Fetch!Say
  <2> QED
    BY <1>4, <2>1, <2>2, <2>3
<1>9. charged' \in [Fetch!Records -> Nat]
  <2>1. charged \in [Fetch!Records -> Nat]
    BY <1>4 DEF Fetch!TypeOK
  <2> QED
    BY <1>2, <1>4, <2>1
<1>10. Fetch!TypeOK'
  BY <1>2, <1>4, <1>6, <1>8, <1>9 DEF Fetch!TypeOK
<1>11. Underway' /\ PageAt' /\ PagesSoFar'
  BY <1>2, <1>5 DEF Underway, PageAt, PagesSoFar
<1>12. \A i \in Fetch!Records : i # record => Fetch!Over(i)' = Fetch!Over(i)
  BY <1>1, <1>2 DEF Fetch!Over
<1>13. OneWord'
  <2> SUFFICES ASSUME NEW i \in Fetch!Records
               PROVE  /\ Fetch!Over(i)' => Len(fsaid'[i]) = 1
                      /\ i \in given /\ i > record => fsaid'[i] = <<>>
                      /\ i \notin given => fsaid'[i] = <<"RECORD">>
                      /\ copies'[i] <= unsure'[i] + IF fsaid'[i] = <<"RECORD">> THEN 1 ELSE 0
                      /\ Fetch!Delivers /\ fsaid'[i] = <<"RECORD">> => copies'[i] > 0
    BY <1>2, <1>5 DEF OneWord
  <2>1. WordsOf(i) /\ (i = record => fsaid[i] = <<>>)
    BY <1>1, <1>2, <1>4, Words DEF FetchInv
  <2>2. CASE i = record
    <3>1. copies[i] <= unsure[i]
      <4>1. fsaid[i] # <<"RECORD">>
        BY <2>1, <2>2
      <4>2. copies[i] <= unsure[i] + 0 /\ unsure[i] \in Nat
        BY <1>6, <2>1, <2>2, <4>1 DEF WordsOf
      <4> QED
        BY <4>2
    <3>2. fsaid'[i] = <<m>> /\ Len(fsaid'[i]) = 1
      <4>1. fsaid'[i] = Append(<<>>, m)
        BY <1>8, <2>1, <2>2
      <4> QED
        BY <4>1
    <3>3. fsaid'[i] = <<"RECORD">> <=> m = "RECORD"
      BY <3>2
    <3>4. unsure'[i] = unsure[i] /\ unsure[i] \in Nat /\ copies[i] \in Nat
      BY <1>6, <1>7, <2>2
    <3>5. copies'[i] = copies[i] + IF Fetch!Delivers THEN 1 ELSE 0
      BY <1>6, <2>2
    <3>6. ~(i > record) /\ i \in given
      BY <1>4, <2>2, FetchFacts
    <3>7. copies'[i] <= unsure'[i] + IF fsaid'[i] = <<"RECORD">> THEN 1 ELSE 0
      <4>1. CASE Fetch!Delivers
        <5>1. fsaid'[i] = <<"RECORD">>
          BY <1>3, <3>3, <4>1
        <5>2. copies'[i] = copies[i] + 1
          BY <3>5, <4>1
        <5> QED
          BY <3>1, <3>4, <5>1, <5>2
      <4>2. CASE ~Fetch!Delivers
        <5>1. copies'[i] = copies[i]
          BY <3>4, <3>5, <4>2
        <5> QED
          BY <3>1, <3>4, <5>1
      <4> QED
        BY <4>1, <4>2
    <3>8. Fetch!Delivers => copies'[i] > 0
      BY <3>4, <3>5
    <3> QED
      BY <3>2, <3>6, <3>7, <3>8
  <2>3. CASE i # record
    BY <1>6, <1>8, <1>12, <2>1, <2>3 DEF WordsOf
  <2> QED
    BY <2>2, <2>3
<1> QED
  BY <1>10, <1>11, <1>13 DEF FetchInv

(* A later session is given who was not acknowledged.                      *)
LEMMA FetchAgain == ASSUME Fetch!FetchAssumption, FetchInv, Fetch!Again PROVE FetchInv'
<1>1. /\ UNCHANGED <<bind, page, emitted, served, charged, copies, unsure>> /\ ~Fetch!Pages
      /\ given' = {i \in given : fsaid[i] # <<"RECORD">>}
      /\ opened < FetchSessions /\ opened' = opened + 1
      /\ fphase' = "new" /\ record' = 0 /\ tries' = 0 /\ class' = "none"
      /\ fsaid' = [i \in Fetch!Records |-> IF i \in given' THEN <<>> ELSE fsaid[i]]
  BY DEF Fetch!Again
<1>2. bind \in Bindings /\ Fetch!TypeOK /\ given \subseteq Fetch!Records
  BY DEF FetchInv, Fetch!TypeOK
<1>3. /\ Fetch!Pages' = Fetch!Pages /\ Fetch!Delivers' = Fetch!Delivers
      /\ Fetch!Size' = Fetch!Size
      /\ \A i : Fetch!Wanted(i)' = Fetch!Wanted(i)
  BY <1>1, BindingStays
<1>4. Fetch!TypeOK'
  <2>1. fsaid' \in [Fetch!Records -> Seq({"RECORD", "ERROR", "LOG"})]
    <3>1. fsaid \in [Fetch!Records -> Seq({"RECORD", "ERROR", "LOG"})]
      BY <1>2 DEF Fetch!TypeOK
    <3>2. \A i \in Fetch!Records : fsaid[i] \in Seq({"RECORD", "ERROR", "LOG"})
      BY <3>1
    <3>3. <<>> \in Seq({"RECORD", "ERROR", "LOG"})
      OBVIOUS
    <3> QED
      BY <1>1, <3>2, <3>3
  <2>2. opened' \in 1 .. FetchSessions /\ tries' \in 0 .. bind.attempts
    <3>1. /\ opened \in 1 .. FetchSessions
          /\ FetchSessions \in Nat /\ bind.attempts \in Nat
      BY <1>2, FetchFacts DEF Fetch!TypeOK
    <3> QED
      BY <1>1, <3>1
  <2> QED
    BY <1>1, <1>2, <2>1, <2>2 DEF Fetch!TypeOK
<1>5. Underway' /\ PageAt' /\ PagesSoFar'
  BY <1>1, <1>3 DEF Underway, PageAt, PagesSoFar
<1>6. OneWord'
  <2> SUFFICES ASSUME NEW i \in Fetch!Records
               PROVE  /\ ~Fetch!Over(i)'
                      /\ i \in given' => fsaid'[i] = <<>>
                      /\ i \notin given' => fsaid'[i] = <<"RECORD">>
                      /\ copies[i] <= unsure[i] + IF fsaid'[i] = <<"RECORD">> THEN 1 ELSE 0
                      /\ Fetch!Delivers /\ fsaid'[i] = <<"RECORD">> => copies[i] > 0
    BY <1>1, <1>3 DEF OneWord
  <2>1. WordsOf(i)
    BY <1>1, Words DEF FetchInv
  <2>2. ~Fetch!Over(i)'
    BY <1>1, <1>2, FetchFacts DEF Fetch!Over
  <2>3. CASE i \in given'
    <3>1. fsaid'[i] = <<>> /\ fsaid[i] # <<"RECORD">>
      BY <1>1, <2>3
    <3>2. copies[i] <= unsure[i] + 0 /\ fsaid'[i] # <<"RECORD">>
      BY <2>1, <3>1 DEF WordsOf
    <3> QED
      BY <2>2, <2>3, <3>1, <3>2
  <2>4. CASE i \notin given'
    <3>1. fsaid'[i] = fsaid[i]
      BY <1>1, <2>4
    <3>2. fsaid[i] = <<"RECORD">>
      BY <1>1, <2>1, <2>4 DEF WordsOf
    <3> QED
      BY <2>1, <2>2, <2>4, <3>1, <3>2 DEF WordsOf
  <2> QED
    BY <2>3, <2>4
<1> QED
  BY <1>4, <1>5, <1>6 DEF FetchInv

(* Every step keeps the invariant.                                         *)
LEMMA FetchNext == ASSUME Fetch!FetchAssumption, FetchInv, [Fetch!Next]_(Fetch!vars) PROVE FetchInv'
<1>1. CASE UNCHANGED Fetch!vars
  <2>1. /\ Fetch!Pages' = Fetch!Pages /\ Fetch!Delivers' = Fetch!Delivers
        /\ Fetch!Size' = Fetch!Size
        /\ \A i : Fetch!Wanted(i)' = Fetch!Wanted(i)
    BY <1>1, BindingStays DEF Fetch!vars
  <2>2. /\ \A i : Fetch!Over(i)' = Fetch!Over(i)
        /\ Fetch!Listed' = Fetch!Listed /\ PageStart' = PageStart
    BY <1>1, <2>1 DEF Fetch!vars, Fetch!Over, Fetch!Listed, PageStart
  <2>3. Fetch!TypeOK' /\ Underway'
    BY <1>1 DEF Fetch!vars, FetchInv, Fetch!TypeOK, Underway
  <2>4. PageAt' /\ PagesSoFar'
    BY <1>1, <2>1, <2>2 DEF Fetch!vars, FetchInv, PageAt, PagesSoFar
  <2>5. OneWord'
    BY <1>1, <2>1, <2>2 DEF Fetch!vars, FetchInv, OneWord
  <2> QED
    BY <2>3, <2>4, <2>5 DEF FetchInv
<1> QED
  BY <1>1, FetchQuiet, FetchReads, FetchAgain, FetchPages, FetchAnswers, FetchRetries,
     FetchGivesUp DEF Fetch!Next

(* The invariant implies what the run of MCParts checks.                   *)
LEMMA FetchKept == ASSUME Fetch!FetchAssumption, FetchInv PROVE Fetch!FetchHolds
<1>1. Fetch!SourceIsExact
  BY DEF FetchInv, PagesSoFar, Fetch!SourceIsExact
<1>2. Fetch!SessionIsTruthful
  <2> SUFFICES ASSUME ~Fetch!Pages, NEW i \in Fetch!Records
               PROVE  /\ Fetch!Over(i) => Len(fsaid[i]) = 1
                      /\ Fetch!Delivers /\ fsaid[i] = <<"RECORD">> => copies[i] > 0
                      /\ copies[i] <= 1 + unsure[i]
    BY DEF Fetch!SessionIsTruthful
  <2>1. WordsOf(i)
    BY Words DEF FetchInv
  <2>2. copies[i] \in Nat /\ unsure[i] \in Nat
    BY DEF FetchInv, Fetch!TypeOK
  <2>3. copies[i] <= 1 + unsure[i]
    BY <2>1, <2>2 DEF WordsOf
  <2> QED
    BY <2>1, <2>3 DEF WordsOf
<1> QED
  BY <1>1, <1>2 DEF Fetch!FetchHolds

(* The invariant of a binding at work, in every behaviour of it.           *)
THEOREM FetchInvariance == ASSUME Fetch!FetchAssumption PROVE Fetch!Spec => []FetchInv
<1>1. Fetch!Init => FetchInv
  BY FetchInit
<1>2. FetchInv /\ [Fetch!Next]_(Fetch!vars) => FetchInv'
  BY FetchNext
<1> QED
  BY <1>1, <1>2, PTL DEF Fetch!Spec

(* However the vendor pages, what is brought in is what the pages reach,   *)
(* each record once and cut at the limit; a session says one thing of      *)
(* each record, and a second copy comes only of an attempt that failed     *)
(* without telling (engine.go, httpx.go).                                  *)
THEOREM FetchIsKept == ASSUME Fetch!FetchAssumption PROVE Fetch!Spec => []Fetch!FetchHolds
<1>1. FetchInv => Fetch!FetchHolds
  BY FetchKept
<1> QED
  BY <1>1, FetchInvariance, PTL

-----------------------------------------------------------------------------
(* Wire.                                                                   *)

\* What was written was heard or is still in the pipe, but for a bad line.
LinesHeard ==
  /\ heard + Len(output) <= lines /\ (~garbled => heard + Len(output) = lines)
  /\ adapter = "writing" => lines < MaxLines

\* Why the runner listens no more, and what it has seen when it says so.
StoppedWell ==
  /\ garbled => reader # "reading"
  /\ reader # "reading" => garbled \/ (Wire!Gone /\ output = <<>>)
  /\ reader \in {"joining", "over"} => Wire!Gone
  /\ reader = "joining" => ~garbled /\ code = "ok"
  /\ reader = "over" => (wresult = "ok" <=> code = "ok" /\ ~garbled)

WireInv == Wire!TypeOK /\ LinesHeard /\ StoppedWell

(* Nothing is written yet.                                                 *)
LEMMA WireInit == ASSUME Wire!WireAssumption, Wire!Init PROVE WireInv
<1>1. Messages \in Nat /\ Room \in Nat \ {0} /\ MaxLines \in Nat
  BY DEF Wire!WireAssumption
<1>2. Wire!Capacity \in Nat
  BY <1>1 DEF Wire!Capacity
<1>3. /\ wkind \in WireKinds /\ wsender = "sending" /\ put = 0 /\ input = 0 /\ shut = FALSE
      /\ adapter = "free" /\ drained = FALSE /\ line = "good" /\ lines = 0 /\ code = "ok"
      /\ output = <<>> /\ Len(output) = 0 /\ output \in Seq({"good", "bad"})
      /\ reader = "reading" /\ heard = 0 /\ garbled = FALSE /\ wresult = "none"
  BY DEF Wire!Init
<1>4. Wire!TypeOK
  <2>1. /\ put \in 0 .. Messages /\ input \in 0 .. Wire!Capacity
        /\ lines \in 0 .. MaxLines /\ heard \in 0 .. MaxLines /\ Len(output) <= Wire!Capacity
    <3>1. put = 0 /\ input = 0 /\ lines = 0 /\ heard = 0 /\ Len(output) = 0
      BY <1>3
    <3> QED
      BY <1>1, <1>2, <3>1
  <2> QED
    BY <1>3, <2>1, ZenonT(30) DEF Wire!TypeOK
<1>5. LinesHeard /\ StoppedWell
  BY <1>3 DEF LinesHeard, StoppedWell
<1> QED
  BY <1>4, <1>5 DEF WireInv

(* SendStream touches neither the lines nor the runner.                    *)
LEMMA WireSends == ASSUME Wire!WireAssumption, WireInv, Wire!Sender PROVE WireInv'
<1>1. /\ UNCHANGED <<wkind, adapter, drained, line, lines, code, output, reader, heard, garbled,
                     wresult>>
      /\ wsender' \in {"sending", "done", "broken"} /\ shut' \in BOOLEAN
  BY DEF Wire!Sender, Wire!Send, Wire!SendFails, Wire!CloseSend, Wire!adapterVars, Wire!readVars,
         WireInv, Wire!TypeOK
<1>2. Messages \in Nat /\ Wire!Capacity \in Nat /\ Wire!Capacity' = Wire!Capacity
  BY <1>1 DEF Wire!WireAssumption, Wire!Capacity
<1>3. \/ /\ put < Messages /\ input < Wire!Capacity /\ put' = put + 1 /\ input' = input + 1
      \/ UNCHANGED <<put, input>>
  BY DEF Wire!Sender, Wire!Send, Wire!SendFails, Wire!CloseSend
<1>4. put' \in 0 .. Messages /\ input' \in 0 .. Wire!Capacity
  BY <1>2, <1>3 DEF WireInv, Wire!TypeOK
<1>5. Wire!TypeOK'
  BY <1>1, <1>2, <1>4 DEF WireInv, Wire!TypeOK
<1> QED
  BY <1>1, <1>5 DEF WireInv, LinesHeard, StoppedWell, Wire!Gone

(* The adapter adds a line, takes one or exits, and is killed with one.    *)
LEMMA WireSpeaks ==
  ASSUME Wire!WireAssumption, WireInv, Wire!Adapter \/ Wire!Killed PROVE WireInv'
<1>1. UNCHANGED <<wkind, wsender, put, shut, reader, heard, garbled, wresult>> /\ ~Wire!Gone
  BY DEF Wire!Adapter, Wire!Choose, Wire!AdapterReads, Wire!AdapterWrites, Wire!Killed,
         Wire!sendVars, Wire!readVars, Wire!Gone
<1>2. MaxLines \in Nat /\ Wire!Capacity \in Nat /\ Wire!Capacity' = Wire!Capacity
  BY <1>1 DEF Wire!WireAssumption, Wire!Capacity
<1>3. /\ output \in Seq({"good", "bad"}) /\ Len(output) \in Nat /\ Len(output) <= Wire!Capacity
      /\ lines \in 0 .. MaxLines /\ heard \in 0 .. MaxLines /\ input \in 0 .. Wire!Capacity
      /\ line \in {"good", "bad"} /\ code \in {"ok", "error"} /\ drained \in BOOLEAN
  BY DEF WireInv, Wire!TypeOK
<1>4. \/ /\ lines' = lines + 1 /\ Len(output) < Wire!Capacity /\ adapter = "writing"
         /\ \E l \in {"good", "bad"} : output' = Append(output, l)
      \/ UNCHANGED <<lines, output>>
  BY <1>3 DEF Wire!Adapter, Wire!Choose, Wire!AdapterReads, Wire!AdapterWrites, Wire!Killed
<1>5. /\ output' \in Seq({"good", "bad"}) /\ Len(output') <= Wire!Capacity
      /\ lines' \in 0 .. MaxLines /\ Len(output') - Len(output) = lines' - lines
      /\ Len(output') \in Nat
  <2>1. CASE UNCHANGED <<lines, output>>
    BY <1>3, <2>1
  <2>2. CASE /\ lines' = lines + 1 /\ Len(output) < Wire!Capacity /\ adapter = "writing"
             /\ \E l \in {"good", "bad"} : output' = Append(output, l)
    <3>1. PICK l \in {"good", "bad"} : output' = Append(output, l)
      BY <2>2
    <3>2. output' \in Seq({"good", "bad"}) /\ Len(output') = Len(output) + 1
      BY <1>3, <3>1
    <3>3. lines < MaxLines
      BY <2>2 DEF WireInv, LinesHeard
    <3> QED
      BY <1>2, <1>3, <2>2, <3>2, <3>3
  <2> QED
    BY <1>4, <2>1, <2>2
<1>6. input' \in 0 .. Wire!Capacity /\ drained' \in BOOLEAN
  <2>1. input' = input \/ (input > 0 /\ input' = input - 1)
    BY DEF Wire!Adapter, Wire!Choose, Wire!AdapterReads, Wire!AdapterWrites, Wire!Killed
  <2>2. drained' = drained \/ drained' = TRUE
    BY DEF Wire!Adapter, Wire!Choose, Wire!AdapterReads, Wire!AdapterWrites, Wire!Killed
  <2>3. input' \in 0 .. Wire!Capacity
    BY <1>2, <1>3, <2>1
  <2> QED
    BY <1>3, <2>2, <2>3
<1>7. /\ line' \in {"good", "bad"} /\ code' \in {"ok", "error"}
      /\ adapter' \in {"free", "reading", "writing", "exited"}
      /\ adapter' = "writing" => lines' = lines /\ lines < MaxLines
  BY <1>3 DEF Wire!Adapter, Wire!Choose, Wire!AdapterReads, Wire!AdapterWrites, Wire!Killed,
              Wire!Gone
<1>8. Wire!TypeOK'
  BY <1>1, <1>2, <1>5, <1>6, <1>7 DEF WireInv, Wire!TypeOK
<1>9. LinesHeard'
  BY <1>1, <1>3, <1>5, <1>7 DEF WireInv, LinesHeard
<1>10. StoppedWell'
  BY <1>1 DEF WireInv, StoppedWell
<1> QED
  BY <1>8, <1>9, <1>10 DEF WireInv

(* The runner takes a line, or stops at the end of the stream.             *)
LEMMA WireHears == ASSUME Wire!WireAssumption, WireInv, Wire!Runner PROVE WireInv'
<1>1. UNCHANGED <<wkind, wsender, put, shut, input, adapter, drained, line, lines, code>>
  BY DEF Wire!Runner, Wire!Hear, Wire!EndOfStream, Wire!Wait, Wire!Join, Wire!sendVars,
         Wire!adapterVars
<1>2. MaxLines \in Nat /\ Wire!Capacity \in Nat /\ Wire!Capacity' = Wire!Capacity
  BY <1>1 DEF Wire!WireAssumption, Wire!Capacity
<1>3. /\ output \in Seq({"good", "bad"}) /\ Len(output) \in Nat /\ Len(output) <= Wire!Capacity
      /\ lines \in 0 .. MaxLines /\ heard \in 0 .. MaxLines /\ garbled \in BOOLEAN
      /\ code \in {"ok", "error"}
  BY DEF WireInv, Wire!TypeOK
<1>4. CASE Wire!Hear
  <2>1. /\ reader = "reading" /\ output # <<>> /\ output' = Tail(output)
        /\ \/ heard' = heard + 1 /\ UNCHANGED <<reader, garbled, wresult>>
           \/ garbled' = TRUE /\ reader' = "waiting" /\ UNCHANGED <<heard, wresult>>
    BY <1>4 DEF Wire!Hear, Wire!Listens
  <2>2. output' \in Seq({"good", "bad"}) /\ Len(output') = Len(output) - 1 /\ Len(output) >= 1
    BY <1>3, <2>1
  <2>3. LinesHeard' /\ heard' \in 0 .. MaxLines
    BY <1>1, <1>2, <1>3, <2>1, <2>2 DEF WireInv, LinesHeard
  <2>4. StoppedWell'
    BY <1>1, <2>1 DEF WireInv, StoppedWell
  <2>5. Wire!TypeOK'
    <3>1. Len(output') <= Wire!Capacity
      BY <1>2, <1>3, <2>2
    <3>4. garbled' \in BOOLEAN
      BY <1>3, <2>1, Zenon
    <3>2. reader' \in {"reading", "waiting"} /\ wresult' = wresult
      BY <2>1
    <3>3. Wire!TypeOK
      BY DEF WireInv
    <3> QED
      BY <1>1, <1>2, <2>2, <2>3, <3>1, <3>2, <3>3, <3>4, ZenonT(30)
         DEF Wire!TypeOK
  <2> QED
    BY <2>3, <2>4, <2>5 DEF WireInv
<1>5. CASE Wire!EndOfStream \/ Wire!Wait \/ Wire!Join
  <2>1. /\ UNCHANGED <<output, heard, garbled>> /\ reader' \in {"waiting", "joining", "over"}
        /\ wresult' \in {wresult, "ok", "crashed"}
    BY <1>5 DEF Wire!EndOfStream, Wire!Wait, Wire!Join
  <2>2. LinesHeard'
    BY <1>1, <2>1 DEF WireInv, LinesHeard
  <2>3. StoppedWell'
    BY <1>1, <1>3, <1>5, <2>1
       DEF Wire!EndOfStream, Wire!Wait, Wire!Join, WireInv, StoppedWell, Wire!Gone
  <2>4. Wire!TypeOK'
    BY <1>1, <1>2, <1>3, <2>1 DEF WireInv, Wire!TypeOK
  <2> QED
    BY <2>2, <2>3, <2>4 DEF WireInv
<1> QED
  BY <1>4, <1>5 DEF Wire!Runner

(* Every step keeps the invariant.                                         *)
LEMMA WireNext == ASSUME Wire!WireAssumption, WireInv, [Wire!Next]_(Wire!wvars) PROVE WireInv'
<1>1. CASE UNCHANGED Wire!wvars
  BY <1>1 DEF Wire!wvars, Wire!sendVars, Wire!adapterVars, Wire!readVars, WireInv, Wire!TypeOK,
              Wire!Capacity, LinesHeard, StoppedWell, Wire!Gone
<1>2. CASE Wire!Next
  BY <1>2, WireSends, WireSpeaks, WireHears DEF Wire!Next
<1> QED
  BY <1>1, <1>2

(* The inductive invariant of a session's pipes holds always.              *)
THEOREM WireInvariance == ASSUME Wire!WireAssumption PROVE Wire!Spec => []WireInv
<1>1. Wire!Init => WireInv
  BY WireInit
<1>2. WireInv /\ [Wire!Next]_(Wire!wvars) => WireInv'
  BY WireNext
<1> QED
  BY <1>1, <1>2, PTL DEF Wire!Spec

(* What it says of a session that is over.                                 *)
LEMMA WireKept == ASSUME WireInv PROVE Wire!EndsTruthfully
<1>1. heard \in Int /\ lines \in Int /\ (output = <<>> => Len(output) = 0)
  BY DEF WireInv, Wire!TypeOK
<1> QED
  BY <1>1 DEF WireInv, LinesHeard, StoppedWell, Wire!EndsTruthfully

(* A session that is over ended well only if its adapter exited well and   *)
(* no line was bad, and then every line it wrote was taken, however many   *)
(* messages and lines there are and whatever a pipe holds (session.go,     *)
(* protocol.go).                                                           *)
THEOREM WireIsTruthful == ASSUME Wire!WireAssumption PROVE Wire!Spec => []Wire!EndsTruthfully
<1>1. WireInv => Wire!EndsTruthfully
  BY WireKept
<1> QED
  BY <1>1, WireInvariance, PTL
===============================================================================
