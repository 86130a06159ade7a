------------------------------- MODULE Intake -------------------------------
(***************************************************************************)
(* How records enter a run (runSource in internal/runner/runner.go): the   *)
(* rows of a source session, each resolved to an identity, its fields      *)
(* written, the record added, the identities it refers to related; or the  *)
(* members of a group, all or those this pipeline has not finished (once:) *)
(* under a limit. The process may be killed and the session may fail       *)
(* between any two writes; a resume runs a source that left no done event  *)
(* again, from the start, over what the vendor or the group holds by then. *)
(*                                                                         *)
(* A row is [valid, keys, given, company]: whether it passes the contract  *)
(* and the registry, the keys its fields yield, the key the adapter states *)
(* beside them, and the company it works at.                               *)
(***************************************************************************)
EXTENDS Integers, Sequences, FiniteSets, Picks

CONSTANTS
  Kinds,       \* the sources: "adapter", "group", "once"
  Keys,        \* the keys of persons, strongest first
  Companies,   \* the companies a row may name
  Tables,      \* what a source session may emit: sequences of rows
  Limit,       \* limit: of a group source, 0 for none
  Books,       \* the groups there may be: sequences of identities, oldest first
  MaxIds,      \* bound: identities
  MaxBreaks,   \* bound: kills and failed sessions
  MaxChanges   \* bound: changes to the group or its finished records by others

VARIABLES
  kind,        \* the source of this pipeline
  owner,       \* the identity a key points at, 0 if none
  minted,      \* the identities that exist: 1..minted
  company,     \* the company field of an identity, as written last
  edges,       \* relations: pairs of an identity and a company
  members,     \* run_records
  done,        \* the source's done event: its records, or NotDone
  pc,          \* what the process does next
  table,       \* what the session emits, or the selection
  pos,         \* rows of it dealt with
  ident,       \* the identity of the row being ingested
  count,       \* rows that became records in this process
  merged,      \* rows that coalesced in this process
  book,        \* the group's members, oldest added first
  finished,    \* what this pipeline's earlier runs finished
  changes, breaks, \* bounded counters
  before,      \* history: members when this process began
  cut,         \* history: identities whose row was cut short before its references
  absorbed,    \* history: identity and company of the rows that coalesced
  bare         \* history: company fields that name no key

intakeVars == <<kind, owner, minted, company, edges, members, done, pc, table, pos, ident,
                count, merged, book, finished, changes, breaks, before, cut, absorbed, bare>>
ledger == <<owner, minted, company, edges>>
others == <<kind, book, finished, changes>>
history == <<before, cut, absorbed, bare>>

NoKey == "no key"
NoCompany == "no company"
NotDone == -1
Ids == 1..MaxIds
SetOf(s) == {s[i] : i \in DOMAIN s}
Row == [valid : BOOLEAN, keys : SUBSET SetOf(Keys), given : SetOf(Keys) \cup {NoKey},
        company : Companies \cup {NoCompany}]

IntakeAssumption ==
  /\ Kinds \subseteq {"adapter", "group", "once"}
  /\ Keys \in Seq(SetOf(Keys)) /\ NoKey \notin SetOf(Keys) /\ NoCompany \notin Companies
  /\ Tables \subseteq Seq(Row)
  /\ \A b \in Books : b \in Seq(Ids) /\ \A i, j \in DOMAIN b : b[i] = b[j] => i = j
  /\ {Limit, MaxIds, MaxBreaks, MaxChanges} \subseteq Nat

Init ==
  /\ kind \in Kinds /\ book \in Books /\ finished = {}
  /\ owner = [k \in SetOf(Keys) |-> 0]
  /\ minted = IF kind = "adapter" THEN 0 ELSE MaxIds
  /\ company = [i \in Ids |-> NoCompany] /\ edges = {} /\ members = {} /\ done = NotDone
  /\ pc = "down" /\ table = <<>> /\ pos = 0 /\ ident = 0 /\ count = 0 /\ merged = 0
  /\ changes = 0 /\ breaks = 0 /\ before = 0 /\ cut = {} /\ absorbed = {} /\ bare = {}

-----------------------------------------------------------------------------
(* What the ledger resolves.                                               *)

\* resolveKey over the candidates: the strongest key that is known.
Known(keys) == {i \in DOMAIN Keys : Keys[i] \in keys /\ owner[Keys[i]] # 0}
Resolved(keys) ==
  IF Known(keys) = {} THEN minted + 1
  ELSE owner[Keys[CHOOSE i \in Known(keys) : \A j \in Known(keys) : i <= j]]

\* UpsertIdentity by the fields, else EnsureIdentity by the stated key.
KeysOf(row) == IF row.keys # {} THEN row.keys ELSE {row.given} \ {NoKey}

-----------------------------------------------------------------------------
(* The source adapter.                                                     *)

\* Mutant of Sourced: a run that has records has been sourced.
SourcedIfAny == members # {}

\* StepEventSeen: the done event, which is the last thing a source writes.
Sourced == done # NotDone

\* A process begins, the first of the run or a resume.
Begin ==
  /\ pc = "down"
  /\ IF Sourced THEN pc' = "over" /\ UNCHANGED <<table, before>>
     ELSE /\ before' = Cardinality(members)
          /\ IF kind = "adapter" THEN pc' = "row" /\ table' \in Tables
             ELSE pc' = "select" /\ UNCHANGED table
  /\ pos' = 0 /\ ident' = 0 /\ count' = 0 /\ merged' = 0
  /\ UNCHANGED <<ledger, others, members, done, breaks, cut, absorbed, bare>>

row == table[pos + 1]
Deal == pos' = pos + 1 /\ pc' = "row"

\* ValidateProvides, checkRegistry, a row without a key: dropped with an event.
Drop ==
  /\ pc = "row" /\ kind = "adapter" /\ pos < Len(table)
  /\ ~row.valid \/ KeysOf(row) = {}
  /\ Deal
  /\ UNCHANGED <<ledger, others, members, done, table, ident, count, merged, breaks, history>>

\* UpsertIdentity and WriteFieldMap: the row is in the ledger, not in the run.
Write ==
  LET i == Resolved(KeysOf(row)) IN
  /\ pc = "row" /\ kind = "adapter" /\ pos < Len(table)
  /\ row.valid /\ KeysOf(row) # {} /\ i \in Ids
  /\ minted' = IF i > minted THEN i ELSE minted
  /\ owner' = [k \in SetOf(Keys) |-> IF k \in KeysOf(row) /\ owner[k] = 0 THEN i ELSE owner[k]]
  /\ company' = IF row.company = NoCompany THEN company ELSE [company EXCEPT ![i] = row.company]
  /\ ident' = i /\ pc' = "add"
  /\ UNCHANGED <<edges, others, members, done, table, pos, count, merged, breaks, history>>

\* AddRunRecord, and the coalesced event of a row whose record is there.
Add ==
  /\ pc = "add"
  /\ members' = members \cup {ident}
  /\ IF ident \in members
     THEN /\ merged' = merged + 1 /\ Deal
          /\ absorbed' = absorbed \cup {<<ident, row.company>>}
          /\ UNCHANGED <<count>>
     ELSE /\ pc' = "refer"
          /\ UNCHANGED <<count, merged, pos, absorbed>>
  /\ UNCHANGED <<ledger, others, done, table, ident, breaks, before, cut, bare>>

\* writeReferences: the company is minted and related, unless its value is no
\* key of a company.
Refer ==
  /\ pc = "refer"
  /\ \/ /\ edges' = IF row.company = NoCompany THEN edges ELSE edges \cup {<<ident, row.company>>}
        /\ UNCHANGED bare
     \/ /\ row.company # NoCompany /\ bare' = bare \cup {row.company} /\ UNCHANGED edges
  /\ count' = count + 1 /\ Deal
  /\ UNCHANGED <<owner, minted, company, others, members, done, table, ident, merged, breaks,
                 before, cut, absorbed>>

-----------------------------------------------------------------------------
(* The group source.                                                       *)

\* GroupMembersOldest and onceSelection: the drop first, the cap after it.
Eligible == Picked(book, {j \in DOMAIN book : kind = "once" => book[j] \notin finished})
Selection == IF Limit > 0 /\ Limit < Len(Eligible) THEN SubSeq(Eligible, 1, Limit) ELSE Eligible

Select ==
  /\ pc = "select" /\ table' = Selection /\ pc' = "row"
  /\ UNCHANGED <<ledger, others, members, done, pos, ident, count, merged, breaks, history>>

Take ==
  /\ pc = "row" /\ kind # "adapter" /\ pos < Len(table)
  /\ members' = members \cup {row} /\ count' = count + 1 /\ Deal
  /\ UNCHANGED <<ledger, others, done, table, ident, merged, breaks, history>>

-----------------------------------------------------------------------------
(* The end of the source, and the end of the process.                      *)

\* The session ended well: the done event.
Finish ==
  /\ pc = "row" /\ pos = Len(table)
  /\ done' = count /\ pc' = "over"
  /\ UNCHANGED <<ledger, others, members, table, pos, ident, count, merged, breaks, history>>

\* The process dies, or the session fails and the run with it; or its steps
\* stop, once all is sourced.
Break ==
  /\ pc # "down" /\ breaks < MaxBreaks /\ breaks' = breaks + 1
  /\ pc' = "down" /\ cut' = IF pc \in {"add", "refer"} THEN cut \cup {ident} ELSE cut
  /\ UNCHANGED <<ledger, others, members, done, table, pos, ident, count, merged, before,
                 absorbed, bare>>

\* A write of the references fails: the row counts as dropped, its record stays.
ReferFails ==
  /\ pc = "refer" /\ row.company # NoCompany /\ breaks < MaxBreaks /\ breaks' = breaks + 1
  /\ cut' = cut \cup {ident} /\ Deal
  /\ UNCHANGED <<ledger, others, members, done, table, ident, count, merged, before, absorbed,
                 bare>>

\* Others: a member joins or leaves, another run of the pipeline finishes one.
Change ==
  /\ kind # "adapter" /\ changes < MaxChanges /\ changes' = changes + 1
  /\ \/ \E i \in Ids \ SetOf(book) : book' = Append(book, i) /\ UNCHANGED finished
     \/ \E j \in DOMAIN book : book' = Picked(book, DOMAIN book \ {j}) /\ UNCHANGED finished
     \/ \E i \in SetOf(book) \ finished : finished' = finished \cup {i} /\ UNCHANGED book
  /\ UNCHANGED <<kind, ledger, members, done, pc, table, pos, ident, count, merged, breaks,
                 history>>

Next ==
  \/ Begin \/ Drop \/ Write \/ Add \/ Refer \/ Select \/ Take
  \/ Finish \/ Break \/ ReferFails \/ Change

Spec == Init /\ [][Next]_intakeVars

-----------------------------------------------------------------------------
(* Properties.                                                             *)

TypeOK ==
  /\ kind \in Kinds /\ owner \in [SetOf(Keys) -> 0..MaxIds] /\ minted \in 0..MaxIds
  /\ company \in [Ids -> Companies \cup {NoCompany}] /\ edges \subseteq Ids \X Companies
  /\ members \subseteq Ids /\ done \in Nat \cup {NotDone}
  /\ pc \in {"down", "row", "add", "refer", "select", "over"}
  /\ pos \in 0..Len(table) /\ ident \in 0..MaxIds /\ {count, merged, before} \subseteq Nat
  /\ book \in Seq(Ids) /\ finished \subseteq Ids
  /\ changes \in 0..MaxChanges /\ breaks \in 0..MaxBreaks
  /\ cut \subseteq Ids /\ absorbed \subseteq Ids \X (Companies \cup {NoCompany})
  /\ bare \subseteq Companies

\* The steps of a run begin only when every row of a whole session of its
\* source is in it: each valid row's strongest key leads to a record.
NobodyMissing ==
  pc = "over" /\ kind = "adapter" =>
    \A i \in DOMAIN table : table[i].valid /\ KeysOf(table[i]) # {} =>
      owner[Keys[CHOOSE k \in DOMAIN Keys :
              /\ Keys[k] \in KeysOf(table[i])
              /\ \A j \in 1..(k - 1) : Keys[j] \notin KeysOf(table[i])]] \in members

\* What a record says of its company is what it is related to. The code keeps
\* this only for the row that adds the record: the company of one that
\* coalesces, or is cut short before it is related, has no edge.
RelatedAsSaid ==
  \A i \in members : pc \in {"row", "over"} /\ company[i] # NoCompany =>
    \/ <<i, company[i]>> \in edges
    \/ i \in cut \/ <<i, company[i]>> \in absorbed \/ company[i] \in bare

\* The done event's count, which the mirror shows as what the source brought
\* in: the records that are new since the process began, for an adapter; the
\* whole selection, for a group.
CountsTheRun ==
  /\ done # NotDone /\ kind = "adapter" /\ cut = {} => done = Cardinality(members) - before
  /\ done # NotDone /\ kind # "adapter" /\ breaks = 0 => done = Cardinality(members)
  /\ pc # "over" /\ kind = "adapter" => merged + count <= pos

\* A group source takes no more than its limit, and under once: nobody that
\* this pipeline had finished when it chose, unless a break made it choose
\* twice: then the records of both choices stay.
WithinLimit ==
  /\ Limit > 0 /\ kind # "adapter" /\ breaks = 0 => Cardinality(members) <= Limit
  /\ kind # "adapter" /\ pc = "over" => SetOf(table) \subseteq members

IntakeHolds == NobodyMissing /\ RelatedAsSaid /\ CountsTheRun /\ WithinLimit
=============================================================================
