----------------------------- MODULE MachineProofs ----------------------------
(***************************************************************************)
(* Proofs about machines that share no state: suppress: on a group         *)
(* (Suppression), a traverse step (Traverse), an adapter's installation    *)
(* (Install), the file of the csv adapter (CsvFile), the judgment cache    *)
(* (Judgment), the registry of types (Types), a run's bundle (Bundle) and  *)
(* what gtme plan accepts (Plan), each for any values of its constants.    *)
(* Variables have the names MCParts gives them.                            *)
(***************************************************************************)
EXTENDS Integers, Sequences, FiniteSetTheorems, WellFoundedInduction, TLAPS

CONSTANTS
  \* Suppression
  Senders, Contacts, Window, MaxClock,
  \* Traverse
  Nodes, Parents, Offers, MaxStarts,
  \* Install
  Kinds, Files, Content, Sound, MaxKills,
  \* CsvFile
  Sessions, ProcessOf, FileSystems, RowsEach, MaxFaults,
  \* Judgment
  Roles, Questions, Facts, Provides, Cache, JudgmentClock, MaxChanges, MaxEvents, MaxRows,
  \* Types
  Names, Embedded, Documents, MaxFiles,
  \* Bundle
  Pipelines, KindOf, Flat(_), Named(_, _), ShipsType, Versions, MaxUpdates,
  \* Plan
  Types, Signals, Fields, Uses, Manifest, Texts, Terminus, Groups, GroupTypes, MaxSteps

VARIABLES
  \* Suppression
  sender, clock, touched, shots, unseen,
  \* Traverse
  place, segment, related, finished, failed, stops, phase, queue, emitting, open_at, starts,
  dropped, absorbed, undone,
  \* Install
  ikind, ihead, irow, disk, verb, ipc, ifetched, itodo, ikills, iverified, itorn, imixed,
  \* CsvFile
  fs, exists, clines, mutex, flocks, cat, size, csent, acked, denied, faults, creator, lost,
  headless, blind,
  \* Judgment
  role, question, facts, now, rows, done, token, work, passed, left, calls,
  \* Types
  found, byEntity, problems, shipped, bound,
  \* Bundle
  pipeline, here, there, files, btodo, folder, bpc, resolved, texts, updates, frozen,
  \* Plan
  psteps, avail, wild, ptype, leg, stage, walked, rtype, has, judged, gtypes, lacking, turned

Suppression == INSTANCE Suppression
Traverse    == INSTANCE Traverse
Install     == INSTANCE Install WITH
  kind <- ikind, head <- ihead, row <- irow, pc <- ipc, fetched <- ifetched, todo <- itodo,
  kills <- ikills, verified <- iverified, torn <- itorn, mixed <- imixed
CsvFile     == INSTANCE CsvFile WITH lines <- clines, at <- cat, sent <- csent
Judgment    == INSTANCE Judgment WITH MaxClock <- JudgmentClock
TypeFiles   == INSTANCE Types
Bundle      == INSTANCE Bundle WITH todo <- btodo, pc <- bpc
Plan        == INSTANCE Plan WITH steps <- psteps

-----------------------------------------------------------------------------
(* Suppression.                                                            *)

Sending(q, i) == sender[q].pc # "idle" /\ sender[q].id = i

(* A sender at work has a contact.                                         *)
HasContact == \A q \in Senders : sender[q].pc # "idle" => sender[q].id \in Contacts

(* A contact is with one sender, or some send to it was not seen.          *)
OneSender == \A i \in Contacts \ unseen : \A p, q \in Senders :
  Sending(p, i) /\ Sending(q, i) => p = q

(* Every send is recorded, no earlier than it left, or about to be.        *)
Recorded == \A i \in Contacts \ unseen : \A s \in shots[i] :
  \/ \E t \in touched[i] : s <= t
  \/ \E q \in Senders : sender[q].pc = "touch" /\ sender[q].id = i

(* What was found outside the window stays there until the send leaves.    *)
StillOutside == \A i \in Contacts \ unseen : \A q \in Senders :
  sender[q].pc = "send" /\ sender[q].id = i => ~Suppression!Suppressed(i)

SuppressionInv == /\ Suppression!TypeOK /\ Suppression!WindowHolds
                  /\ HasContact /\ OneSender /\ Recorded /\ StillOutside

LEMMA SuppressionInit ==
  ASSUME Suppression!SuppressionAssumption, Suppression!Init PROVE SuppressionInv
BY DEF Suppression!SuppressionAssumption, Suppression!Init, SuppressionInv, Suppression!TypeOK,
   HasContact, OneSender, Recorded, StillOutside, Suppression!WindowHolds, Suppression!Resting,
   Sending

(* Who was found outside the window has every earlier send outside it.     *)
LEMMA Outside ==
  ASSUME Suppression!SuppressionAssumption, SuppressionInv,
         NEW i \in Contacts \ unseen, NEW q \in Senders,
         sender[q].pc = "send", sender[q].id = i, NEW s \in shots[i]
  PROVE  clock - s > Window
<1>1. \A p \in Senders : ~(sender[p].pc = "touch" /\ sender[p].id = i)
  BY DEF SuppressionInv, OneSender, Sending
<1>2. PICK t \in touched[i] : s <= t
  BY <1>1 DEF SuppressionInv, Recorded
<1>3. ~(clock - t <= Window)
  BY <1>2 DEF SuppressionInv, StillOutside, Suppression!Suppressed
<1>4. s \in 0 .. clock /\ t \in 0 .. clock /\ clock \in Nat /\ Window \in Nat
  BY <1>2 DEF SuppressionInv, Suppression!TypeOK, Suppression!SuppressionAssumption
<1> QED
  BY <1>2, <1>3, <1>4

LEMMA SuppressionNext ==
  ASSUME Suppression!SuppressionAssumption, SuppressionInv,
        [Suppression!Next]_(Suppression!spvars)
  PROVE  SuppressionInv'
<1> USE DEF SuppressionInv, Sending
<1>1. clock \in Nat /\ Window \in Nat /\ MaxClock \in Nat
  BY DEF Suppression!TypeOK, Suppression!SuppressionAssumption
<1>2. /\ \A q \in Senders : sender[q].pc \in {"idle", "send", "touch"}
      /\ \A i \in Contacts : touched[i] \in SUBSET (0 .. clock)
         /\ shots[i] \in SUBSET (0 .. clock)
  BY DEF Suppression!TypeOK
<1>3. ASSUME Suppression!Tick PROVE SuppressionInv'
  <2> USE DEF Suppression!Tick
  <2>1. Suppression!TypeOK'
    BY <1>1, <1>3 DEF Suppression!TypeOK
  <2>2. HasContact' /\ OneSender' /\ Recorded' /\ Suppression!WindowHolds'
    BY <1>3 DEF HasContact, OneSender, Recorded, Suppression!WindowHolds
  <2>3. StillOutside'
    BY <1>1, <1>2, <1>3 DEF StillOutside, Suppression!Suppressed
  <2> QED
    BY <2>1, <2>2, <2>3
<1>4. ASSUME NEW q \in Senders, NEW i \in Contacts, Suppression!Prepare(q, i)
      PROVE SuppressionInv'
  <2> USE <1>4 DEF Suppression!Prepare
  <2>1. Suppression!TypeOK'
    BY DEF Suppression!TypeOK
  <2>2. /\ sender'[q] = [pc |-> "send", id |-> i]
        /\ \A p \in Senders \ {q} : sender'[p] = sender[p]
        /\ UNCHANGED <<clock, touched, shots>> /\ unseen \subseteq unseen'
        /\ i \notin unseen' => \A p \in Senders : sender[p].id # i
    BY DEF Suppression!TypeOK
  <2>3. HasContact' /\ OneSender' /\ Suppression!WindowHolds'
    BY <2>2 DEF HasContact, OneSender, Suppression!WindowHolds
  <2>4. Recorded'
    BY <2>2 DEF Recorded
  <2>5. StillOutside'
    BY <2>2 DEF StillOutside, Suppression!Suppressed
  <2> QED
    BY <2>1, <2>3, <2>4, <2>5
<1>5. ASSUME NEW q \in Senders, Suppression!Send(q) PROVE SuppressionInv'
  <2> USE <1>5 DEF Suppression!Send
  <2> DEFINE i == sender[q].id
  <2>0. i \in Contacts
    BY DEF HasContact
  <2>1. Suppression!TypeOK'
    BY <1>1, <2>0 DEF Suppression!TypeOK
  <2>2. /\ sender'[q].pc = "touch" /\ sender'[q].id = i
        /\ \A p \in Senders \ {q} : sender'[p] = sender[p]
        /\ UNCHANGED <<clock, touched, unseen>>
        /\ shots'[i] = shots[i] \cup {clock}
        /\ \A j \in Contacts \ {i} : shots'[j] = shots[j]
    BY <2>0 DEF Suppression!TypeOK
  <2> HIDE DEF i
  <2>3. HasContact' /\ OneSender'
    BY <2>0, <2>2 DEF HasContact, OneSender, i
  <2>4. Recorded'
    BY <2>0, <2>2 DEF Recorded
  <2>5. StillOutside'
    BY <2>2 DEF StillOutside, Suppression!Suppressed
  <2>6. Suppression!WindowHolds'
    <3>1. i \notin unseen => \A s \in shots[i] : clock - s > Window
      BY <2>0, Outside DEF i
    <3>2. \A j \in Contacts \ unseen : \A s, t \in shots'[j] : s < t => t - s > Window
      BY <1>1, <1>2, <2>0, <2>2, <3>1 DEF Suppression!WindowHolds
    <3> QED
      BY <2>2, <3>2 DEF Suppression!WindowHolds
  <2> QED
    BY <2>1, <2>3, <2>4, <2>5, <2>6
<1>6. ASSUME NEW q \in Senders, Suppression!Touch(q) PROVE SuppressionInv'
  <2> USE <1>6 DEF Suppression!Touch
  <2> DEFINE i == sender[q].id
  <2>0. i \in Contacts
    BY DEF HasContact
  <2>1. Suppression!TypeOK'
    BY <1>1, <2>0 DEF Suppression!TypeOK, Suppression!Resting
  <2>2. /\ sender'[q].pc = "idle"
        /\ \A p \in Senders \ {q} : sender'[p] = sender[p]
        /\ UNCHANGED <<clock, shots, unseen>>
        /\ touched'[i] = touched[i] \cup {clock}
        /\ \A j \in Contacts \ {i} : touched'[j] = touched[j]
    BY <2>0 DEF Suppression!TypeOK, Suppression!Resting
  <2>3. sender[q].pc = "touch"
    OBVIOUS
  <2> HIDE DEF i
  <2>4. HasContact' /\ OneSender' /\ Suppression!WindowHolds'
    BY <2>2 DEF HasContact, OneSender, Suppression!WindowHolds
  <2>5. Recorded'
    <3> SUFFICES ASSUME NEW j \in Contacts \ unseen, NEW s \in shots[j]
                 PROVE  \/ \E t \in touched'[j] : s <= t
                        \/ \E p \in Senders : sender'[p].pc = "touch" /\ sender'[p].id = j
      BY <2>2 DEF Recorded
    <3>1. CASE j = i
      BY <1>1, <1>2, <2>2, <3>1
    <3>2. CASE j # i
      <4>1. CASE \E t \in touched[j] : s <= t
        BY <2>2, <3>2, <4>1
      <4>2. CASE \E p \in Senders : sender[p].pc = "touch" /\ sender[p].id = j
        BY <2>2, <3>2, <4>2 DEF i
      <4> QED
        BY <4>1, <4>2 DEF Recorded
    <3> QED
      BY <3>1, <3>2
  <2>6. StillOutside'
    <3> SUFFICES ASSUME NEW j \in Contacts \ unseen, NEW p \in Senders,
                        sender'[p].pc = "send", sender'[p].id = j
                 PROVE  ~Suppression!Suppressed(j)'
      BY <2>2 DEF StillOutside
    <3>1. p # q /\ sender[p].pc = "send" /\ sender[p].id = j
      BY <2>2
    <3>2. j # i
      BY <2>3, <3>1 DEF OneSender, i
    <3> QED
      BY <2>2, <3>1, <3>2 DEF StillOutside, Suppression!Suppressed
  <2> QED
    BY <2>1, <2>4, <2>5, <2>6
<1>7. ASSUME NEW q \in Senders, Suppression!Drop(q) PROVE SuppressionInv'
  <2> USE <1>7 DEF Suppression!Drop
  <2> DEFINE i == sender[q].id
  <2>0. i \in Contacts
    BY DEF HasContact
  <2>1. Suppression!TypeOK'
    BY <2>0 DEF Suppression!TypeOK, Suppression!Resting
  <2>2. /\ sender'[q].pc = "idle"
        /\ \A p \in Senders \ {q} : sender'[p] = sender[p]
        /\ UNCHANGED <<clock, shots, touched>> /\ unseen' = unseen \cup {i}
    BY DEF Suppression!TypeOK, Suppression!Resting
  <2> HIDE DEF i
  <2>3. HasContact' /\ OneSender' /\ Suppression!WindowHolds'
    BY <2>2 DEF HasContact, OneSender, Suppression!WindowHolds
  <2>4. Recorded' /\ StillOutside'
    BY <2>2 DEF Recorded, StillOutside, Suppression!Suppressed, i
  <2> QED
    BY <2>1, <2>3, <2>4
<1>8. ASSUME UNCHANGED Suppression!spvars PROVE SuppressionInv'
  BY <1>8 DEF Suppression!spvars, Suppression!TypeOK, HasContact, OneSender, Recorded,
     StillOutside, Suppression!WindowHolds, Suppression!Suppressed
<1> QED
  BY <1>3, <1>4, <1>5, <1>6, <1>7, <1>8 DEF Suppression!Next

(* The inductive invariant.                                                *)
THEOREM SuppressionInvariance ==
  ASSUME Suppression!SuppressionAssumption PROVE Suppression!Spec => []SuppressionInv
<1>1. Suppression!Init => SuppressionInv
  BY SuppressionInit
<1>2. SuppressionInv /\ [Suppression!Next]_(Suppression!spvars) => SuppressionInv'
  BY SuppressionNext
<1> QED
  BY <1>1, <1>2, PTL DEF Suppression!Spec

(* For any senders, contacts and window no two sends to a contact leave    *)
(* within the window, unless one was not seen by the other (ADR-021).      *)
THEOREM WindowIsKept ==
  ASSUME Suppression!SuppressionAssumption PROVE Suppression!Spec => []Suppression!WindowHolds
<1>1. SuppressionInv => Suppression!WindowHolds
  BY DEF SuppressionInv
<1> QED
  BY <1>1, SuppressionInvariance, PTL

-----------------------------------------------------------------------------
(* Traverse.                                                               *)

(* Sessions are open while the process is at the traverse, and only they   *)
(* emit.                                                                   *)
OnlyOpenEmit ==
  /\ open_at # {} => phase = "traverse"
  /\ phase \in {"dead", "done"} => queue = {}
  /\ \A p \in Nodes : emitting[p] \subseteq Offers[p] /\ (emitting[p] # {} => p \in open_at)

(* Whoever is in the segment is a child, and the step after takes whoever  *)
(* is in the segment and at the traverse.                                  *)
OfTheSegment ==
  /\ \A c \in segment : \E p \in Nodes : <<p, c>> \in related
  /\ phase = "after" => \A i \in queue : i \in segment /\ place[i] = 1

(* What a session has emitted has arrived, unless it was refused.          *)
Arrived == \A p \in open_at : \A c \in Offers[p] \ emitting[p] :
  <<p, c>> \notin dropped => c \in segment /\ place[c] >= 1

(* Who is still before the traverse has a turn to come or failed; once the *)
(* run came past it, whoever is dispatched again failed before.            *)
PastIt == \E i \in Nodes : place[i] = 2
TurnToCome ==
  /\ \A i \in Parents : place[i] >= 0
  /\ phase = "traverse" => \A i \in Nodes :
       place[i] = 0 /\ i \notin stops => i \in queue \cup open_at \cup failed
  /\ phase \in {"after", "done"} \/ PastIt => \A i \in Nodes :
       place[i] = 0 /\ i \notin stops => i \in failed
  /\ phase = "traverse" /\ PastIt => queue \cup open_at \subseteq failed /\ starts > 1
  /\ phase # "dead" \/ PastIt => starts > 0

(* The three parts of SegmentIsExact.                                      *)
OnlyChildren ==
  \A i \in Nodes : place[i] = 2 \/ i \in stops => \E p \in Nodes : <<p, i>> \in related
AllChildren  == \A p \in finished : \A c \in Offers[p] :
  <<p, c>> \notin dropped => c \in segment /\ place[c] >= 1
Traversed    == \A i \in Parents : place[i] >= 1 => i \in finished \/ i \in absorbed

TraverseInv ==
  /\ Traverse!TypeOK /\ OnlyOpenEmit /\ OfTheSegment /\ Arrived /\ TurnToCome
  /\ OnlyChildren /\ AllChildren /\ Traversed /\ Traverse!OnlyRetriesUndo

LEMMA TraverseInit ==
  ASSUME Traverse!TraverseAssumption, Traverse!Init PROVE TraverseInv
BY DEF Traverse!TraverseAssumption, Traverse!Init, Traverse!BEFORE, Traverse!HERE, Traverse!NEXT,
       Traverse!TypeOK, TraverseInv, OnlyOpenEmit, OfTheSegment, Arrived, PastIt, TurnToCome,
       OnlyChildren, AllChildren, Traversed, Traverse!OnlyRetriesUndo

LEMMA TraverseNext ==
  ASSUME Traverse!TraverseAssumption, TraverseInv, [Traverse!Next]_(Traverse!tvars)
  PROVE  TraverseInv'
<1> USE DEF Traverse!TraverseAssumption, Traverse!BEFORE, Traverse!HERE, Traverse!NEXT
<1>t. /\ Parents \subseteq Nodes /\ Offers \in [Nodes -> SUBSET Nodes]
      /\ place \in [Nodes -> {-1, 0, 1, 2}] /\ emitting \in [Nodes -> SUBSET Nodes]
      /\ segment \subseteq Nodes /\ finished \subseteq Nodes /\ failed \subseteq Nodes
      /\ stops \subseteq Nodes /\ queue \subseteq Nodes /\ open_at \subseteq Nodes
      /\ starts \in 0 .. MaxStarts
  BY DEF TraverseInv, Traverse!TypeOK
<1>i. /\ Traverse!TypeOK /\ OnlyOpenEmit /\ OfTheSegment /\ Arrived /\ TurnToCome
      /\ OnlyChildren /\ AllChildren /\ Traversed /\ Traverse!OnlyRetriesUndo
  BY DEF TraverseInv
<1>1. CASE Traverse!Start
  <2>1. Traverse!TypeOK'
    BY <1>t, <1>i, <1>1 DEF Traverse!Start, Traverse!Eligible, Traverse!TypeOK
  <2>2. OnlyOpenEmit' /\ OfTheSegment'
    BY <1>t, <1>i, <1>1 DEF Traverse!Start, Traverse!Eligible, OnlyOpenEmit, OfTheSegment
  <2>3. Arrived'
    BY <1>t, <1>i, <1>1 DEF Traverse!Start, Traverse!Eligible, Arrived, OnlyOpenEmit
  <2>4. TurnToCome'
    BY <1>t, <1>i, <1>1 DEF Traverse!Start, Traverse!Eligible, TurnToCome, PastIt, OnlyOpenEmit
  <2>5. OnlyChildren' /\ AllChildren' /\ Traversed' /\ Traverse!OnlyRetriesUndo'
    BY <1>t, <1>i, <1>1 DEF Traverse!Start, Traverse!Eligible, OnlyChildren, OfTheSegment,
       AllChildren, Arrived, Traversed, TurnToCome, OnlyOpenEmit, Traverse!OnlyRetriesUndo, PastIt
  <2> QED
    BY <2>1, <2>2, <2>3, <2>4, <2>5 DEF TraverseInv
<1>2. ASSUME NEW p \in Nodes, Traverse!Open(p) PROVE TraverseInv'
  <2>1. Traverse!TypeOK'
    BY <1>t, <1>i, <1>2 DEF Traverse!Open, Traverse!TypeOK
  <2>2. OnlyOpenEmit'
    BY <1>t, <1>i, <1>2 DEF Traverse!Open, OnlyOpenEmit
  <2>3. Arrived'
    BY <1>t, <1>i, <1>2 DEF Traverse!Open, Arrived, OnlyOpenEmit
  <2>4. TurnToCome'
    BY <1>t, <1>i, <1>2 DEF Traverse!Open, TurnToCome, PastIt, OnlyOpenEmit
  <2>5. OfTheSegment' /\ OnlyChildren' /\ AllChildren' /\ Traversed' /\ Traverse!OnlyRetriesUndo'
    BY <1>t, <1>i, <1>2 DEF Traverse!Open, OfTheSegment, OnlyOpenEmit, OnlyChildren,
       AllChildren, Arrived, Traversed, TurnToCome, Traverse!OnlyRetriesUndo, PastIt
  <2> QED
    BY <2>1, <2>2, <2>3, <2>4, <2>5 DEF TraverseInv
<1>3. ASSUME NEW p \in Nodes, NEW c \in Nodes, NEW cut \in 1 .. 3, Traverse!Join(p, c, cut)
      PROVE TraverseInv'
  <2>1. Traverse!TypeOK'
    BY <1>t, <1>i, <1>3 DEF Traverse!Join, Traverse!Gone, Traverse!Emitted, Traverse!TypeOK
  <2>2. OnlyOpenEmit'
    BY <1>t, <1>i, <1>3 DEF Traverse!Join, Traverse!Gone, Traverse!Emitted, OnlyOpenEmit
  <2>3. OfTheSegment'
    BY <1>t, <1>i, <1>3 DEF Traverse!Join, Traverse!Gone, Traverse!Emitted, OfTheSegment,
       OnlyOpenEmit
  <2>4. Arrived'
    BY <1>t, <1>i, <1>3 DEF Traverse!Join, Traverse!Gone, Traverse!Emitted, Arrived, OnlyOpenEmit
  <2>5. TurnToCome'
    BY <1>t, <1>i, <1>3 DEF Traverse!Join, Traverse!Gone, Traverse!Emitted, TurnToCome, PastIt,
       OnlyOpenEmit
  <2>6. OnlyChildren'
    BY <1>t, <1>i, <1>3 DEF Traverse!Join, Traverse!Gone, Traverse!Emitted, OnlyChildren,
       OfTheSegment
  <2>7. AllChildren'
    BY <1>t, <1>i, <1>3 DEF Traverse!Join, Traverse!Gone, Traverse!Emitted, AllChildren, Arrived
  <2>8. Traversed'
    BY <1>t, <1>i, <1>3 DEF Traverse!Join, Traverse!Gone, Traverse!Emitted, Traversed,
       TurnToCome, OfTheSegment, OnlyOpenEmit
  <2>9. Traverse!OnlyRetriesUndo'
    BY <1>t, <1>i, <1>3 DEF Traverse!Join, Traverse!Gone, Traverse!Emitted,
       Traverse!OnlyRetriesUndo, TurnToCome, PastIt, OnlyOpenEmit
  <2> QED
    BY <2>1, <2>2, <2>3, <2>4, <2>5, <2>6, <2>7, <2>8, <2>9 DEF TraverseInv
<1>4. ASSUME NEW p \in Nodes, NEW c \in Nodes, NEW cut \in 1 .. 3, Traverse!Coalesce(p, c, cut)
      PROVE TraverseInv'
  <2>1. Traverse!TypeOK'
    BY <1>t, <1>i, <1>4 DEF Traverse!Coalesce, Traverse!CoalescesTo, Traverse!Gone,
       Traverse!Emitted, Traverse!TypeOK
  <2>2. OnlyOpenEmit'
    BY <1>t, <1>i, <1>4 DEF Traverse!Coalesce, Traverse!CoalescesTo, Traverse!Gone,
       Traverse!Emitted, OnlyOpenEmit
  <2>3. OfTheSegment'
    BY <1>t, <1>i, <1>4 DEF Traverse!Coalesce, Traverse!CoalescesTo, Traverse!Gone,
       Traverse!Emitted, OfTheSegment, OnlyOpenEmit
  <2>4. Arrived'
    BY <1>t, <1>i, <1>4 DEF Traverse!Coalesce, Traverse!CoalescesTo, Traverse!Gone,
       Traverse!Emitted, Arrived, OnlyOpenEmit
  <2>5. TurnToCome'
    BY <1>t, <1>i, <1>4 DEF Traverse!Coalesce, Traverse!CoalescesTo, Traverse!Gone,
       Traverse!Emitted, TurnToCome, PastIt, OnlyOpenEmit
  <2>6. OnlyChildren'
    BY <1>t, <1>i, <1>4 DEF Traverse!Coalesce, Traverse!CoalescesTo, Traverse!Gone,
       Traverse!Emitted, OnlyChildren, OfTheSegment
  <2>7. AllChildren'
    BY <1>t, <1>i, <1>4 DEF Traverse!Coalesce, Traverse!CoalescesTo, Traverse!Gone,
       Traverse!Emitted, AllChildren, Arrived
  <2>8. Traversed'
    BY <1>t, <1>i, <1>4 DEF Traverse!Coalesce, Traverse!CoalescesTo, Traverse!Gone,
       Traverse!Emitted, Traversed, TurnToCome, OfTheSegment, OnlyOpenEmit
  <2>9. Traverse!OnlyRetriesUndo'
    BY <1>t, <1>i, <1>4 DEF Traverse!Coalesce, Traverse!CoalescesTo, Traverse!Gone,
       Traverse!Emitted, Traverse!OnlyRetriesUndo, TurnToCome, PastIt, OnlyOpenEmit
  <2> QED
    BY <2>1, <2>2, <2>3, <2>4, <2>5, <2>6, <2>7, <2>8, <2>9 DEF TraverseInv
<1>5. ASSUME NEW p \in Nodes, NEW c \in Nodes, Traverse!Drop(p, c) PROVE TraverseInv'
  <2>1. Traverse!TypeOK'
    BY <1>t, <1>i, <1>5 DEF Traverse!Drop, Traverse!Emitted, Traverse!TypeOK
  <2>2. OnlyOpenEmit' /\ OfTheSegment'
    BY <1>t, <1>i, <1>5 DEF Traverse!Drop, Traverse!Emitted, OnlyOpenEmit, OfTheSegment
  <2>3. Arrived'
    BY <1>t, <1>i, <1>5 DEF Traverse!Drop, Traverse!Emitted, Arrived, OnlyOpenEmit
  <2>4. TurnToCome'
    BY <1>t, <1>i, <1>5 DEF Traverse!Drop, Traverse!Emitted, TurnToCome, PastIt, OnlyOpenEmit
  <2>5. OnlyChildren' /\ AllChildren' /\ Traversed' /\ Traverse!OnlyRetriesUndo'
    BY <1>t, <1>i, <1>5 DEF Traverse!Drop, Traverse!Emitted, OnlyChildren, OfTheSegment,
       AllChildren, Arrived, Traversed, TurnToCome, OnlyOpenEmit, Traverse!OnlyRetriesUndo, PastIt
  <2> QED
    BY <2>1, <2>2, <2>3, <2>4, <2>5 DEF TraverseInv
<1>6. ASSUME NEW p \in Nodes, NEW cut \in 1 .. 2, Traverse!Finish(p, cut) PROVE TraverseInv'
  <2>1. Traverse!TypeOK'
    BY <1>t, <1>i, <1>6 DEF Traverse!Finish, Traverse!Emptied, Traverse!Gone, Traverse!TypeOK
  <2>2. OnlyOpenEmit'
    BY <1>t, <1>i, <1>6 DEF Traverse!Finish, Traverse!Emptied, Traverse!Gone, OnlyOpenEmit
  <2>3. OfTheSegment'
    BY <1>t, <1>i, <1>6 DEF Traverse!Finish, Traverse!Emptied, Traverse!Gone, OfTheSegment,
       OnlyOpenEmit
  <2>4. Arrived'
    BY <1>t, <1>i, <1>6 DEF Traverse!Finish, Traverse!Emptied, Traverse!Gone, Arrived,
       OnlyOpenEmit
  <2>5. TurnToCome'
    BY <1>t, <1>i, <1>6 DEF Traverse!Finish, Traverse!Emptied, Traverse!Gone, TurnToCome,
       PastIt, OnlyOpenEmit
  <2>6. OnlyChildren'
    <3>1. \A i \in Nodes : place'[i] = 2 => place[i] = 2
      BY <1>t, <1>6 DEF Traverse!Finish
    <3> QED
      BY <1>t, <1>i, <1>6, <3>1 DEF Traverse!Finish, OnlyChildren
  <2>7. AllChildren'
    BY <1>t, <1>i, <1>6 DEF Traverse!Finish, Traverse!Emptied, Traverse!Gone, AllChildren, Arrived
  <2>8. Traversed'
    BY <1>t, <1>i, <1>6 DEF Traverse!Finish, Traverse!Emptied, Traverse!Gone, Traversed,
       TurnToCome, OfTheSegment, OnlyOpenEmit
  <2>9. Traverse!OnlyRetriesUndo'
    BY <1>t, <1>i, <1>6 DEF Traverse!Finish, Traverse!Emptied, Traverse!Gone,
       Traverse!OnlyRetriesUndo, TurnToCome, PastIt, OnlyOpenEmit
  <2> QED
    BY <2>1, <2>2, <2>3, <2>4, <2>5, <2>6, <2>7, <2>8, <2>9 DEF TraverseInv
<1>7. ASSUME NEW p \in Nodes, Traverse!FailParent(p) PROVE TraverseInv'
  <2>1. Traverse!TypeOK'
    BY <1>t, <1>i, <1>7 DEF Traverse!FailParent, Traverse!TypeOK
  <2>2. OnlyOpenEmit' /\ OfTheSegment'
    BY <1>t, <1>i, <1>7 DEF Traverse!FailParent, OnlyOpenEmit, OfTheSegment
  <2>3. Arrived'
    BY <1>t, <1>i, <1>7 DEF Traverse!FailParent, Arrived, OnlyOpenEmit
  <2>4. TurnToCome'
    BY <1>t, <1>i, <1>7 DEF Traverse!FailParent, TurnToCome, PastIt, OnlyOpenEmit
  <2>5. OnlyChildren' /\ AllChildren' /\ Traversed' /\ Traverse!OnlyRetriesUndo'
    BY <1>t, <1>i, <1>7 DEF Traverse!FailParent, OnlyChildren, OfTheSegment, AllChildren,
       Arrived, Traversed, TurnToCome, OnlyOpenEmit, Traverse!OnlyRetriesUndo, PastIt
  <2> QED
    BY <2>1, <2>2, <2>3, <2>4, <2>5 DEF TraverseInv
<1>8. CASE Traverse!After
  <2>1. Traverse!TypeOK'
    BY <1>t, <1>i, <1>8 DEF Traverse!After, Traverse!Segment, Traverse!Eligible, Traverse!TypeOK
  <2>2. OnlyOpenEmit' /\ OfTheSegment'
    BY <1>t, <1>i, <1>8 DEF Traverse!After, Traverse!Segment, Traverse!Eligible, OnlyOpenEmit,
       OfTheSegment
  <2>3. Arrived'
    BY <1>t, <1>i, <1>8 DEF Traverse!After, Traverse!Segment, Traverse!Eligible, Arrived,
       OnlyOpenEmit
  <2>4. TurnToCome'
    BY <1>t, <1>i, <1>8 DEF Traverse!After, Traverse!Segment, Traverse!Eligible, TurnToCome,
       PastIt, OnlyOpenEmit
  <2>5. OnlyChildren' /\ AllChildren' /\ Traversed' /\ Traverse!OnlyRetriesUndo'
    BY <1>t, <1>i, <1>8 DEF Traverse!After, Traverse!Segment, Traverse!Eligible, OnlyChildren,
       OfTheSegment, AllChildren, Arrived, Traversed, TurnToCome, OnlyOpenEmit,
       Traverse!OnlyRetriesUndo, PastIt
  <2> QED
    BY <2>1, <2>2, <2>3, <2>4, <2>5 DEF TraverseInv
<1>9. ASSUME NEW i \in Nodes, Traverse!Advance(i) PROVE TraverseInv'
  <2>1. Traverse!TypeOK'
    BY <1>t, <1>i, <1>9 DEF Traverse!Advance, Traverse!TypeOK
  <2>2. OnlyOpenEmit' /\ OfTheSegment'
    BY <1>t, <1>i, <1>9 DEF Traverse!Advance, OnlyOpenEmit, OfTheSegment
  <2>3. Arrived'
    BY <1>t, <1>i, <1>9 DEF Traverse!Advance, Arrived, OnlyOpenEmit
  <2>4. TurnToCome'
    BY <1>t, <1>i, <1>9 DEF Traverse!Advance, TurnToCome, PastIt, OnlyOpenEmit
  <2>5. OnlyChildren'
    BY <1>t, <1>i, <1>9 DEF Traverse!Advance, OnlyChildren, OfTheSegment
  <2>6. AllChildren' /\ Traversed' /\ Traverse!OnlyRetriesUndo'
    BY <1>t, <1>i, <1>9 DEF Traverse!Advance, AllChildren, Arrived, Traversed, TurnToCome,
       OfTheSegment, OnlyOpenEmit, Traverse!OnlyRetriesUndo, PastIt
  <2> QED
    BY <2>1, <2>2, <2>3, <2>4, <2>5, <2>6 DEF TraverseInv
<1>10. ASSUME NEW i \in Nodes, Traverse!Reject(i) PROVE TraverseInv'
  <2>1. Traverse!TypeOK'
    BY <1>t, <1>i, <1>10 DEF Traverse!Reject, Traverse!TypeOK
  <2>2. OnlyOpenEmit' /\ OfTheSegment'
    BY <1>t, <1>i, <1>10 DEF Traverse!Reject, OnlyOpenEmit, OfTheSegment
  <2>3. Arrived'
    BY <1>t, <1>i, <1>10 DEF Traverse!Reject, Arrived, OnlyOpenEmit
  <2>4. TurnToCome'
    BY <1>t, <1>i, <1>10 DEF Traverse!Reject, TurnToCome, PastIt, OnlyOpenEmit
  <2>5. OnlyChildren' /\ AllChildren' /\ Traversed' /\ Traverse!OnlyRetriesUndo'
    BY <1>t, <1>i, <1>10 DEF Traverse!Reject, OnlyChildren, OfTheSegment, AllChildren, Arrived,
       Traversed, TurnToCome, OnlyOpenEmit, Traverse!OnlyRetriesUndo, PastIt
  <2> QED
    BY <2>1, <2>2, <2>3, <2>4, <2>5 DEF TraverseInv
<1>11. CASE Traverse!Done
  <2>1. Traverse!TypeOK' /\ OnlyOpenEmit' /\ OfTheSegment' /\ Arrived' /\ TurnToCome'
    BY <1>t, <1>i, <1>11 DEF Traverse!Done, Traverse!TypeOK, OnlyOpenEmit, OfTheSegment,
       Arrived, TurnToCome, PastIt
  <2>2. OnlyChildren' /\ AllChildren' /\ Traversed' /\ Traverse!OnlyRetriesUndo'
    BY <1>t, <1>i, <1>11 DEF Traverse!Done, OnlyChildren, OfTheSegment, AllChildren, Arrived,
       Traversed, TurnToCome, OnlyOpenEmit, Traverse!OnlyRetriesUndo, PastIt
  <2> QED
    BY <2>1, <2>2 DEF TraverseInv
<1>12. CASE Traverse!Stop
  <2>1. Traverse!TypeOK'
    BY <1>t, <1>i, <1>12 DEF Traverse!Stop, Traverse!Gone, Traverse!TypeOK
  <2>2. OnlyOpenEmit' /\ OfTheSegment'
    BY <1>t, <1>i, <1>12 DEF Traverse!Stop, Traverse!Gone, OnlyOpenEmit, OfTheSegment
  <2>3. Arrived'
    BY <1>t, <1>i, <1>12 DEF Traverse!Stop, Traverse!Gone, Arrived, OnlyOpenEmit
  <2>4. TurnToCome'
    BY <1>t, <1>i, <1>12 DEF Traverse!Stop, Traverse!Gone, TurnToCome, PastIt, OnlyOpenEmit
  <2>5. OnlyChildren' /\ AllChildren' /\ Traversed' /\ Traverse!OnlyRetriesUndo'
    BY <1>t, <1>i, <1>12 DEF Traverse!Stop, Traverse!Gone, OnlyChildren, OfTheSegment,
       AllChildren, Arrived, Traversed, TurnToCome, OnlyOpenEmit, Traverse!OnlyRetriesUndo, PastIt
  <2> QED
    BY <2>1, <2>2, <2>3, <2>4, <2>5 DEF TraverseInv
<1>13. CASE UNCHANGED Traverse!tvars
  <2>1. Traverse!TypeOK' /\ OnlyOpenEmit' /\ OfTheSegment' /\ Arrived' /\ TurnToCome'
    BY <1>t, <1>i, <1>13 DEF Traverse!tvars, Traverse!TypeOK, OnlyOpenEmit, OfTheSegment,
       Arrived, TurnToCome, PastIt
  <2>2. OnlyChildren' /\ AllChildren' /\ Traversed' /\ Traverse!OnlyRetriesUndo'
    BY <1>t, <1>i, <1>13 DEF Traverse!tvars, OnlyChildren, OfTheSegment, AllChildren, Arrived,
       Traversed, TurnToCome, OnlyOpenEmit, Traverse!OnlyRetriesUndo, PastIt
  <2> QED
    BY <2>1, <2>2 DEF TraverseInv
<1> QED
  BY <1>1, <1>2, <1>3, <1>4, <1>5, <1>6, <1>7, <1>8, <1>9, <1>10, <1>11, <1>12, <1>13
     DEF Traverse!Next

LEMMA TraverseHolds == TraverseInv => Traverse!SegmentHolds
BY DEF TraverseInv, Traverse!SegmentHolds, Traverse!SegmentIsExact, OnlyChildren, AllChildren,
       Traversed, Traverse!BEFORE, Traverse!HERE, Traverse!NEXT

(* Every reachable state of a traverse satisfies the invariant.            *)
THEOREM TraverseInvariance ==
  ASSUME Traverse!TraverseAssumption PROVE Traverse!Spec => []TraverseInv
<1>1. Traverse!Init => TraverseInv
  BY TraverseInit
<1>2. TraverseInv /\ [Traverse!Next]_(Traverse!tvars) => TraverseInv'
  BY TraverseNext
<1> QED
  BY <1>1, <1>2, PTL DEF Traverse!Spec

(* The leg after a traverse is exactly its children (traverse.go).         *)
THEOREM SegmentIsKept ==
  ASSUME Traverse!TraverseAssumption PROVE Traverse!Spec => []Traverse!SegmentHolds
BY TraverseHolds, TraverseInvariance, PTL

-----------------------------------------------------------------------------
(* Install.                                                                *)

(* A directory that is not there has nothing in it.                        *)
NotThere == \A s \in Install!Slots : ~disk[s].there => disk[s] = Install!Absent

(* What a command does at each of its places.                              *)
Command ==
  /\ ipc # "idle" => verb \in {"add", "update"} /\ ifetched \in Install!Versions
  /\ ipc \in {"copy", "remove", "aside", "rename"} => ifetched \in iverified
  /\ ipc = "copy" => itodo \subseteq Install!FilesOf(ifetched)
  /\ ipc = "remove" => ikind = "binding" /\ "dir" \in itodo
  /\ ipc = "aside" => ikind = "process"
  /\ ipc \in {"remove", "aside", "rename"} => Install!Target # "dest"
  /\ ikind = "process" => ~imixed

(* While files are copied the target has those that are done with.         *)
HalfCopied == ipc = "copy" =>
  /\ disk[Install!Target].there
  /\ ~imixed =>
       /\ disk[Install!Target].pin = Install!NoPin
       /\ \A f \in Files : disk[Install!Target].tree[f] =
            IF f \in itodo THEN 0 ELSE Content[ifetched][f]

(* What is about to take the place of the old directory is whole.          *)
Replaces == ipc \in {"remove", "aside", "rename"} /\ ~imixed =>
  disk[Install!Target] = [tree |-> Install!Tree(ifetched), pin |-> ifetched, there |-> TRUE]

(* The place it takes is empty; the old process adapter is kept till then. *)
IsWhole(slot) ==
  \/ slot = Install!Absent
  \/ (slot.there /\ slot.pin # Install!NoPin /\ slot.tree = Install!Tree(slot.pin))
PlaceIsFree ==
  /\ ipc = "rename" => disk["dest"] = Install!Absent
  /\ ikind = "process" /\ ipc \in {"copy", "aside"} => disk["old"] = Install!Absent
  /\ ikind = "process" /\ ipc = "rename" => IsWhole(disk["old"])

(* The adapter's own directory is whole unless a command works in it.      *)
StaysWhole ==
  (ikind = "process" \/ (~itorn /\ ~imixed)) /\ ~Install!InDest => IsWhole(disk["dest"])

InstallInv == /\ Install!TypeOK /\ Install!PinIsTrue /\ NotThere /\ Command
              /\ HalfCopied /\ Replaces /\ PlaceIsFree /\ StaysWhole

Entry == [tree : [Files -> Nat], pin : {Install!NoPin} \cup Install!Versions, there : BOOLEAN]

LEMMA VersionsAre ==
  ASSUME Install!InstallAssumption
  PROVE  /\ Install!Versions \subseteq Nat \ {0} /\ 1 \in Install!Versions
         /\ \A h \in Install!Versions : 1 .. h \subseteq Install!Versions
         /\ \A v \in Install!Versions : Content[v] \in [Files -> Nat]
<1>1. Install!Versions = 1 .. Len(Content) /\ Len(Content) \in Nat
  BY DEF Install!InstallAssumption, Install!Versions
<1>2. Len(Content) # 0
  BY DEF Install!InstallAssumption
<1>3. \A v \in Install!Versions : Content[v] \in [Files -> Nat]
  BY <1>1 DEF Install!InstallAssumption
<1> QED
  BY <1>1, <1>2, <1>3

LEMMA AbsentIs ==
  /\ Install!Absent \in Entry /\ Install!Absent.pin = 0 /\ Install!Absent.there = FALSE
  /\ \A f \in Files : Install!Absent.tree[f] = 0
BY DEF Install!Absent, Install!NoPin, Entry

LEMMA TreeIs ==
  ASSUME Install!InstallAssumption, NEW v \in Install!Versions
  PROVE  /\ Install!Tree(v) \in [Files -> Nat] /\ Install!FilesOf(v) \subseteq Files
         /\ \A f \in Files : Install!Tree(v)[f] = Content[v][f]
         /\ \A f \in Files : f \notin Install!FilesOf(v) => Content[v][f] = 0
BY VersionsAre DEF Install!Tree, Install!FilesOf

LEMMA InstallInit == ASSUME Install!InstallAssumption, Install!Init PROVE InstallInv
<1>1. Install!TypeOK
  <2>1. disk \in [Install!Slots -> Entry]
    BY AbsentIs DEF Install!Init
  <2>2. 1 \in Install!Versions /\ MaxKills \in Nat
    <3>1. 1 \in Install!Versions
      BY VersionsAre
    <3> QED
      BY <3>1 DEF Install!InstallAssumption
  <2>3. ihead \in Install!Versions /\ irow \in {0} \cup Install!Versions
        /\ ikills \in 0 .. MaxKills
    BY <2>2 DEF Install!Init
  <2>4. /\ ikind \in Kinds /\ verb = "none" /\ ipc = "idle" /\ ifetched = 0 /\ itodo = {}
        /\ iverified = {} /\ itorn = FALSE /\ imixed = FALSE
    BY DEF Install!Init
  <2> QED
    BY <2>1, <2>3, <2>4 DEF Install!TypeOK, Entry
<1>2. NotThere /\ Command /\ HalfCopied /\ Replaces /\ PlaceIsFree /\ StaysWhole
      /\ Install!PinIsTrue
  BY AbsentIs DEF Install!Init, NotThere, Command, HalfCopied, Replaces, PlaceIsFree,
     StaysWhole, IsWhole, Install!PinIsTrue, Install!Slots, Install!NoPin
<1> QED
  BY <1>1, <1>2 DEF InstallInv

(* What a step that leaves the disk and the place alone keeps.             *)
LEMMA InstallNext ==
  ASSUME Install!InstallAssumption, InstallInv, [Install!Next]_(Install!installVars)
  PROVE  InstallInv'
<1>t. /\ ikind \in Kinds /\ ihead \in Install!Versions /\ irow \in {0} \cup Install!Versions
      /\ disk \in [Install!Slots -> Entry]
      /\ verb \in {"none", "add", "update"} /\ ifetched \in {0} \cup Install!Versions
      /\ ipc \in {"idle", "verify", "copy", "remove", "aside", "rename"}
      /\ itodo \subseteq Files \cup {"pin", "dir"} /\ ikills \in 0..MaxKills
      /\ iverified \subseteq Install!Versions /\ itorn \in BOOLEAN /\ imixed \in BOOLEAN
      /\ ikind \in {"binding", "process"} /\ MaxKills \in Nat
  BY DEF InstallInv, Install!TypeOK, Entry, Install!InstallAssumption
<1>i. /\ Install!TypeOK /\ NotThere /\ Command /\ HalfCopied /\ Replaces /\ PlaceIsFree
         /\ StaysWhole
      /\ Install!PinIsTrue
  BY DEF InstallInv
<1>v. /\ Install!Versions \subseteq Nat \ {0}
      /\ \A h \in Install!Versions : 1 .. h \subseteq Install!Versions
      /\ \A v \in Install!Versions : Content[v] \in [Files -> Nat]
  BY VersionsAre
<1>g. Install!Target \in Install!Slots /\ Install!Target # "old"
  BY DEF Install!Target, Install!Slots
<1>1. CASE Install!Publish
  BY <1>1, <1>t, <1>i DEF Install!Publish, Install!command, InstallInv, Install!TypeOK,
     NotThere, Command, HalfCopied, Replaces, PlaceIsFree, StaysWhole, IsWhole, Install!InDest,
     Install!PinIsTrue, Install!Target
<1>2. CASE Install!Reindex
  BY <1>2, <1>t, <1>i DEF Install!Reindex, Install!command, InstallInv, Install!TypeOK,
     NotThere, Command, HalfCopied, Replaces, PlaceIsFree, StaysWhole, IsWhole, Install!InDest,
     Install!PinIsTrue, Install!Target
<1>3. CASE Install!Fetch
  <2>1. ifetched' \in Install!Versions /\ verb' \in {"add", "update"} /\ ipc' = "verify"
        /\ ipc = "idle"
    BY <1>3, <1>t, <1>v DEF Install!Fetch, Install!Reference
  <2>2. UNCHANGED <<ikind, ihead, irow, disk, itodo, ikills, iverified, itorn, imixed>>
    BY <1>3 DEF Install!Fetch
  <2> QED
    BY <2>1, <2>2, <1>t, <1>i DEF InstallInv, Install!TypeOK, NotThere, Command, HalfCopied,
       Replaces, PlaceIsFree, StaysWhole, IsWhole, Install!InDest, Install!PinIsTrue,
       Install!Target
<1>4. CASE Install!Refuse
  BY <1>4, <1>t, <1>i DEF Install!Refuse, Install!Done, InstallInv, Install!TypeOK, NotThere,
     Command, HalfCopied, Replaces, PlaceIsFree, StaysWhole, IsWhole, Install!InDest,
     Install!PinIsTrue, Install!Target
<1>5. CASE Install!Accept
  <2>1. /\ ipc = "verify" /\ ipc' = "copy" /\ itodo' = Install!FilesOf(ifetched)
        /\ ifetched \in Install!Versions
        /\ iverified' = iverified \cup {ifetched}
        /\ Install!Target' = Install!Target /\ Install!Target # "old"
        /\ imixed' = (imixed \/ (Install!Target = "update" /\ disk["update"].there))
        /\ UNCHANGED <<ikind, ihead, irow, verb, ifetched, ikills, itorn>>
    BY <1>5, <1>i DEF Install!Accept, Command, Install!Target
  <2>2. /\ disk'[Install!Target] = 
             [(IF ikind = "process" THEN Install!Absent ELSE disk[Install!Target])
                EXCEPT !.there = TRUE]
        /\ \A s \in Install!Slots \ {Install!Target} :
             disk'[s] = IF s = "old" /\ ikind = "process" THEN Install!Absent ELSE disk[s]
        /\ disk' = [s \in Install!Slots |-> disk'[s]]
    BY <1>5, <1>g, <2>1 DEF Install!Accept, Install!Clears
  <2>3. ~imixed' => disk'[Install!Target] = [Install!Absent EXCEPT !.there = TRUE]
    <3>1. Install!Target = "dest" => ~disk["dest"].there
      BY <1>5, <1>t DEF Install!Accept, Install!Refuses, Install!Target, Install!dest
    <3>2. ~imixed' /\ ikind = "binding" => ~disk[Install!Target].there
      BY <1>t, <2>1, <3>1 DEF Install!Target
    <3> QED
      BY <1>t, <1>i, <1>g, <2>2, <3>2 DEF NotThere
  <2>4. disk' \in [Install!Slots -> Entry]
    <3>1. disk'[Install!Target] \in Entry
      BY <1>t, <1>g, <2>2, AbsentIs DEF Entry
    <3>2. \A s \in Install!Slots \ {Install!Target} : disk'[s] \in Entry
      BY <1>t, <2>2, AbsentIs
    <3> QED
      BY <2>2, <3>1, <3>2
  <2>5. Install!TypeOK'
    BY <1>t, <1>i, <2>1, <2>4, TreeIs DEF Install!TypeOK, Entry
  <2>6. NotThere'
    BY <1>t, <1>i, <1>g, <2>2, AbsentIs DEF NotThere, Entry
  <2>7. Command'
    BY <1>t, <1>i, <2>1 DEF Command, Install!Target
  <2>8. HalfCopied'
    <3>1. disk'[Install!Target].there
      BY <1>t, <1>g, <2>2, AbsentIs DEF Entry
    <3>2. ASSUME ~imixed'
          PROVE  /\ disk'[Install!Target].pin = Install!NoPin
                 /\ \A f \in Files : disk'[Install!Target].tree[f] =
                      IF f \in Install!FilesOf(ifetched) THEN 0 ELSE Content[ifetched][f]
      BY <2>1, <2>3, <3>2, AbsentIs, TreeIs DEF Install!Absent, Install!NoPin
    <3> QED
      BY <2>1, <3>1, <3>2 DEF HalfCopied
  <2>9. Replaces' /\ PlaceIsFree'
    BY <1>t, <1>g, <2>1, <2>2 DEF Replaces, PlaceIsFree, Install!Slots
  <2>10. StaysWhole'
    BY <1>t, <1>i, <1>g, <2>1, <2>2 DEF StaysWhole, IsWhole, Install!InDest, Install!Target,
       Install!Slots
  <2>11. Install!PinIsTrue'
    BY <1>t, <1>i, <1>g, <2>1, <2>2, <2>3, AbsentIs DEF Install!PinIsTrue, Entry, Install!NoPin
  <2> QED
    BY <2>5, <2>6, <2>7, <2>8, <2>9, <2>10, <2>11 DEF InstallInv
<1>6. CASE Install!Copy
  <2>1. PICK f \in itodo : /\ disk' = [disk EXCEPT ![Install!Target].tree[f] = Content[ifetched][f]]
                          /\ itodo' = itodo \ {f}
    BY <1>6 DEF Install!Copy
  <2>2. /\ ipc = "copy" /\ ifetched \in Install!Versions /\ Install!Target' = Install!Target
        /\ UNCHANGED <<ikind, ihead, irow, verb, ipc, ifetched, ikills, iverified, itorn, imixed>>
        /\ itodo \subseteq Files
    BY <1>6, <1>i, TreeIs DEF Install!Copy, Command, Install!Target
  <2>3. /\ disk'[Install!Target] = 
             [disk[Install!Target] EXCEPT !.tree = [@ EXCEPT ![f] = Content[ifetched][f]]]
        /\ \A s \in Install!Slots \ {Install!Target} : disk'[s] = disk[s]
        /\ disk' = [s \in Install!Slots |-> disk'[s]]
    BY <1>t, <1>g, <2>1
  <2>4. /\ disk[Install!Target] \in Entry /\ Content[ifetched] \in [Files -> Nat] /\ f \in Files
    BY <1>t, <1>g, <1>v, <2>2
  <2>5. /\ disk'[Install!Target] \in Entry
        /\ disk'[Install!Target].there = disk[Install!Target].there
        /\ disk'[Install!Target].pin = disk[Install!Target].pin
        /\ \A g \in Files : disk'[Install!Target].tree[g] =
             IF g = f THEN Content[ifetched][f] ELSE disk[Install!Target].tree[g]
    BY <2>3, <2>4 DEF Entry
  <2>6. disk' \in [Install!Slots -> Entry]
    BY <1>t, <2>3, <2>5
  <2>7. Install!TypeOK'
    BY <1>t, <1>i, <2>1, <2>2, <2>6 DEF Install!TypeOK, Entry
  <2>8. Command'
    BY <1>t, <1>i, <2>1, <2>2 DEF Command, Install!Target, Install!FilesOf
  <2>9. HalfCopied'
    BY <1>i, <2>1, <2>2, <2>5 DEF HalfCopied
  <2>10. Replaces' /\ PlaceIsFree'
    <3>1. /\ ipc' = "copy"
          /\ (ikind = "process" => Install!Target = "staging" /\ disk["old"] = Install!Absent)
      BY <1>i, <2>2 DEF PlaceIsFree, Install!Target
    <3>2. ikind = "process" => disk'["old"] = Install!Absent
      BY <2>3, <3>1 DEF Install!Slots
    <3> QED
      BY <2>2, <3>1, <3>2 DEF Replaces, PlaceIsFree
  <2>11. StaysWhole'
    BY <1>i, <1>g, <2>2, <2>3 DEF StaysWhole, IsWhole, Install!InDest, Install!Target,
       Install!Slots
  <2>12. Install!PinIsTrue'
    BY ZenonT(30), <1>i, <1>g, <2>2, <2>3, <2>5 DEF Install!PinIsTrue, HalfCopied
  <2>13. NotThere'
    BY <1>i, <1>g, <2>2, <2>3, <2>5 DEF NotThere, HalfCopied
  <2> QED
    BY <2>7, <2>8, <2>9, <2>10, <2>11, <2>12, <2>13 DEF InstallInv
<1>7. CASE Install!WritePin
  <2>1. /\ ipc = "copy" /\ itodo = {} /\ ifetched \in Install!Versions /\ ifetched \in iverified
        /\ disk' = [disk EXCEPT ![Install!Target].pin = ifetched]
        /\ UNCHANGED <<ikind, ihead, irow, ikills, iverified, itorn, imixed>>
    BY <1>7, <1>i DEF Install!WritePin, Command
  <2>2. /\ disk'[Install!Target] = [disk[Install!Target] EXCEPT !.pin = ifetched]
        /\ \A s \in Install!Slots \ {Install!Target} : disk'[s] = disk[s]
        /\ disk' = [s \in Install!Slots |-> disk'[s]]
    BY <1>t, <1>g, <2>1
  <2>3. /\ disk'[Install!Target] \in Entry
        /\ disk'[Install!Target].there = disk[Install!Target].there
           /\ disk'[Install!Target].pin = ifetched
        /\ disk'[Install!Target].tree = disk[Install!Target].tree
    BY <1>t, <1>g, <2>1, <2>2 DEF Entry
  <2>4. disk' \in [Install!Slots -> Entry]
    BY <1>t, <2>2, <2>3
  <2>5. ~imixed => disk'[Install!Target] =
          [tree |-> Install!Tree(ifetched), pin |-> ifetched, there |-> TRUE]
    <3> SUFFICES ASSUME ~imixed
                 PROVE  disk'[Install!Target] =
                          [tree |-> Install!Tree(ifetched), pin |-> ifetched, there |-> TRUE]
      OBVIOUS
    <3>1. /\ disk[Install!Target].there
          /\ \A f \in Files : disk[Install!Target].tree[f] = Content[ifetched][f]
      BY <1>i, <2>1 DEF HalfCopied
    <3>2. disk[Install!Target] \in Entry
      BY <1>t, <1>g
    <3>3. disk[Install!Target].tree = Install!Tree(ifetched)
      BY <3>1, <3>2 DEF Install!Tree, Entry
    <3>4. disk'[Install!Target] = [tree |-> disk'[Install!Target].tree,
          pin |-> disk'[Install!Target].pin,
                           there |-> disk'[Install!Target].there]
      BY <2>3 DEF Entry
    <3> QED
      BY <2>3, <3>1, <3>2, <3>3, <3>4 DEF Entry
  <2>6. CASE Install!Target = "dest"
    <3>1. Install!Done /\ ikind = "binding"
      BY <1>7, <1>t, <2>6 DEF Install!WritePin, Install!Target
    <3>2. Install!TypeOK'
      BY <1>t, <2>1, <2>4, <3>1 DEF Install!TypeOK, Entry, Install!Done
    <3>3. NotThere' /\ Command' /\ HalfCopied' /\ Replaces' /\ PlaceIsFree'
      BY <1>t, <1>i, <1>g, <2>1, <2>2, <2>3, <3>1 DEF NotThere, Command, HalfCopied, Replaces,
         PlaceIsFree, Install!Done
    <3>4. StaysWhole'
      BY <2>1, <2>5, <2>6, <3>1, <1>v DEF StaysWhole, IsWhole, Install!Done, Install!NoPin
    <3>5. Install!PinIsTrue'
      BY <1>i, <1>g, <2>1, <2>2, <2>3, <2>5, TreeIs DEF Install!PinIsTrue
    <3> QED
      BY <3>2, <3>3, <3>4, <3>5 DEF InstallInv
  <2>7. CASE Install!Target # "dest"
    <3>1. /\ ipc' = IF ikind = "process" THEN "aside" ELSE "remove"
          /\ itodo' = {f \in Files : Install!dest.tree[f] > 0} \cup {"pin", "dir"}
          /\ UNCHANGED <<verb, ifetched>> /\ Install!Target' = Install!Target
      BY <1>7, <2>7 DEF Install!WritePin, Install!Target
    <3>2. Install!TypeOK'
      BY <1>t, <2>1, <2>4, <3>1 DEF Install!TypeOK, Entry
    <3>3. NotThere' /\ HalfCopied'
      BY <1>i, <1>g, <2>1, <2>2, <2>3, <3>1 DEF NotThere, HalfCopied
    <3>4. Command'
      BY <1>t, <1>i, <2>1, <2>7, <3>1 DEF Command
    <3>5. Replaces' /\ PlaceIsFree'
      BY <1>t, <1>i, <1>g, <2>1, <2>2, <2>5, <2>7, <3>1 DEF Replaces, PlaceIsFree,
         Install!Target, Install!Slots
    <3>6. StaysWhole'
      BY <1>i, <1>g, <2>1, <2>2, <2>7, <3>1 DEF StaysWhole, IsWhole, Install!InDest, Install!Slots
    <3>7. Install!PinIsTrue'
      BY <1>i, <1>g, <2>1, <2>2, <2>3, <2>5, TreeIs DEF Install!PinIsTrue
    <3> QED
      BY <3>2, <3>3, <3>4, <3>5, <3>6, <3>7 DEF InstallInv
  <2> QED
    BY <2>6, <2>7
<1>8. CASE Install!Remove
  <2>1. PICK f \in itodo :
           /\ f = "dir" => itodo = {"dir"}
           /\ disk' = [disk EXCEPT !["dest"] =
                IF f = "dir" THEN Install!Absent
                ELSE IF f = "pin" THEN [@ EXCEPT !.pin = Install!NoPin]
                ELSE [@ EXCEPT !.tree[f] = 0]]
           /\ itodo' = itodo \ {f}
    BY <1>8 DEF Install!Remove
  <2>2. /\ ipc = "remove" /\ ipc' = IF itodo' = {} THEN "rename" ELSE ipc
        /\ ikind = "binding" /\ "dir" \in itodo
        /\ Install!Target' = Install!Target /\ Install!Target # "dest"
        /\ UNCHANGED <<ikind, ihead, irow, verb, ifetched, ikills, iverified, itorn, imixed>>
    BY <1>8, <1>i DEF Install!Remove, Command, Install!Target
  <2>3. /\ disk'["dest"] = IF f = "dir" THEN Install!Absent
                            ELSE IF f = "pin" THEN [disk["dest"] EXCEPT !.pin = Install!NoPin]
                            ELSE [disk["dest"] EXCEPT !.tree = [@ EXCEPT ![f] = 0]]
        /\ \A s \in Install!Slots \ {"dest"} : disk'[s] = disk[s]
        /\ disk' = [s \in Install!Slots |-> disk'[s]]
    BY <1>t, <2>1 DEF Install!Slots
  <2>4. /\ disk'["dest"] \in Entry
        /\ disk'["dest"].there => disk["dest"].there
        /\ disk'["dest"].pin \in {Install!NoPin, disk["dest"].pin}
        /\ \A g \in Files : disk'["dest"].tree[g] \in {0, disk["dest"].tree[g]}
        /\ ~disk'["dest"].there => disk'["dest"] = Install!Absent \/ ~disk["dest"].there
    <3>1. disk["dest"] \in Entry /\ f \in Files \cup {"pin", "dir"}
      BY <1>t, <2>1 DEF Install!Slots
    <3>2. CASE f = "dir"
      BY <2>3, <3>2, AbsentIs DEF Install!NoPin
    <3>3. CASE f = "pin" /\ f # "dir"
      BY <2>3, <3>1, <3>3 DEF Entry
    <3>4. CASE f \notin {"pin", "dir"}
      BY <2>3, <3>1, <3>4 DEF Entry
    <3> QED
      BY <3>2, <3>3, <3>4
  <2>5. Install!TypeOK'
    <3>1. disk' \in [Install!Slots -> Entry]
      BY <1>t, <2>3, <2>4 DEF Install!Slots
    <3> QED
      BY <1>t, <2>1, <2>2, <3>1 DEF Install!TypeOK, Entry
  <2>6. NotThere'
    <3>1. disk["dest"].there \in BOOLEAN /\ disk'["dest"].there \in BOOLEAN
      BY <1>t, <2>4 DEF Entry, Install!Slots
    <3>2. ~disk'["dest"].there => disk'["dest"] = Install!Absent
      <4>1. CASE f = "dir"
        BY <2>3, <4>1
      <4>2. CASE f # "dir" /\ ~disk["dest"].there
        <5>1. disk["dest"] = Install!Absent
          BY <1>i, <4>2 DEF NotThere, Install!Slots
        <5>r. \A r \in Entry : [r EXCEPT !.pin = r.pin] = r /\ [r EXCEPT !.tree = r.tree] = r
          BY DEF Entry
        <5>2. [Install!Absent EXCEPT !.pin = Install!NoPin] = Install!Absent
          BY <5>r, AbsentIs DEF Install!NoPin
        <5>3. [Install!Absent EXCEPT !.tree = [@ EXCEPT ![f] = 0]] = Install!Absent
          <6> DEFINE none == [g \in Files |-> 0]
          <6>1. [none EXCEPT ![f] = 0] = none
            OBVIOUS
          <6>2. Install!Absent = [tree |-> none, pin |-> Install!NoPin, there |-> FALSE]
            BY DEF Install!Absent
          <6> HIDE DEF none
          <6>3. Install!Absent.tree = none
            BY <6>2
          <6>4. [Install!Absent EXCEPT !.tree = none] = Install!Absent
            BY <5>r, <6>3, AbsentIs
          <6> QED
            BY <6>1, <6>3, <6>4
        <5> QED
          BY <2>3, <4>2, <5>1, <5>2, <5>3
      <4>3. CASE f # "dir" /\ disk["dest"].there
        <5>1. CASE f = "pin"
          BY <1>t, <2>3, <4>3, <5>1 DEF Entry, Install!Slots
        <5>2. CASE f # "pin"
          BY <1>t, <2>3, <4>3, <5>2 DEF Entry, Install!Slots
        <5> QED
          BY <5>1, <5>2
      <4> QED
        BY <3>1, <4>1, <4>2, <4>3
    <3> QED
      BY <1>i, <2>3, <3>2 DEF NotThere
  <2>7. Command' /\ HalfCopied'
    BY <1>t, <1>i, <2>1, <2>2 DEF Command, HalfCopied
  <2>8. Replaces'
    BY <1>i, <1>g, <2>2, <2>3 DEF Replaces
  <2>9. PlaceIsFree'
    BY <2>1, <2>2, <2>3 DEF PlaceIsFree
  <2>10. StaysWhole'
    BY <1>t, <2>1, <2>2, <2>3 DEF StaysWhole, IsWhole, Install!InDest
  <2>11. Install!PinIsTrue'
    <3> SUFFICES ASSUME NEW s \in Install!Slots, disk'[s].pin # Install!NoPin
                 PROVE  /\ disk'[s].pin \in iverified
                        /\ ~imixed => \A g \in Files :
                             disk'[s].tree[g] \in {0, Content[disk'[s].pin][g]}
      BY <2>2 DEF Install!PinIsTrue
    <3>1. disk'[s].pin = disk[s].pin /\ \A g \in Files : disk'[s].tree[g] \in {0, disk[s].tree[g]}
      BY <2>3, <2>4
    <3> QED
      BY <1>i, <3>1 DEF Install!PinIsTrue
  <2> QED
    BY <2>5, <2>6, <2>7, <2>8, <2>9, <2>10, <2>11 DEF InstallInv
<1>9. CASE Install!Aside
  <2>1. /\ ipc = "aside" /\ ipc' = "rename" /\ itodo' = {} /\ ikind = "process" /\ ~imixed
        /\ disk' = IF Install!dest.there
                   THEN [disk EXCEPT !["old"] = Install!dest, !["dest"] = Install!Absent]
                   ELSE disk
        /\ Install!Target' = Install!Target /\ Install!Target \notin {"dest", "old"}
        /\ UNCHANGED <<ikind, ihead, irow, verb, ifetched, ikills, iverified, itorn, imixed>>
    BY <1>9, <1>i DEF Install!Aside, Command, Install!Target
  <2>2. /\ disk'["dest"] = Install!Absent
        /\ disk'["old"] \in {disk["dest"], Install!Absent} /\ IsWhole(disk'["old"])
        /\ \A s \in Install!Slots \ {"dest", "old"} : disk'[s] = disk[s]
        /\ disk' \in [Install!Slots -> Entry]
    <3>1. IsWhole(disk["dest"]) /\ disk["old"] = Install!Absent
      BY <1>i, <2>1 DEF StaysWhole, Install!InDest, PlaceIsFree
    <3>2. CASE Install!dest.there
      BY <1>t, <2>1, <3>1, <3>2, AbsentIs DEF Install!Slots, Install!dest
    <3>3. CASE ~Install!dest.there
      BY <1>t, <1>i, <2>1, <3>1, <3>3, AbsentIs DEF NotThere, Install!Slots, Install!dest, IsWhole
    <3> QED
      BY <3>2, <3>3
  <2>3. Install!TypeOK'
    BY <1>t, <2>1, <2>2 DEF Install!TypeOK, Entry
  <2>4. NotThere' /\ Install!PinIsTrue'
    <3>1. \A s \in Install!Slots : disk'[s] = Install!Absent
          \/ \E t \in Install!Slots : disk'[s] = disk[t]
      <4> SUFFICES ASSUME NEW s \in Install!Slots
                   PROVE  disk'[s] = Install!Absent \/ \E t \in Install!Slots : disk'[s] = disk[t]
        OBVIOUS
      <4>1. CASE s = "dest"
        BY <2>2, <4>1
      <4>2. CASE s = "old"
        BY <2>2, <4>2 DEF Install!Slots
      <4>3. CASE s \notin {"dest", "old"}
        <5>1. disk'[s] = disk[s]
          BY <2>2, <4>3
        <5> QED
          BY <5>1
      <4> QED
        BY <4>1, <4>2, <4>3
    <3>2. NotThere'
      BY <1>i, <3>1 DEF NotThere
    <3>3. Install!PinIsTrue'
      <4> SUFFICES ASSUME NEW s \in Install!Slots, disk'[s].pin # Install!NoPin
                   PROVE  /\ disk'[s].pin \in iverified
                          /\ ~imixed => \A g \in Files :
                               disk'[s].tree[g] \in {0, Content[disk'[s].pin][g]}
        BY <2>1 DEF Install!PinIsTrue
      <4>1. PICK t \in Install!Slots : disk'[s] = disk[t]
        BY <3>1, AbsentIs DEF Install!NoPin
      <4> QED
        BY <1>i, <4>1 DEF Install!PinIsTrue
    <3> QED
      BY <3>2, <3>3
  <2>5. Command' /\ HalfCopied' /\ Replaces' /\ PlaceIsFree' /\ StaysWhole'
    BY <1>t, <1>i, <1>g, <2>1, <2>2 DEF Command, HalfCopied, Replaces, PlaceIsFree, StaysWhole,
       IsWhole
  <2> QED
    BY <2>3, <2>4, <2>5 DEF InstallInv
<1>10. CASE Install!Rename
  <2>1. /\ ipc = "rename" /\ Install!Done /\ Install!Target # "dest"
           /\ ifetched \in Install!Versions
        /\ disk' = [disk EXCEPT !["dest"] = disk[Install!Target],
                               ![Install!Target] = Install!Absent, !["old"] = Install!Absent]
        /\ UNCHANGED <<ikind, ihead, irow, ikills, iverified, itorn, imixed>>
    BY <1>10, <1>i DEF Install!Rename, Command
  <2>2. /\ disk'["dest"] = disk[Install!Target]
        /\ disk'[Install!Target] = Install!Absent /\ disk'["old"] = Install!Absent
        /\ \A s \in Install!Slots \ {"dest", "old", Install!Target} : disk'[s] = disk[s]
        /\ disk' \in [Install!Slots -> Entry]
    BY <1>t, <1>g, <2>1, AbsentIs DEF Install!Slots
  <2>3. Install!TypeOK'
    BY <1>t, <2>1, <2>2 DEF Install!TypeOK, Entry, Install!Done
  <2>4. NotThere' /\ Install!PinIsTrue'
    <3>1. \A s \in Install!Slots : disk'[s] = Install!Absent
          \/ \E t \in Install!Slots : disk'[s] = disk[t]
      <4> SUFFICES ASSUME NEW s \in Install!Slots
                   PROVE  disk'[s] = Install!Absent \/ \E t \in Install!Slots : disk'[s] = disk[t]
        OBVIOUS
      <4>1. CASE s = "dest"
        BY <1>g, <2>2, <4>1
      <4>2. CASE s \in {"old", Install!Target}
        BY <2>2, <4>2
      <4>3. CASE s \notin {"dest", "old", Install!Target}
        <5>1. disk'[s] = disk[s]
          BY <2>2, <4>3
        <5> QED
          BY <5>1
      <4> QED
        BY <4>1, <4>2, <4>3
    <3>2. NotThere'
      BY <1>i, <3>1 DEF NotThere
    <3>3. Install!PinIsTrue'
      <4> SUFFICES ASSUME NEW s \in Install!Slots, disk'[s].pin # Install!NoPin
                   PROVE  /\ disk'[s].pin \in iverified
                          /\ ~imixed => \A g \in Files :
                               disk'[s].tree[g] \in {0, Content[disk'[s].pin][g]}
        BY <2>1 DEF Install!PinIsTrue
      <4>1. PICK t \in Install!Slots : disk'[s] = disk[t]
        BY <3>1, AbsentIs DEF Install!NoPin
      <4> QED
        BY <1>i, <4>1 DEF Install!PinIsTrue
    <3> QED
      BY <3>2, <3>3
  <2>5. Command' /\ HalfCopied' /\ Replaces' /\ PlaceIsFree'
    BY <1>t, <1>i, <2>1 DEF Command, HalfCopied, Replaces, PlaceIsFree, Install!Done
  <2>6. StaysWhole'
    BY <1>t, <1>v, <1>i, <2>1, <2>2 DEF StaysWhole, IsWhole, Replaces, Command, Install!NoPin
  <2> QED
    BY <2>3, <2>4, <2>5, <2>6 DEF InstallInv
<1>11. CASE Install!Kill
  <2>1. /\ Install!Done /\ ikills' \in 0 .. MaxKills /\ ipc' = "idle"
        /\ itorn' = (itorn \/ Install!InDest)
        /\ UNCHANGED <<ikind, ihead, irow, disk, iverified, imixed>>
    BY <1>11, <1>t DEF Install!Kill, Install!Done
  <2>2. Install!TypeOK'
    BY <1>t, <2>1 DEF Install!TypeOK, Entry, Install!Done
  <2>3. NotThere' /\ Command' /\ HalfCopied' /\ Replaces' /\ PlaceIsFree' /\ Install!PinIsTrue'
    BY <1>i, <2>1 DEF NotThere, Command, HalfCopied, Replaces, PlaceIsFree, Install!PinIsTrue
  <2>4. StaysWhole'
    <3>1. ikind = "process" => ~Install!InDest
      BY <1>i DEF Command, Install!InDest, Install!Target
    <3> QED
      BY <1>t, <1>i, <2>1, <3>1 DEF StaysWhole, IsWhole
  <2> QED
    BY <2>2, <2>3, <2>4 DEF InstallInv
<1>12. CASE Install!Fail
  <2> DEFINE cleans == \/ ikind = "process" \/ ipc = "remove"
                       \/ ipc = "copy" /\ itodo = {} /\ verb = "update"
             Left(s) ==
               IF s = Install!Target /\ cleans /\ Install!Target # "dest" THEN Install!Absent
               ELSE IF s = "dest" /\ ikind = "process" /\ ipc = "rename" THEN disk["old"]
               ELSE IF s = "old" /\ ikind = "process" /\ ipc = "rename" THEN Install!Absent
               ELSE disk[s]
  <2>1. /\ Install!Done /\ ikills' \in 0 .. MaxKills /\ ipc' = "idle"
        /\ itorn' = (itorn \/ Install!InDest)
        /\ UNCHANGED <<ikind, ihead, irow, iverified, imixed>>
    BY <1>12, <1>t DEF Install!Fail, Install!Done
  <2>2. disk' = [s \in Install!Slots |-> Left(s)]
    BY <1>12 DEF Install!Fail
  <2>3. \A s \in Install!Slots : disk'[s] = Install!Absent
        \/ \E t \in Install!Slots : disk'[s] = disk[t]
    BY <2>2 DEF Install!Slots
  <2>4. disk' \in [Install!Slots -> Entry]
    BY <1>t, <2>2, <2>3, AbsentIs
  <2>5. \/ disk'["dest"] = disk["dest"]
        \/ (ikind = "process" /\ ipc = "rename" /\ disk'["dest"] = disk["old"])
    BY <2>2 DEF Install!Slots
  <2> HIDE DEF cleans, Left
  <2>6. Install!TypeOK'
    BY <1>t, <2>1, <2>4 DEF Install!TypeOK, Entry, Install!Done
  <2>7. NotThere' /\ Command' /\ HalfCopied' /\ Replaces' /\ PlaceIsFree' /\ Install!PinIsTrue'
    BY <1>i, <2>1, <2>3, AbsentIs DEF NotThere, Command, HalfCopied, Replaces, PlaceIsFree,
       Install!PinIsTrue, Install!NoPin
  <2>8. StaysWhole'
    <3>1. ikind = "process" => ~Install!InDest
      BY <1>i DEF Command, Install!InDest, Install!Target
    <3> QED
      BY <1>t, <1>i, <2>1, <2>5, <3>1 DEF StaysWhole, IsWhole, PlaceIsFree
  <2> QED
    BY <2>6, <2>7, <2>8 DEF InstallInv
<1>13. CASE UNCHANGED Install!installVars
  BY <1>13, <1>t, <1>i DEF Install!installVars, InstallInv, Install!TypeOK, NotThere, Command,
     HalfCopied, Replaces, PlaceIsFree, StaysWhole, IsWhole, Install!InDest, Install!PinIsTrue,
     Install!Target
<1> QED
  BY <1>1, <1>2, <1>3, <1>4, <1>5, <1>6, <1>7, <1>8, <1>9, <1>10, <1>11, <1>12,
     <1>13 DEF Install!Next

LEMMA InstalledHolds == InstallInv => Install!InstallHolds
<1> SUFFICES ASSUME InstallInv PROVE Install!InstallHolds
  OBVIOUS
<1>1. ikind = "process" => ~Install!InDest
  BY DEF InstallInv, Command, Install!InDest, Install!Target
<1>2. ipc = "idle" => ~Install!InDest
  BY DEF Install!InDest
<1> QED
  BY <1>1, <1>2 DEF InstallInv, StaysWhole, IsWhole, Install!InstallHolds,
     Install!WholeOrGone, Install!Whole, Install!dest

(* Every reachable state of an installation satisfies the invariant.       *)
THEOREM InstallInvariance == ASSUME Install!InstallAssumption PROVE Install!Spec => []InstallInv
<1>1. Install!Init => InstallInv
  BY InstallInit
<1>2. InstallInv /\ [Install!Next]_(Install!installVars) => InstallInv'
  BY InstallNext
<1> QED
  BY <1>1, <1>2, PTL DEF Install!Spec

(* A pinned directory holds its pinned version only, and an adapter is     *)
(* whole or not there, outside torn and mixed (adapterinstall).            *)
THEOREM InstallIsKept ==
  ASSUME Install!InstallAssumption PROVE Install!Spec => []Install!InstallHolds
BY InstalledHolds, InstallInvariance, PTL

-----------------------------------------------------------------------------
(* CsvFile.                                                                *)

(* What TypeOK leaves out.                                                 *)
CsvTyped == /\ size \in [Sessions -> Nat] /\ \A s \in Sessions : size[s] <= Len(clines)
            /\ csent \in [Sessions -> Nat \ {0}]
            /\ \A s \in Sessions : cat[s] \in {"lock", "stat", "write", "check"} =>
                 csent[s] <= RowsEach
            /\ lost \subseteq ({CsvFile!Header, CsvFile!Part} \cup CsvFile!Rows) \X Sessions

(* fileMu is held from the start of a write to its end, the lock from the  *)
(* size to the end; on a local file system one session has it.             *)
Owners ==
  /\ \A s \in Sessions : cat[s] \in {"header", "lock", "stat", "write", "check"} =>
       mutex[ProcessOf[s]] = s
  /\ \A s \in Sessions : s \in flocks <=> cat[s] \in {"stat", "write", "check"}
  /\ \A s, t \in flocks : s = t \/ fs = "network"

(* The file is created once, by the process that writes the header.        *)
Created ==
  /\ ~exists => clines = <<>> /\ lost = {} /\ \A s \in Sessions : cat[s] \in {"open", "dead"}
  /\ ~exists => ~headless
  /\ exists => creator # CsvFile!None
  /\ \A s \in Sessions : cat[s] = "header" => ProcessOf[s] = creator

(* The header is in the file, or was written over, once it is written; or  *)
(* its write failed, and it is not there.                                  *)
HeaderTried == \/ clines # <<>> /\ clines[1] = CsvFile!Header
               \/ \E loss \in lost : loss[1] = CsvFile!Header
               \/ headless
UnderHeader ==
  /\ \A i \in DOMAIN clines : clines[i] = CsvFile!Header => i = 1 /\ ~headless
  /\ \A s \in Sessions : cat[s] = "header" => ~HeaderTried
  /\ \A s \in Sessions : ProcessOf[s] = creator /\ cat[s] # "dead" =>
       HeaderTried \/ \E t \in Sessions : cat[t] = "header"
  /\ \A i \in DOMAIN clines : clines[i] \in CsvFile!Rows /\ ProcessOf[clines[i][1]] = creator
     => HeaderTried

(* What was acknowledged, or is about to be checked, was written.          *)
There(row) == CsvFile!InFile(row) \/ \E by \in Sessions : <<row, by>> \in lost
Landed ==
  /\ \A row \in acked : There(row)
  /\ \A s \in Sessions : cat[s] = "check" => There(<<s, csent[s]>>)
  /\ \A i \in DOMAIN clines : clines[i] = CsvFile!Part => faults > 0

(* A session writes its rows in order and each once.                       *)
InOrder ==
  /\ \A s \in Sessions : \A n \in 1 .. RowsEach : CsvFile!InFile(<<s, n>>) =>
       n < csent[s] \/ (n = csent[s] /\ cat[s] \in {"check", "failed", "dead"})
  /\ \A i, j \in DOMAIN clines : clines[i] = clines[j] /\ i # j => clines[i] = CsvFile!Part
  /\ \A row \in denied : row[2] = csent[row[1]] /\ cat[row[1]] \in {"failed", "dead"}

(* Between the size and the write no row of the own process comes.         *)
Beyond ==
  /\ \A s \in Sessions : cat[s] = "write" => \A i \in DOMAIN clines :
       i > size[s] /\ clines[i] \in CsvFile!Rows => ProcessOf[clines[i][1]] # ProcessOf[s]
  /\ \A loss \in lost : loss[1] \in CsvFile!Rows => CsvFile!Outsider(loss[1], loss[2])

(* On a local file system nothing comes between for the creator's process. *)
Steady == fs = "local" => \A s \in Sessions : ProcessOf[s] = creator =>
  /\ cat[s] = "write" => Len(clines) = size[s]
  /\ cat[s] = "check" => Len(clines) = size[s] + 1

FileInv == /\ CsvFile!TypeOK /\ CsvTyped /\ Owners /\ Created /\ UnderHeader /\ Landed
              /\ InOrder /\ Beyond
        /\ Steady /\ CsvFile!DeniedIsAbsent

Line == {CsvFile!Header, CsvFile!Part} \cup CsvFile!Rows

LEMMA LinesAre ==
  /\ CsvFile!Header # CsvFile!Part /\ CsvFile!Header \notin CsvFile!Rows
     /\ CsvFile!Part \notin CsvFile!Rows
  /\ \A row \in CsvFile!Rows : row = <<row[1], row[2]>> /\ row[1] \in Sessions
     /\ row[2] \in 1 .. RowsEach
  /\ \A s \in Sessions : \A n \in 1 .. RowsEach :
       <<s, n>> \in CsvFile!Rows /\ <<s, n>> # CsvFile!Header /\ <<s, n>> # CsvFile!Part
BY DEF CsvFile!Header, CsvFile!Part, CsvFile!Rows

(* What a line written at an offset changes of the file: that line, and    *)
(* what was there is lost.                                                 *)
Puts(line, offset, by) ==
  /\ clines' \in Seq(Line) /\ lost' \subseteq Line \X Sessions
  /\ Len(clines') = IF offset < Len(clines) THEN Len(clines) ELSE Len(clines) + 1
  /\ offset + 1 \in DOMAIN clines' /\ clines'[offset + 1] = line
  /\ DOMAIN clines \subseteq DOMAIN clines'
  /\ \A i \in DOMAIN clines' : i # offset + 1 => i \in DOMAIN clines /\ clines'[i] = clines[i]
  /\ lost \subseteq lost'
  /\ offset + 1 \in DOMAIN clines => <<clines[offset + 1], by>> \in lost'
  /\ \A loss \in lost' : loss \in lost \/ ( /\ offset + 1 \in DOMAIN clines
                                         /\ loss = <<clines[offset + 1], by>>)

LEMMA PutDoes ==
  ASSUME clines \in Seq(Line), lost \subseteq Line \X Sessions,
         NEW line \in Line, NEW offset \in 0 .. Len(clines), NEW by \in Sessions,
         CsvFile!Put(line, offset, by)
  PROVE  Puts(line, offset, by)
<1>1. CASE offset < Len(clines)
  BY <1>1 DEF CsvFile!Put, Puts
<1>2. CASE ~(offset < Len(clines))
  <2>1. offset = Len(clines) /\ clines' = Append(clines, line) /\ lost' = lost
    BY <1>2 DEF CsvFile!Put
  <2>2. /\ clines' \in Seq(Line) /\ Len(clines') = Len(clines) + 1
        /\ DOMAIN clines = 1 .. Len(clines) /\ DOMAIN clines' = 1 .. Len(clines) + 1
        /\ clines'[Len(clines) + 1] = line /\ \A i \in 1 .. Len(clines) : clines'[i] = clines[i]
        /\ Len(clines) \in Nat
    BY <2>1
  <2> QED
    BY <2>1, <2>2 DEF Puts
<1> QED
  BY <1>1, <1>2

(* What was in the file or lost still is; what is in it was, or is new.    *)
LEMMA PutKeeps ==
  ASSUME clines \in Seq(Line), NEW line \in Line, NEW offset \in 0 .. Len(clines),
         NEW by \in Sessions, Puts(line, offset, by)
  PROVE  /\ \A row : There(row) => There(row)'
         /\ \A row : CsvFile!InFile(row)' => CsvFile!InFile(row) \/ row = line
         /\ CsvFile!InFile(line)'
<1>1. ASSUME NEW row, There(row) PROVE There(row)'
  <2>1. CASE CsvFile!InFile(row)
    <3>1. PICK i \in DOMAIN clines : clines[i] = row
      BY <2>1 DEF CsvFile!InFile
    <3>2. CASE i = offset + 1
      BY <3>1, <3>2 DEF Puts, There
    <3>3. CASE i # offset + 1
      BY <3>1, <3>3 DEF Puts, There, CsvFile!InFile
    <3> QED
      BY <3>2, <3>3
  <2>2. CASE \E q \in Sessions : <<row, q>> \in lost
    BY <2>2 DEF Puts, There
  <2> QED
    BY <1>1, <2>1, <2>2 DEF There
<1>2. \A row : CsvFile!InFile(row)' => CsvFile!InFile(row) \/ row = line
  BY DEF Puts, CsvFile!InFile
<1>3. CsvFile!InFile(line)'
  BY DEF Puts, CsvFile!InFile
<1> QED
  BY <1>1, <1>2, <1>3

(* Where no line is written the file says what it said.                    *)
LEMMA FileStays ==
  ASSUME UNCHANGED <<clines, lost, headless>>
  PROVE  /\ HeaderTried' <=> HeaderTried
         /\ \A row : (CsvFile!InFile(row)' <=> CsvFile!InFile(row))
            /\ (There(row)' <=> There(row))
BY DEF HeaderTried, There, CsvFile!InFile

LEMMA FileInit == ASSUME CsvFile!CsvFileAssumption, CsvFile!Init PROVE FileInv
<1>1. CsvFile!TypeOK /\ CsvTyped
  <2>1. /\ clines \in Seq({CsvFile!Header, CsvFile!Part} \cup CsvFile!Rows) /\ Len(clines) = 0
        /\ MaxFaults \in Nat /\ faults \in 0 .. MaxFaults
    BY DEF CsvFile!CsvFileAssumption, CsvFile!Init
  <2>2. CsvFile!TypeOK
    BY <2>1 DEF CsvFile!Init, CsvFile!TypeOK
  <2>3. CsvTyped
    BY <2>1 DEF CsvFile!Init, CsvTyped
  <2> QED
    BY <2>2, <2>3
<1>2. Owners /\ Created /\ Landed /\ Beyond /\ Steady /\ CsvFile!DeniedIsAbsent
  BY DEF CsvFile!CsvFileAssumption, CsvFile!Init, Owners, Created, There, CsvFile!InFile,
     Landed, Beyond, Steady, CsvFile!DeniedIsAbsent
<1>3. UnderHeader
  <2>1. creator \notin CsvFile!Processes /\ clines = <<>>
    BY DEF CsvFile!CsvFileAssumption, CsvFile!Init
  <2>2. \A s \in Sessions : ProcessOf[s] # creator /\ cat[s] # "header"
    BY <2>1 DEF CsvFile!Init, CsvFile!Processes
  <2> QED
    BY <2>1, <2>2 DEF UnderHeader
<1>4. InOrder
  BY DEF CsvFile!Init, InOrder, CsvFile!InFile
<1> QED
  BY <1>1, <1>2, <1>3, <1>4 DEF FileInv

LEMMA FileNext == ASSUME CsvFile!CsvFileAssumption, FileInv,
      [CsvFile!Next]_(CsvFile!csvVars) PROVE FileInv'
<1>t. /\ clines \in Seq(Line) /\ exists \in BOOLEAN
      /\ mutex \in [CsvFile!Processes -> Sessions \cup {CsvFile!None}]
         /\ flocks \subseteq Sessions
      /\ cat \in [Sessions -> {"open", "header", "ready", "lock", "stat", "write", "check",
                              "failed", "dead"}]
      /\ acked \subseteq CsvFile!Rows /\ denied \subseteq CsvFile!Rows
      /\ faults \in Nat /\ faults <= MaxFaults
         /\ creator \in CsvFile!Processes \cup {CsvFile!None}
      /\ size \in [Sessions -> Nat] /\ csent \in [Sessions -> Nat \ {0}]
      /\ \A s \in Sessions : size[s] <= Len(clines)
      /\ \A s \in Sessions : cat[s] \in {"lock", "stat", "write", "check"} => csent[s] <= RowsEach
      /\ lost \subseteq Line \X Sessions
      /\ \A s \in Sessions : ProcessOf[s] \in CsvFile!Processes
      /\ CsvFile!None \notin Sessions /\ CsvFile!None \notin CsvFile!Processes
      /\ RowsEach \in Nat /\ MaxFaults \in Nat /\ FileSystems \subseteq {"local", "network"}
      /\ fs \in FileSystems
  BY DEF FileInv, CsvFile!TypeOK, CsvTyped, Line, CsvFile!Processes, CsvFile!CsvFileAssumption
<1>i. /\ CsvFile!TypeOK /\ CsvTyped /\ Owners /\ Created /\ UnderHeader /\ Landed /\ InOrder
         /\ Beyond
      /\ Steady /\ CsvFile!DeniedIsAbsent
  BY DEF FileInv
<1>n. Len(clines) \in Nat /\ DOMAIN clines = 1 .. Len(clines)
  BY <1>t
\* Who is at the header or at a write keeps the others of its process out.
<1>o. /\ \A s, t \in Sessions : /\ cat[s] \in {"header", "lock", "stat", "write", "check"}
                              /\ cat[t] \in {"header", "lock", "stat", "write", "check"}
                              /\ ProcessOf[s] = ProcessOf[t] => s = t
      /\ \A s, t \in Sessions : cat[s] = "header" /\ cat[t] = "header" => s = t
      /\ \A s, t \in Sessions : /\ cat[s] \in {"stat", "write", "check"} /\ fs = "local"
                              /\ cat[t] \in {"stat", "write", "check"} => s = t
      /\ fs # "local" => fs = "network"
  BY <1>t, <1>i DEF Owners, Created
<1>1. ASSUME NEW s \in Sessions, CsvFile!EnsureHeader(s) PROVE FileInv'
  <2>f. /\ cat[s] = "open" /\ mutex[ProcessOf[s]] = CsvFile!None
        /\ UNCHANGED <<fs, clines, flocks, size, csent, acked, denied, faults, lost,
           headless, blind>>
    BY <1>1 DEF CsvFile!EnsureHeader, CsvFile!Free
  <2>s. /\ HeaderTried' <=> HeaderTried
        /\ \A row : (CsvFile!InFile(row)' <=> CsvFile!InFile(row)) /\ (There(row)' <=> There(row))
    BY <2>f, FileStays
  <2>a. CASE exists
    <3>1. /\ \A t \in Sessions : cat'[t] = IF t = s THEN "ready" ELSE cat[t]
          /\ cat' \in [Sessions -> {"open", "header", "ready", "lock", "stat", "write",
                                    "check", "failed", "dead"}]
          /\ UNCHANGED <<exists, mutex, creator>>
      BY <1>t, <1>1, <2>a DEF CsvFile!EnsureHeader, CsvFile!Goes
    <3>2. CsvFile!TypeOK' /\ CsvTyped' /\ Owners' /\ Created'
      BY <1>t, <1>i, <2>f, <2>a, <3>1 DEF CsvFile!TypeOK, CsvTyped, Owners, Created
    <3>a. \A t \in Sessions : /\ cat'[t] = "header" <=> cat[t] = "header"
                            /\ cat'[t] = "dead" <=> cat[t] = "dead"
      BY <2>f, <3>1
    <3>b. \A t \in Sessions : ProcessOf[t] = creator /\ cat'[t] # "dead" =>
            HeaderTried \/ \E q \in Sessions : cat'[q] = "header"
      <4> SUFFICES ASSUME NEW t \in Sessions, ProcessOf[t] = creator, cat'[t] # "dead",
            ~HeaderTried
                   PROVE  \E q \in Sessions : cat'[q] = "header"
        OBVIOUS
      <4>1. PICK q \in Sessions : cat[q] = "header"
        BY <1>i, <3>a DEF UnderHeader
      <4>2. q \in Sessions /\ cat'[q] = "header"
        BY <2>f, <3>1, <4>1
      <4> QED
        BY <4>2
    <3>3. UnderHeader'
      BY <1>i, <2>f, <2>s, <3>1, <3>a, <3>b DEF UnderHeader
    <3>4. Landed'
      BY <1>i, <2>f, <2>s, <3>1 DEF Landed
    <3>5. Beyond' /\ Steady' /\ CsvFile!DeniedIsAbsent'
      BY <1>t, <1>i, <2>f, <2>s, <3>1 DEF Beyond, CsvFile!Outsider, Steady, CsvFile!DeniedIsAbsent
    <3>6. \A t \in Sessions : \A n \in 1 .. RowsEach : CsvFile!InFile(<<t, n>>)' =>
            n < csent[t] \/ (n = csent[t] /\ cat'[t] \in {"check", "failed", "dead"})
      BY <1>i, <2>f, <2>s, <3>1 DEF InOrder
    <3>7. \A r \in denied : r[2] = csent[r[1]] /\ cat'[r[1]] \in {"failed", "dead"}
      BY <1>t, <1>i, <2>f, <3>1, LinesAre DEF InOrder
    <3>8. InOrder'
      BY <1>i, <2>f, <3>6, <3>7 DEF InOrder
    <3> QED
      BY <3>2, <3>3, <3>4, <3>5, <3>8 DEF FileInv
  <2>b. CASE ~exists
    <3>1. /\ \A t \in Sessions : cat'[t] = IF t = s THEN "header" ELSE cat[t]
          /\ cat' \in [Sessions -> {"open", "header", "ready", "lock", "stat", "write",
                                    "check", "failed", "dead"}]
          /\ mutex' \in [CsvFile!Processes -> Sessions \cup {CsvFile!None}]
          /\ \A p \in CsvFile!Processes : mutex'[p] = IF p = ProcessOf[s] THEN s ELSE mutex[p]
          /\ exists' = TRUE /\ creator' = ProcessOf[s]
      <4>1. /\ cat' = [cat EXCEPT ![s] = "header"] /\ mutex' = [mutex EXCEPT ![ProcessOf[s]] = s]
            /\ exists' = TRUE /\ creator' = ProcessOf[s]
        BY <1>1, <2>b DEF CsvFile!EnsureHeader, CsvFile!Goes, CsvFile!Creates, CsvFile!Holds
      <4> QED
        BY <1>t, <4>1
    <3>2. clines = <<>> /\ lost = {} /\ \A t \in Sessions : cat[t] \in {"open", "dead"}
      BY <1>i, <2>b DEF Created
    <3>3. CsvFile!TypeOK' /\ CsvTyped' /\ Owners' /\ Created'
      BY ZenonT(30), <1>t, <1>i, <2>f, <3>1, <3>2 DEF CsvFile!TypeOK, CsvTyped, Owners, Created
    <3>n. ~HeaderTried
      BY <1>i, <2>b, <3>2 DEF Created, HeaderTried
    <3>a. \A i \in DOMAIN clines' : FALSE
      BY <2>f, <3>2
    <3>b. \A t \in Sessions : cat'[t] = "header" => ~HeaderTried'
      BY <2>s, <3>n
    <3>c. s \in Sessions /\ cat'[s] = "header"
      BY <3>1
    <3>4. UnderHeader'
      BY <3>a, <3>b, <3>c DEF UnderHeader
    <3>5. Landed'
      BY <1>i, <2>f, <2>s, <3>1 DEF Landed
    <3>6. Beyond' /\ Steady'
      BY <1>t, <2>f, <3>1, <3>2 DEF Beyond, Steady
    <3>7. CsvFile!DeniedIsAbsent'
      BY <1>t, <2>f, <2>s, <3>1, <3>2 DEF CsvFile!DeniedIsAbsent, CsvFile!InFile
    <3>8. \A t \in Sessions : \A n \in 1 .. RowsEach : CsvFile!InFile(<<t, n>>)' =>
            n < csent[t] \/ (n = csent[t] /\ cat'[t] \in {"check", "failed", "dead"})
      BY <1>i, <2>f, <2>s, <3>1 DEF InOrder
    <3>9. \A r \in denied : r[2] = csent[r[1]] /\ cat'[r[1]] \in {"failed", "dead"}
      BY <1>t, <1>i, <2>f, <3>1, LinesAre DEF InOrder
    <3>10. InOrder'
      BY <1>i, <2>f, <3>8, <3>9 DEF InOrder
    <3> QED
      BY <3>3, <3>4, <3>5, <3>6, <3>7, <3>10 DEF FileInv
  <2> QED
    BY <2>a, <2>b
<1>2. ASSUME NEW s \in Sessions, CsvFile!WriteHeader(s) PROVE FileInv'
  <2>f. /\ cat[s] = "header" /\ ProcessOf[s] = creator /\ exists /\ ~HeaderTried
        /\ UNCHANGED <<fs, exists, flocks, size, csent, acked, denied, faults, creator,
           headless, blind>>
        /\ \A t \in Sessions : cat'[t] = IF t = s THEN "ready" ELSE cat[t]
        /\ cat' \in [Sessions -> {"open", "header", "ready", "lock", "stat", "write",
                                  "check", "failed", "dead"}]
        /\ mutex' \in [CsvFile!Processes -> Sessions \cup {CsvFile!None}]
        /\ \A p \in CsvFile!Processes : mutex'[p] = IF p = ProcessOf[s] THEN CsvFile!None
           ELSE mutex[p]
    BY <1>t, <1>i, <1>2 DEF CsvFile!WriteHeader, CsvFile!Goes, CsvFile!Frees, Created, UnderHeader
  <2>h. CsvFile!Header \in Line
    BY DEF Line
  <2>p. Puts(CsvFile!Header, 0, s)
    BY <1>t, <1>n, <1>2, <2>h, PutDoes DEF CsvFile!WriteHeader
  <2>s. /\ \A row : There(row) => There(row)'
        /\ \A row : CsvFile!InFile(row)' => CsvFile!InFile(row) \/ row = CsvFile!Header
    <3>1. clines \in Seq(Line) /\ 0 \in 0 .. Len(clines)
      BY <1>t, <1>n
    <3> QED
      BY <2>h, <2>p, <3>1, PutKeeps, Zenon
  <2>w. /\ \A i \in DOMAIN clines' : i # 1 => i \in DOMAIN clines /\ clines'[i] = clines[i]
        /\ 1 \in DOMAIN clines' /\ clines'[1] = CsvFile!Header /\ clines' \in Seq(Line)
           /\ Len(clines') >= Len(clines)
        /\ lost' \subseteq Line \X Sessions
        /\ \A loss \in lost' : loss \in lost \/ (1 \in DOMAIN clines /\ loss = <<clines[1], s>>)
        /\ \A i \in DOMAIN clines : clines[i] # CsvFile!Header
        /\ ~headless
    <3>1. ~headless /\ \A i \in DOMAIN clines : clines[i] # CsvFile!Header
      BY <1>i, <1>n, <2>f DEF UnderHeader, HeaderTried
    <3> QED
      BY <1>n, <2>p, <3>1 DEF Puts
  <2>1. CsvFile!TypeOK'
    BY <1>t, <1>i, <2>f, <2>w DEF CsvFile!TypeOK, Line
  <2>2. CsvTyped'
    BY <1>t, <1>n, <1>i, <2>f, <2>w DEF CsvTyped, Line
  <2>3. Owners'
    <3>1. \A t \in Sessions : t # s => cat'[t] = cat[t]
      BY <2>f
    <3>2. ASSUME NEW t \in Sessions, cat'[t] \in {"header", "lock", "stat", "write", "check"}
          PROVE  mutex'[ProcessOf[t]] = t
      <4>1. t # s /\ cat'[t] = cat[t]
        BY <2>f, <3>2
      <4>2. ProcessOf[t] # ProcessOf[s]
        BY <1>o, <2>f, <3>2, <4>1
      <4>3. mutex[ProcessOf[t]] = t
        BY <1>i, <3>2, <4>1 DEF Owners
      <4> QED
        BY <1>t, <2>f, <4>2, <4>3
    <3>3. \A t \in Sessions : t \in flocks' <=> cat'[t] \in {"stat", "write", "check"}
      BY <1>i, <2>f, <3>1 DEF Owners
    <3> QED
      BY <1>i, <2>f, <3>2, <3>3 DEF Owners
  <2>4. Created'
    BY <1>t, <1>i, <2>f DEF Created
  <2>5. UnderHeader'
    <3>1. HeaderTried'
      BY <2>w DEF HeaderTried
    <3>2. \A t \in Sessions : cat'[t] # "header"
      BY <1>o, <2>f
    <3> QED
      BY <2>f, <2>w, <3>1, <3>2 DEF UnderHeader
  <2>6. Landed'
    BY <1>i, <2>f, <2>s, <2>w, LinesAre DEF Landed
  <2>7. InOrder'
    <3>1. \A i, j \in DOMAIN clines' : clines'[i] = clines'[j] /\ i # j
          => clines'[i] = CsvFile!Part
      BY <1>i, <2>w DEF InOrder
    <3>2. \A t \in Sessions : \A n \in 1 .. RowsEach : CsvFile!InFile(<<t, n>>)'
          => CsvFile!InFile(<<t, n>>)
      BY <2>s, LinesAre
    <3>3. \A t \in Sessions : \A n \in 1 .. RowsEach : CsvFile!InFile(<<t, n>>)' =>
            n < csent[t] \/ (n = csent[t] /\ cat'[t] \in {"check", "failed", "dead"})
      BY <1>i, <2>f, <3>2 DEF InOrder
    <3>4. \A r \in denied : r[2] = csent[r[1]] /\ cat'[r[1]] \in {"failed", "dead"}
      BY <1>t, <1>i, <2>f, LinesAre DEF InOrder
    <3> QED
      BY <2>f, <3>1, <3>3, <3>4 DEF InOrder
  <2>8. Beyond'
    <3>1. 1 \in DOMAIN clines /\ clines[1] \in CsvFile!Rows => ProcessOf[clines[1][1]] # creator
      BY <1>i, <2>f DEF UnderHeader
    <3>2. \A loss \in lost' : loss[1] \in CsvFile!Rows => CsvFile!Outsider(loss[1], loss[2])
      BY <1>i, <2>f, <2>w, <3>1 DEF Beyond, CsvFile!Outsider
    <3>3. \A i \in DOMAIN clines' : clines'[i] \in CsvFile!Rows => i \in DOMAIN clines
          /\ clines'[i] = clines[i]
      BY <2>w, LinesAre
    <3> QED
      BY <1>i, <2>f, <3>2, <3>3 DEF Beyond, CsvFile!Outsider
  <2>9. Steady'
    BY <1>i, <1>o, <2>f DEF Steady
  <2>10. CsvFile!DeniedIsAbsent'
    BY <1>t, <1>i, <2>f, <2>s, LinesAre DEF CsvFile!DeniedIsAbsent
  <2> QED
    BY <2>1, <2>2, <2>3, <2>4, <2>5, <2>6, <2>7, <2>8, <2>9, <2>10 DEF FileInv
<1>3. ASSUME NEW s \in Sessions, CsvFile!Begin(s) PROVE FileInv'
  <2>f. /\ cat[s] = "ready"
        /\ \A t \in Sessions : cat'[t] = IF t = s THEN "lock" ELSE cat[t]
        /\ cat' \in [Sessions -> {"open", "header", "ready", "lock", "stat", "write",
                                  "check", "failed", "dead"}]
        /\ mutex' \in [CsvFile!Processes -> Sessions \cup {CsvFile!None}]
           /\ mutex[ProcessOf[s]] = CsvFile!None
        /\ \A p \in CsvFile!Processes : mutex'[p] = IF p = ProcessOf[s] THEN s ELSE mutex[p]
        /\ csent[s] <= RowsEach
        /\ UNCHANGED <<fs, exists, clines, flocks, size, csent, acked, denied, faults,
           creator, lost, headless, blind>>
    BY <1>t, <1>n, <1>3 DEF CsvFile!Begin, CsvFile!Goes, CsvFile!Holds, CsvFile!Free
  <2>s. /\ HeaderTried' <=> HeaderTried
        /\ \A row : (CsvFile!InFile(row)' <=> CsvFile!InFile(row)) /\ (There(row)' <=> There(row))
    BY <2>f, FileStays
  <2>1. CsvFile!TypeOK'
    BY <1>t, <1>n, <1>i, <1>o, <2>f, <2>s DEF CsvFile!TypeOK
  <2>2. CsvTyped'
    BY <1>t, <1>n, <1>i, <1>o, <2>f, <2>s DEF CsvTyped
  <2>3. Owners'
    <3>1. ASSUME NEW t \in Sessions, t # s,
                 cat[t] \in {"header", "lock", "stat", "write", "check"}
          PROVE  mutex'[ProcessOf[t]] = t
      <4>1. mutex[ProcessOf[t]] = t
        BY <1>i, <3>1 DEF Owners
      <4>2. ProcessOf[t] # ProcessOf[s]
        BY <1>t, <2>f, <4>1
      <4> QED
        BY <1>t, <2>f, <4>1, <4>2
    <3>2. mutex'[ProcessOf[s]] = s
      BY <1>t, <2>f
    <3>3. \A t \in Sessions : t \in flocks' <=> cat'[t] \in {"stat", "write", "check"}
      BY <1>i, <2>f DEF Owners
    <3> QED
      BY <1>i, <2>f, <3>1, <3>2, <3>3 DEF Owners
  <2>4. Created'
    BY <1>t, <1>i, <2>f, <2>s DEF Created
  <2>5. UnderHeader'
    BY ZenonT(30), <1>t, <1>i, <2>f, <2>s DEF UnderHeader
  <2>6. Landed'
    BY <1>t, <1>n, <1>i, <1>o, <2>f, <2>s DEF Landed
  <2>7. InOrder'
    <3>1. \A t \in Sessions : \A n \in 1 .. RowsEach : CsvFile!InFile(<<t, n>>)' =>
            n < csent[t] \/ (n = csent[t] /\ cat'[t] \in {"check", "failed", "dead"})
      BY <1>i, <2>f, <2>s DEF InOrder
    <3>2. \A r \in denied : r[2] = csent[r[1]] /\ cat'[r[1]] \in {"failed", "dead"}
      BY <1>t, <1>i, <2>f, LinesAre DEF InOrder
    <3> QED
      BY <1>i, <2>f, <3>1, <3>2 DEF InOrder
  <2>8. Beyond'
    BY ZenonT(30), <1>t, <1>n, <1>i, <1>o, <2>f DEF Beyond, CsvFile!Outsider, Owners
  <2>9. Steady'
    BY <1>t, <1>n, <1>i, <1>o, <2>f DEF Steady, Owners
  <2>10. CsvFile!DeniedIsAbsent'
    BY <1>t, <1>n, <1>i, <1>o, <2>f, <2>s DEF CsvFile!DeniedIsAbsent
  <2> QED
    BY <2>1, <2>2, <2>3, <2>4, <2>5, <2>6, <2>7, <2>8, <2>9, <2>10 DEF FileInv
<1>4. ASSUME NEW s \in Sessions, CsvFile!Flock(s) PROVE FileInv'
  <2>f. /\ cat[s] = "lock"
        /\ \A t \in Sessions : cat'[t] = IF t = s THEN "stat" ELSE cat[t]
        /\ cat' \in [Sessions -> {"open", "header", "ready", "lock", "stat", "write",
                                  "check", "failed", "dead"}]
        /\ flocks' = flocks \cup {s}
        /\ \A t \in flocks : fs = "network" /\ ProcessOf[t] # ProcessOf[s]
        /\ UNCHANGED <<fs, exists, clines, mutex, size, csent, acked, denied, faults, creator,
           lost, headless, blind>>
    BY <1>t, <1>n, <1>4 DEF CsvFile!Flock, CsvFile!Goes
  <2>s. /\ HeaderTried' <=> HeaderTried
        /\ \A row : (CsvFile!InFile(row)' <=> CsvFile!InFile(row)) /\ (There(row)' <=> There(row))
    BY <2>f, FileStays
  <2>1. CsvFile!TypeOK'
    BY <1>t, <1>n, <1>i, <1>o, <2>f, <2>s DEF CsvFile!TypeOK
  <2>2. CsvTyped'
    BY <1>t, <1>n, <1>i, <1>o, <2>f, <2>s DEF CsvTyped
  <2>3. Owners'
    BY <1>t, <1>n, <1>i, <1>o, <2>f, <2>s DEF Owners
  <2>4. Created'
    BY <1>t, <1>n, <1>i, <1>o, <2>f, <2>s DEF Created
  <2>5. UnderHeader'
    BY <1>t, <1>n, <1>i, <1>o, <2>f, <2>s DEF UnderHeader
  <2>6. Landed'
    BY <1>t, <1>n, <1>i, <1>o, <2>f, <2>s DEF Landed
  <2>7. InOrder'
    <3>1. \A t \in Sessions : \A n \in 1 .. RowsEach : CsvFile!InFile(<<t, n>>)' =>
            n < csent[t] \/ (n = csent[t] /\ cat'[t] \in {"check", "failed", "dead"})
      BY <1>i, <2>f, <2>s DEF InOrder
    <3>2. \A r \in denied : r[2] = csent[r[1]] /\ cat'[r[1]] \in {"failed", "dead"}
      BY <1>t, <1>i, <2>f, LinesAre DEF InOrder
    <3> QED
      BY <1>i, <2>f, <3>1, <3>2 DEF InOrder
  <2>8. Beyond'
    BY <1>t, <1>n, <1>i, <1>o, <2>f DEF Beyond, CsvFile!Outsider, Owners
  <2>9. Steady'
    BY <1>t, <1>n, <1>i, <1>o, <2>f DEF Steady, Owners
  <2>10. CsvFile!DeniedIsAbsent'
    BY <1>t, <1>n, <1>i, <1>o, <2>f, <2>s DEF CsvFile!DeniedIsAbsent
  <2> QED
    BY <2>1, <2>2, <2>3, <2>4, <2>5, <2>6, <2>7, <2>8, <2>9, <2>10 DEF FileInv
<1>5. ASSUME NEW s \in Sessions, CsvFile!Stat(s) PROVE FileInv'
  <2>f. /\ cat[s] = "stat"
        /\ \A t \in Sessions : cat'[t] = IF t = s THEN "write" ELSE cat[t]
        /\ cat' \in [Sessions -> {"open", "header", "ready", "lock", "stat", "write",
                                  "check", "failed", "dead"}]
        /\ size' \in [Sessions -> Nat]
        /\ \A t \in Sessions : size'[t] = IF t = s THEN Len(clines) ELSE size[t]
        /\ UNCHANGED <<fs, exists, clines, mutex, flocks, csent, acked, denied, faults,
           creator, lost, headless, blind>>
    BY <1>t, <1>n, <1>5 DEF CsvFile!Stat, CsvFile!Goes
  <2>s. /\ HeaderTried' <=> HeaderTried
        /\ \A row : (CsvFile!InFile(row)' <=> CsvFile!InFile(row)) /\ (There(row)' <=> There(row))
    BY <2>f, FileStays
  <2>1. CsvFile!TypeOK'
    BY <1>t, <1>n, <1>i, <1>o, <2>f, <2>s DEF CsvFile!TypeOK
  <2>2. CsvTyped'
    BY <1>t, <1>n, <1>i, <1>o, <2>f, <2>s DEF CsvTyped
  <2>3. Owners'
    BY <1>t, <1>n, <1>i, <1>o, <2>f, <2>s DEF Owners
  <2>4. Created'
    BY <1>t, <1>n, <1>i, <1>o, <2>f, <2>s DEF Created
  <2>5. UnderHeader'
    BY <1>t, <1>n, <1>i, <1>o, <2>f, <2>s DEF UnderHeader
  <2>6. Landed'
    BY <1>t, <1>n, <1>i, <1>o, <2>f, <2>s DEF Landed
  <2>7. InOrder'
    <3>1. \A t \in Sessions : \A n \in 1 .. RowsEach : CsvFile!InFile(<<t, n>>)' =>
            n < csent[t] \/ (n = csent[t] /\ cat'[t] \in {"check", "failed", "dead"})
      BY <1>i, <2>f, <2>s DEF InOrder
    <3>2. \A r \in denied : r[2] = csent[r[1]] /\ cat'[r[1]] \in {"failed", "dead"}
      BY <1>t, <1>i, <2>f, LinesAre DEF InOrder
    <3> QED
      BY <1>i, <2>f, <3>1, <3>2 DEF InOrder
  <2>8. Beyond'
    BY <1>t, <1>n, <1>i, <1>o, <2>f DEF Beyond, CsvFile!Outsider, Owners
  <2>9. Steady'
    BY <1>t, <1>n, <1>i, <1>o, <2>f DEF Steady, Owners
  <2>10. CsvFile!DeniedIsAbsent'
    BY <1>t, <1>n, <1>i, <1>o, <2>f, <2>s DEF CsvFile!DeniedIsAbsent
  <2> QED
    BY <2>1, <2>2, <2>3, <2>4, <2>5, <2>6, <2>7, <2>8, <2>9, <2>10 DEF FileInv
<1>6. ASSUME NEW s \in Sessions, CsvFile!WriteRow(s) PROVE FileInv'
  <2>y. PICK row : row = <<s, csent[s]>>
    OBVIOUS
  <2>f. /\ cat[s] = "write" /\ row \in Line /\ row \in CsvFile!Rows /\ s \in flocks
        /\ \A t \in Sessions : cat'[t] = IF t = s THEN "check" ELSE cat[t]
        /\ cat' \in [Sessions -> {"open", "header", "ready", "lock", "stat", "write",
                                  "check", "failed", "dead"}]
        /\ UNCHANGED <<fs, exists, mutex, flocks, size, csent, acked, denied, faults, creator,
           headless, blind>>
    BY <1>t, <1>i, <1>6, <2>y, LinesAre DEF CsvFile!WriteRow, CsvFile!Goes, Owners, Line
  <2>k. PICK k \in 0 .. Len(clines) :
          /\ CsvFile!Put(row, k, s) /\ (k = Len(clines) \/ (fs = "network" /\ k = size[s]))
    <3>1. \/ CsvFile!Put(<<s, csent[s]>>, Len(clines), s)
          \/ fs = "network" /\ CsvFile!Put(<<s, csent[s]>>, size[s], s)
      BY <1>6 DEF CsvFile!WriteRow
    <3>2. Len(clines) \in 0 .. Len(clines) /\ size[s] \in 0 .. Len(clines)
      BY <1>t, <1>n
    <3> QED
      BY <2>y, <3>1, <3>2
  <2>e. row[1] = s /\ row[2] = csent[s] /\ row # CsvFile!Header /\ row # CsvFile!Part
        /\ ~CsvFile!InFile(row)
    <3>1. csent[s] \in 1 .. RowsEach
      BY <1>t, <2>f
    <3>2. ~CsvFile!InFile(<<s, csent[s]>>)
      <4>1. CsvFile!InFile(<<s, csent[s]>>) => csent[s] < csent[s]
            \/ cat[s] \in {"check", "failed", "dead"}
        BY <1>i, <3>1 DEF InOrder
      <4> QED
        BY <2>f, <3>1, <4>1
    <3> QED
      BY <2>f, <2>y, <3>2, LinesAre
  <2>p. Puts(row, k, s)
    BY <1>t, <2>f, <2>k, PutDoes
  <2>l. k \in 0 .. Len(clines) /\ (k = Len(clines) \/ (fs = "network" /\ k = size[s]))
    BY <2>k
  <2>s. /\ \A r : There(r) => There(r)'
        /\ \A r : CsvFile!InFile(r)' => CsvFile!InFile(r) \/ r = row
        /\ CsvFile!InFile(row)'
    <3>1. clines \in Seq(Line) /\ row \in Line
      BY <1>t, <2>f
    <3> QED
      BY <2>l, <2>p, <3>1, PutKeeps
  <2>w. /\ \A i \in DOMAIN clines' : i # k + 1 => i \in DOMAIN clines /\ clines'[i] = clines[i]
        /\ k + 1 \in DOMAIN clines' /\ clines'[k + 1] = row /\ clines' \in Seq(Line)
        /\ Len(clines') >= Len(clines) /\ (fs = "local" => Len(clines') = Len(clines) + 1)
        /\ lost' \subseteq Line \X Sessions
        /\ \A loss \in lost' : loss \in lost
           \/ (k + 1 \in DOMAIN clines /\ loss = <<clines[k + 1], s>>)
    <3>1. Len(clines') >= Len(clines)
      BY <1>n, <2>p DEF Puts
    <3>2. fs = "local" => Len(clines') = Len(clines) + 1
      BY <1>n, <2>l, <2>p DEF Puts
    <3> QED
      BY <2>p, <3>1, <3>2 DEF Puts
  <2>h. HeaderTried' <=> HeaderTried
    <3>1. ASSUME HeaderTried PROVE HeaderTried'
      <4>1. CASE clines # <<>> /\ clines[1] = CsvFile!Header
        <5>1. 1 \in DOMAIN clines /\ DOMAIN clines \subseteq DOMAIN clines'
          BY <1>t, <1>n, <2>p, <4>1 DEF Puts
        <5>2. CASE k + 1 = 1
          BY <2>p, <4>1, <5>1, <5>2 DEF Puts, HeaderTried
        <5>3. CASE k + 1 # 1
          BY <2>w, <4>1, <5>1, <5>3 DEF HeaderTried
        <5> QED
          BY <5>2, <5>3
      <4>2. CASE \E loss \in lost : loss[1] = CsvFile!Header
        BY <2>p, <4>2 DEF Puts, HeaderTried
      <4>3. CASE headless
        BY <2>f, <4>3 DEF HeaderTried
      <4> QED
        BY <3>1, <4>1, <4>2, <4>3 DEF HeaderTried
    <3>2. ASSUME HeaderTried' PROVE HeaderTried
      <4>1. CASE clines' # <<>> /\ clines'[1] = CsvFile!Header
        <5>1. 1 \in DOMAIN clines' /\ 1 # k + 1
          BY <2>e, <2>w, <4>1
        <5> QED
          BY <1>n, <2>w, <4>1, <5>1 DEF HeaderTried
      <4>2. CASE \E loss \in lost' : loss[1] = CsvFile!Header
        <5>1. PICK loss \in lost' : loss[1] = CsvFile!Header
          BY <4>2
        <5>2. CASE loss \in lost
          BY <5>1, <5>2 DEF HeaderTried
        <5>3. CASE k + 1 \in DOMAIN clines /\ loss = <<clines[k + 1], s>>
          <6>1. clines[k + 1] = CsvFile!Header
            BY <5>1, <5>3
          <6>2. k + 1 = 1
            BY <1>i, <5>3, <6>1 DEF UnderHeader
          <6> QED
            BY <1>n, <5>3, <6>1, <6>2 DEF HeaderTried
        <5> QED
          BY <2>w, <5>1, <5>2, <5>3
      <4>3. CASE headless'
        BY <2>f, <4>3 DEF HeaderTried
      <4> QED
        BY <3>2, <4>1, <4>2, <4>3 DEF HeaderTried
    <3> QED
      BY <3>1, <3>2
  <2>1. CsvFile!TypeOK'
    BY <1>t, <1>i, <2>f, <2>w DEF CsvFile!TypeOK, Line
  <2>2. CsvTyped'
    BY <1>t, <1>n, <1>i, <2>f, <2>w DEF CsvTyped, Line
  <2>3. Owners'
    BY <1>t, <1>i, <1>o, <2>f DEF Owners
  <2>4. Created'
    BY <1>t, <1>i, <2>f DEF Created
  <2>5. UnderHeader'
    <3>1. \A i \in DOMAIN clines' : clines'[i] = CsvFile!Header => i = 1 /\ ~headless
      BY <1>i, <2>e, <2>w DEF UnderHeader
    <3>2. ProcessOf[s] = creator => HeaderTried
      BY <1>i, <1>o, <2>f DEF UnderHeader, Created
    <3>3. \A i \in DOMAIN clines' : clines'[i] \in CsvFile!Rows
          /\ ProcessOf[clines'[i][1]] = creator =>
            HeaderTried
      BY <1>i, <2>e, <2>w, <3>2 DEF UnderHeader
    <3>4. \A t \in Sessions : cat'[t] = "header" <=> cat[t] = "header"
      BY <2>f
    <3>5. \A t \in Sessions : ProcessOf[t] = creator /\ cat'[t] # "dead" =>
            HeaderTried \/ \E q \in Sessions : cat'[q] = "header"
      BY <1>i, <2>f, <3>4 DEF UnderHeader
    <3> QED
      BY <1>i, <2>f, <2>h, <3>1, <3>3, <3>4, <3>5 DEF UnderHeader
  <2>6. Landed'
    <3>1. There(row)'
      BY <2>s DEF There
    <3>2. \A i \in DOMAIN clines' : clines'[i] = CsvFile!Part => faults > 0
      BY <1>i, <2>e, <2>w DEF Landed
    <3>3. \A t \in Sessions : cat'[t] = "check" => There(<<t, csent[t]>>)'
      BY <1>i, <2>f, <2>s, <2>y, <3>1 DEF Landed
    <3> QED
      BY <1>i, <2>f, <2>s, <3>2, <3>3 DEF Landed
  <2>7. InOrder'
    <3>1. \A i, j \in DOMAIN clines' : clines'[i] = clines'[j] /\ i # j
          => clines'[i] = CsvFile!Part
      <4> SUFFICES ASSUME NEW i \in DOMAIN clines', NEW j \in DOMAIN clines',
                          clines'[i] = clines'[j], i # j
                   PROVE  clines'[i] = CsvFile!Part
        OBVIOUS
      <4>1. i # k + 1 /\ j # k + 1
        BY <2>e, <2>w DEF CsvFile!InFile
      <4> QED
        BY <1>i, <2>w, <4>1 DEF InOrder
    <3>2. \A t \in Sessions : \A n \in 1 .. RowsEach : CsvFile!InFile(<<t, n>>)' =>
            CsvFile!InFile(<<t, n>>) \/ (t = s /\ n = csent[s])
      BY <2>s, <2>y
    <3>3. \A t \in Sessions : \A n \in 1 .. RowsEach : CsvFile!InFile(<<t, n>>)' =>
            n < csent[t] \/ (n = csent[t] /\ cat'[t] \in {"check", "failed", "dead"})
      BY <1>i, <2>f, <3>2 DEF InOrder
    <3>4. \A r \in denied : r[2] = csent[r[1]] /\ cat'[r[1]] \in {"failed", "dead"}
      BY <1>t, <1>i, <2>f, LinesAre DEF InOrder
    <3> QED
      BY <2>f, <3>1, <3>3, <3>4 DEF InOrder
  <2>8. Beyond'
    <3>1. ASSUME NEW t \in Sessions, cat'[t] = "write", NEW i \in DOMAIN clines',
                 i > size[t], clines'[i] \in CsvFile!Rows
          PROVE  ProcessOf[clines'[i][1]] # ProcessOf[t]
      <4>1. t # s /\ cat[t] = "write"
        BY <2>f, <3>1
      <4>2. ProcessOf[s] # ProcessOf[t]
        BY <1>o, <2>f, <4>1
      <4> QED
        BY <1>i, <2>e, <2>w, <3>1, <4>1, <4>2 DEF Beyond
    <3>2. ASSUME NEW loss \in lost', loss[1] \in CsvFile!Rows
          PROVE CsvFile!Outsider(loss[1], loss[2])
      <4>1. CASE loss \in lost
        BY <1>i, <3>2, <4>1 DEF Beyond
      <4>2. CASE k + 1 \in DOMAIN clines /\ loss = <<clines[k + 1], s>>
        <5>1. k + 1 > size[s] /\ fs = "network"
          <6>0. k \in 0 .. Len(clines) /\ Len(clines) \in Nat
            BY <1>n, <2>l
          <6>1. k + 1 \in 1 .. Len(clines)
            BY <1>n, <4>2
          <6>2. k # Len(clines) /\ k + 1 > k
            BY <6>0, <6>1
          <6>3. k = size[s] /\ fs = "network"
            BY <2>l, <6>2
          <6> QED
            BY SMTT(30), <6>1, <6>3
        <5>2. ProcessOf[clines[k + 1][1]] # ProcessOf[s]
          BY <1>i, <2>f, <3>2, <4>2, <5>1 DEF Beyond
        <5> QED
          BY <4>2, <5>1, <5>2 DEF CsvFile!Outsider
      <4> QED
        BY <2>w, <4>1, <4>2
    <3> QED
      BY <2>f, <3>1, <3>2 DEF Beyond, CsvFile!Outsider
  <2>9. Steady'
    <3>1. ASSUME fs = "local", NEW t \in Sessions, ProcessOf[t] = creator
          PROVE  /\ cat'[t] = "write" => Len(clines') = size[t]
                 /\ cat'[t] = "check" => Len(clines') = size[t] + 1
      BY <1>i, <1>o, <2>f, <2>w, <3>1 DEF Steady
    <3> QED
      BY <2>f, <3>1 DEF Steady
  <2>10. CsvFile!DeniedIsAbsent'
    <3>1. row \notin denied
      BY <1>i, <2>f, <2>e DEF InOrder
    <3> QED
      BY <1>i, <2>f, <2>s, <3>1 DEF CsvFile!DeniedIsAbsent
  <2> QED
    BY <2>1, <2>2, <2>3, <2>4, <2>5, <2>6, <2>7, <2>8, <2>9, <2>10 DEF FileInv
<1>7. ASSUME NEW s \in Sessions, CsvFile!WriteCut(s) PROVE FileInv'
  <2>f. /\ cat[s] = "write" /\ faults' = faults + 1 /\ faults < MaxFaults
        /\ \A t \in Sessions : cat'[t] = IF t = s THEN "failed" ELSE cat[t]
        /\ cat' \in [Sessions -> {"open", "header", "ready", "lock", "stat", "write",
                                  "check", "failed", "dead"}]
        /\ mutex' \in [CsvFile!Processes -> Sessions \cup {CsvFile!None}]
           /\ flocks' = flocks \ {s}
        /\ \A p \in CsvFile!Processes : mutex'[p] = IF p = ProcessOf[s] THEN CsvFile!None
           ELSE mutex[p]
        /\ denied' = denied \cup {<<s, csent[s]>>}
        /\ UNCHANGED <<fs, exists, size, csent, acked, creator, lost, headless, blind>>
    BY <1>t, <1>7 DEF CsvFile!WriteCut, CsvFile!Goes, CsvFile!Unlock, CsvFile!Frees, CsvFile!Fails
  <2>w. /\ clines' \in Seq(Line) /\ Len(clines') = Len(clines) + 1
        /\ DOMAIN clines' = 1 .. Len(clines) + 1
        /\ clines'[Len(clines) + 1] = CsvFile!Part
           /\ \A i \in 1 .. Len(clines) : clines'[i] = clines[i]
    <3>1. CsvFile!Part \in Line /\ clines' = Append(clines, CsvFile!Part)
      BY <1>7 DEF CsvFile!WriteCut, Line
    <3> QED
      BY <1>t, <1>n, <3>1
  <2>s. /\ \A row : There(row) => There(row)'
        /\ \A row : CsvFile!InFile(row)' => CsvFile!InFile(row) \/ row = CsvFile!Part
        /\ HeaderTried' <=> HeaderTried
    <3>1. \A row : CsvFile!InFile(row) => CsvFile!InFile(row)'
      BY <1>n, <2>w DEF CsvFile!InFile
    <3>2. \A row : CsvFile!InFile(row)' => CsvFile!InFile(row) \/ row = CsvFile!Part
      BY <1>n, <2>w DEF CsvFile!InFile
    <3>3. clines' # <<>> /\ clines'[1] = CsvFile!Header <=> clines # <<>>
          /\ clines[1] = CsvFile!Header
      <4>1. CASE Len(clines) = 0
        BY <1>n, <1>t, <2>w, <4>1, LinesAre
      <4>2. CASE Len(clines) # 0
        BY <1>n, <1>t, <2>w, <4>2
      <4> QED
        BY <4>1, <4>2
    <3> QED
      BY <2>f, <3>1, <3>2, <3>3 DEF There, HeaderTried
  <2>r. csent[s] \in 1 .. RowsEach /\ <<s, csent[s]>> \in CsvFile!Rows
        /\ ~CsvFile!InFile(<<s, csent[s]>>)
    <3>1. csent[s] \in 1 .. RowsEach
      BY <1>t, <2>f
    <3>2. CsvFile!InFile(<<s, csent[s]>>) => csent[s] < csent[s]
          \/ cat[s] \in {"check", "failed", "dead"}
      BY <1>i, <3>1 DEF InOrder
    <3> QED
      BY <2>f, <3>1, <3>2, LinesAre
  <2>1. CsvFile!TypeOK'
    <3>1. clines' \in Seq({CsvFile!Header, CsvFile!Part} \cup CsvFile!Rows)
      BY <2>w DEF Line
    <3>2. faults' \in 0 .. MaxFaults /\ denied' \subseteq CsvFile!Rows
      <4>1. faults' = faults + 1 /\ faults < MaxFaults /\ faults \in Nat /\ MaxFaults \in Nat
        BY <1>t, <2>f
      <4>2. denied' = denied \cup {<<s, csent[s]>>} /\ denied \subseteq CsvFile!Rows
        BY <1>t, <2>f
      <4> QED
        BY <2>r, <4>1, <4>2
    <3> QED
      BY <1>t, <1>i, <2>f, <3>1, <3>2 DEF CsvFile!TypeOK
  <2>2. CsvTyped'
    BY <1>t, <1>n, <1>i, <2>f, <2>w DEF CsvTyped
  <2>3. Owners'
    BY ZenonT(30), <1>t, <1>i, <1>o, <2>f DEF Owners
  <2>4. Created'
    BY <1>t, <1>i, <2>f DEF Created
  <2>5. UnderHeader'
    <3>1. \A i \in DOMAIN clines' : clines'[i] \in CsvFile!Rows \cup {CsvFile!Header} =>
            i \in DOMAIN clines /\ clines'[i] = clines[i]
      BY <1>n, <2>w, LinesAre
    <3>2. \A t \in Sessions : cat'[t] = "header" <=> cat[t] = "header"
      BY <2>f
    <3>3. \A t \in Sessions : ProcessOf[t] = creator /\ cat'[t] # "dead" =>
            HeaderTried \/ \E q \in Sessions : cat'[q] = "header"
      BY <1>i, <2>f, <3>2 DEF UnderHeader
    <3> QED
      BY <1>i, <2>f, <2>s, <3>1, <3>2, <3>3 DEF UnderHeader
  <2>6. Landed'
    BY <1>t, <1>i, <2>f, <2>s DEF Landed
  <2>7. InOrder'
    <3>1. \A i, j \in DOMAIN clines' : clines'[i] = clines'[j] /\ i # j
          => clines'[i] = CsvFile!Part
      BY <1>n, <1>i, <2>w DEF InOrder
    <3>2. \A t \in Sessions : \A n \in 1 .. RowsEach : CsvFile!InFile(<<t, n>>)'
          => CsvFile!InFile(<<t, n>>)
      BY <2>s, LinesAre
    <3>3. \A t \in Sessions : \A n \in 1 .. RowsEach : CsvFile!InFile(<<t, n>>)' =>
            n < csent[t] \/ (n = csent[t] /\ cat'[t] \in {"check", "failed", "dead"})
      BY <1>i, <2>f, <3>2 DEF InOrder
    <3>4. \A r \in denied' : r[2] = csent[r[1]] /\ cat'[r[1]] \in {"failed", "dead"}
      BY <1>t, <1>i, <2>f, LinesAre DEF InOrder
    <3> QED
      BY <2>f, <3>1, <3>3, <3>4 DEF InOrder
  <2>8. Beyond'
    <3>1. \A i \in DOMAIN clines' : clines'[i] \in CsvFile!Rows => i \in DOMAIN clines
          /\ clines'[i] = clines[i]
      BY <1>n, <2>w, LinesAre
    <3> QED
      BY <1>i, <2>f, <3>1 DEF Beyond, CsvFile!Outsider
  <2>9. Steady'
    BY <1>i, <1>o, <2>f DEF Steady
  <2>10. CsvFile!DeniedIsAbsent'
    <3>1. \A row \in denied' : CsvFile!InFile(row)' => CsvFile!InFile(row) /\ row \in denied
      <4> SUFFICES ASSUME NEW row \in denied', CsvFile!InFile(row)' PROVE CsvFile!InFile(row)
            /\ row \in denied
        OBVIOUS
      <4>1. row \in CsvFile!Rows /\ row # CsvFile!Part
        BY <1>t, <2>f, <2>r, LinesAre
      <4>2. CsvFile!InFile(row)
        BY <2>s, <4>1
      <4> QED
        BY <2>f, <2>r, <4>2
    <3> QED
      BY <1>i, <2>f, <3>1 DEF CsvFile!DeniedIsAbsent
  <2> QED
    BY <2>1, <2>2, <2>3, <2>4, <2>5, <2>6, <2>7, <2>8, <2>9, <2>10 DEF FileInv
<1>8. ASSUME NEW s \in Sessions, CsvFile!Check(s) PROVE FileInv'
  <2> DEFINE good == Len(clines) = size[s] + 1
  <2>f. /\ cat[s] = "check"
        /\ \A t \in Sessions : cat'[t] = IF t = s THEN (IF good THEN "ready" ELSE "failed")
           ELSE cat[t]
        /\ cat' \in [Sessions -> {"open", "header", "ready", "lock", "stat", "write",
                                  "check", "failed", "dead"}]
        /\ mutex' \in [CsvFile!Processes -> Sessions \cup {CsvFile!None}]
           /\ flocks' = flocks \ {s}
        /\ \A p \in CsvFile!Processes : mutex'[p] = IF p = ProcessOf[s] THEN CsvFile!None
           ELSE mutex[p]
        /\ acked' = IF good THEN acked \cup {<<s, csent[s]>>} ELSE acked
        /\ denied' = IF good THEN denied ELSE denied \cup {<<s, csent[s]>>}
        /\ csent' \in [Sessions -> Nat \ {0}]
        /\ \A t \in Sessions : csent'[t] = IF t = s /\ good THEN csent[s] + 1 ELSE csent[t]
        /\ UNCHANGED <<fs, exists, clines, size, faults, creator, lost, headless, blind>>
    <3>1. CASE good
      <4>1. /\ cat[s] = "check" /\ cat' = [cat EXCEPT ![s] = "ready"]
            /\ mutex' = [mutex EXCEPT ![ProcessOf[s]] = CsvFile!None] /\ flocks' = flocks \ {s}
            /\ acked' = acked \cup {<<s, csent[s]>>} /\ denied' = denied
            /\ csent' = [csent EXCEPT ![s] = @ + 1]
            /\ UNCHANGED <<fs, exists, clines, size, faults, creator, lost, headless, blind>>
        BY <1>8, <3>1 DEF CsvFile!Check, CsvFile!Goes, CsvFile!Unlock, CsvFile!Frees
      <4> QED
        BY <1>t, <3>1, <4>1
    <3>2. CASE ~good
      <4>1. /\ cat[s] = "check" /\ cat' = [cat EXCEPT ![s] = "failed"]
            /\ mutex' = [mutex EXCEPT ![ProcessOf[s]] = CsvFile!None] /\ flocks' = flocks \ {s}
            /\ acked' = acked /\ denied' = denied \cup {<<s, csent[s]>>} /\ csent' = csent
            /\ UNCHANGED <<fs, exists, clines, size, faults, creator, lost, headless, blind>>
        BY <1>8, <3>2 DEF CsvFile!Check, CsvFile!Goes, CsvFile!Unlock, CsvFile!Frees,
           CsvFile!Fails
      <4> QED
        BY <1>t, <3>2, <4>1
    <3> QED
      BY <3>1, <3>2
  <2>g. fs = "local" /\ ProcessOf[s] = creator => good
    BY <1>i, <2>f DEF Steady
  <2> HIDE DEF good
  <2>r. csent[s] \in 1 .. RowsEach /\ <<s, csent[s]>> \in CsvFile!Rows
    BY <1>t, <2>f, LinesAre
  <2>s. /\ HeaderTried' <=> HeaderTried
        /\ \A row : (CsvFile!InFile(row)' <=> CsvFile!InFile(row)) /\ (There(row)' <=> There(row))
    BY <2>f, FileStays
  <2>1. CsvFile!TypeOK'
    BY <1>t, <1>i, <2>f, <2>r DEF CsvFile!TypeOK
  <2>2. CsvTyped'
    BY <1>t, <1>i, <2>f DEF CsvTyped
  <2>b. cat'[s] \in {"ready", "failed"} /\ \A t \in Sessions : t # s => cat'[t] = cat[t]
    BY <2>f
  <2>3. Owners'
    <3>1. UNCHANGED fs /\ flocks' = flocks \ {s} /\ cat[s] = "check"
      BY <2>f
    <3>2. ASSUME NEW t \in Sessions, cat'[t] \in {"header", "lock", "stat", "write", "check"}
          PROVE  mutex'[ProcessOf[t]] = t
      <4>1. t # s /\ cat'[t] = cat[t]
        BY <2>b, <3>2
      <4>2. ProcessOf[t] # ProcessOf[s]
        BY <1>o, <3>1, <3>2, <4>1
      <4>3. mutex[ProcessOf[t]] = t
        BY <1>i, <3>2, <4>1 DEF Owners
      <4> QED
        BY <1>t, <2>f, <4>2, <4>3
    <3> QED
      BY <1>t, <1>i, <2>b, <3>1, <3>2 DEF Owners
  <2>4. Created'
    BY <1>t, <1>i, <2>f DEF Created
  <2>5. UnderHeader'
    <3>1. \A t \in Sessions : cat'[t] = "header" <=> cat[t] = "header"
      BY <2>f
    <3>2. \A t \in Sessions : ProcessOf[t] = creator /\ cat'[t] # "dead" =>
            HeaderTried \/ \E q \in Sessions : cat'[q] = "header"
      BY <1>i, <2>f, <3>1 DEF UnderHeader
    <3> QED
      BY <1>i, <2>f, <2>s, <3>1, <3>2 DEF UnderHeader
  <2>6. Landed'
    <3>1. There(<<s, csent[s]>>)
      BY <1>i, <2>f DEF Landed
    <3>2. \A row \in acked' : There(row)'
      BY <1>i, <2>f, <2>s, <3>1 DEF Landed
    <3>3. \A t \in Sessions : cat'[t] = "check" => There(<<t, csent[t]>>)'
      BY <1>i, <2>f, <2>s DEF Landed
    <3> QED
      BY <1>i, <2>f, <3>2, <3>3 DEF Landed
  <2>7. InOrder'
    <3>1. \A t \in Sessions : \A n \in 1 .. RowsEach : CsvFile!InFile(<<t, n>>)' =>
            n < csent'[t] \/ (n = csent'[t] /\ cat'[t] \in {"check", "failed", "dead"})
      <4> SUFFICES ASSUME NEW t \in Sessions, NEW n \in 1 .. RowsEach, CsvFile!InFile(<<t, n>>)
                   PROVE  n < csent'[t]
                         \/ (n = csent'[t] /\ cat'[t] \in {"check", "failed", "dead"})
        BY <2>s
      <4>1. n < csent[t] \/ (n = csent[t] /\ cat[t] \in {"check", "failed", "dead"})
        BY <1>i DEF InOrder
      <4>2. n \in Nat /\ csent[t] \in Nat
        BY <1>t
      <4>3. CASE t # s
        BY <2>f, <4>1, <4>3
      <4>4. CASE t = s /\ good
        BY <2>f, <4>1, <4>2, <4>4
      <4>5. CASE t = s /\ ~good
        BY <2>f, <4>1, <4>5
      <4> QED
        BY <4>3, <4>4, <4>5
    <3>2. \A r \in denied' : r[2] = csent'[r[1]] /\ cat'[r[1]] \in {"failed", "dead"}
      <4>1. ASSUME NEW r \in denied PROVE r[2] = csent'[r[1]] /\ cat'[r[1]] \in {"failed", "dead"}
        <5>1. r[1] \in Sessions
          BY <1>t, LinesAre
        <5>2. r[2] = csent[r[1]] /\ cat[r[1]] \in {"failed", "dead"}
          BY <1>i DEF InOrder
        <5> QED
          BY <2>f, <5>1, <5>2
      <4>2. CASE good
        BY <2>f, <4>1, <4>2
      <4>3. CASE ~good
        BY <2>f, <4>1, <4>3
      <4> QED
        BY <4>2, <4>3
    <3> QED
      BY <1>i, <2>f, <3>1, <3>2 DEF InOrder
  <2>8. Beyond'
    BY <1>i, <2>f DEF Beyond, CsvFile!Outsider
  <2>9. Steady'
    BY <1>i, <2>f DEF Steady
  <2>10. CsvFile!DeniedIsAbsent'
    BY <1>t, <1>i, <1>o, <2>f, <2>g, <2>s, LinesAre DEF CsvFile!DeniedIsAbsent
  <2> QED
    BY <2>1, <2>2, <2>3, <2>4, <2>5, <2>6, <2>7, <2>8, <2>9, <2>10 DEF FileInv
<1>9. ASSUME NEW p \in CsvFile!Processes, CsvFile!Kill(p) PROVE FileInv'
  <2>f. /\ faults' = faults + 1 /\ faults < MaxFaults
        /\ \A t \in Sessions : cat'[t] = IF ProcessOf[t] = p THEN "dead" ELSE cat[t]
        /\ cat' \in [Sessions -> {"open", "header", "ready", "lock", "stat", "write",
                                  "check", "failed", "dead"}]
        /\ mutex' \in [CsvFile!Processes -> Sessions \cup {CsvFile!None}]
        /\ \A q \in CsvFile!Processes : mutex'[q] = IF q = p THEN CsvFile!None ELSE mutex[q]
        /\ flocks' = flocks \ {t \in Sessions : ProcessOf[t] = p}
        /\ UNCHANGED <<fs, exists, clines, size, csent, acked, denied, creator, lost,
           headless, blind>>
    BY <1>t, <1>9 DEF CsvFile!Kill
  <2>s. /\ HeaderTried' <=> HeaderTried
        /\ \A row : (CsvFile!InFile(row)' <=> CsvFile!InFile(row)) /\ (There(row)' <=> There(row))
    BY <2>f, FileStays
  <2>1. CsvFile!TypeOK'
    BY <1>t, <1>i, <2>f, <2>s DEF CsvFile!TypeOK
  <2>2. CsvTyped'
    BY <1>t, <1>i, <2>f, <2>s DEF CsvTyped
  <2>3. Owners'
    BY <1>t, <1>i, <2>f, <2>s DEF Owners
  <2>4. Created'
    BY <1>t, <1>i, <2>f, <2>s DEF Created
  <2>5. UnderHeader'
    <3>1. \A t \in Sessions : cat'[t] = "header" => cat[t] = "header"
      BY <2>f
    <3>2. ASSUME NEW t \in Sessions, ProcessOf[t] = creator, cat'[t] # "dead", ~HeaderTried
          PROVE  \E q \in Sessions : cat'[q] = "header"
      <4>1. PICK q \in Sessions : cat[q] = "header"
        BY <1>i, <2>f, <3>2 DEF UnderHeader
      <4>2. ProcessOf[q] = creator /\ creator # p
        BY <1>i, <2>f, <3>2, <4>1 DEF Created
      <4> QED
        BY <2>f, <4>1, <4>2
    <3> QED
      BY <1>i, <2>f, <2>s, <3>1, <3>2 DEF UnderHeader
  <2>6. Landed'
    BY <1>t, <1>i, <2>f, <2>s DEF Landed
  <2>7. InOrder'
    <3>1. \A t \in Sessions : \A n \in 1 .. RowsEach : CsvFile!InFile(<<t, n>>)' =>
            n < csent[t] \/ (n = csent[t] /\ cat'[t] \in {"check", "failed", "dead"})
      BY <1>i, <2>f, <2>s DEF InOrder
    <3>2. \A r \in denied : r[2] = csent[r[1]] /\ cat'[r[1]] \in {"failed", "dead"}
      BY <1>t, <1>i, <2>f, LinesAre DEF InOrder
    <3> QED
      BY <1>i, <2>f, <3>1, <3>2 DEF InOrder
  <2>8. Beyond'
    BY <1>t, <1>i, <2>f, <2>s DEF Beyond, CsvFile!Outsider
  <2>9. Steady'
    BY <1>t, <1>i, <2>f, <2>s DEF Steady
  <2>10. CsvFile!DeniedIsAbsent'
    BY <1>t, <1>i, <2>f, <2>s DEF CsvFile!DeniedIsAbsent
  <2> QED
    BY <2>1, <2>2, <2>3, <2>4, <2>5, <2>6, <2>7, <2>8, <2>9, <2>10 DEF FileInv
<1>10. ASSUME NEW s \in Sessions, CsvFile!HeaderCut(s) PROVE FileInv'
  <2>f. /\ cat[s] = "header" /\ ProcessOf[s] = creator /\ exists /\ ~HeaderTried /\ headless'
        /\ faults' = faults + 1 /\ faults < MaxFaults
        /\ UNCHANGED <<fs, exists, flocks, size, csent, acked, denied, creator, blind>>
        /\ \A t \in Sessions : cat'[t] = IF t = s THEN "failed" ELSE cat[t]
        /\ cat' \in [Sessions -> {"open", "header", "ready", "lock", "stat", "write",
                                  "check", "failed", "dead"}]
        /\ mutex' \in [CsvFile!Processes -> Sessions \cup {CsvFile!None}]
        /\ \A p \in CsvFile!Processes : mutex'[p] = IF p = ProcessOf[s] THEN CsvFile!None
           ELSE mutex[p]
    BY <1>t, <1>i, <1>10 DEF CsvFile!HeaderCut, CsvFile!Goes, CsvFile!Frees, Created, UnderHeader
  <2>h. CsvFile!Part \in Line /\ 0 \in 0 .. Len(clines)
    BY <1>n DEF Line
  <2>p. Puts(CsvFile!Part, 0, s) \/ UNCHANGED <<clines, lost>>
    BY <1>t, <1>10, <2>h, PutDoes DEF CsvFile!HeaderCut
  <2>s. /\ \A row : There(row) => There(row)'
        /\ \A row : CsvFile!InFile(row)' => CsvFile!InFile(row) \/ row = CsvFile!Part
    <3>1. CASE Puts(CsvFile!Part, 0, s)
      BY <1>t, <2>h, <3>1, PutKeeps, Zenon
    <3>2. CASE UNCHANGED <<clines, lost>>
      BY <3>2 DEF There, CsvFile!InFile
    <3> QED
      BY <2>p, <3>1, <3>2
  <2>w. /\ \A i \in DOMAIN clines' : \/ i \in DOMAIN clines /\ clines'[i] = clines[i]
                                     \/ i = 1 /\ clines'[i] = CsvFile!Part
        /\ clines' \in Seq(Line) /\ Len(clines') >= Len(clines)
        /\ lost' \subseteq Line \X Sessions
        /\ \A loss \in lost' : loss \in lost \/ (1 \in DOMAIN clines /\ loss = <<clines[1], s>>)
        /\ \A i \in DOMAIN clines : clines[i] # CsvFile!Header
    <3>1. \A i \in DOMAIN clines : clines[i] # CsvFile!Header
      BY <1>i, <1>n, <2>f DEF UnderHeader, HeaderTried
    <3>2. CASE Puts(CsvFile!Part, 0, s)
      BY <1>n, <3>1, <3>2 DEF Puts
    <3>3. CASE UNCHANGED <<clines, lost>>
      BY <1>t, <1>n, <3>1, <3>3
    <3> QED
      BY <2>p, <3>2, <3>3
  <2>u. faults' \in 0 .. MaxFaults /\ faults' > 0
    BY <1>t, <2>f
  <2>1. CsvFile!TypeOK'
    BY <1>t, <1>i, <2>f, <2>u, <2>w DEF CsvFile!TypeOK, Line
  <2>2. CsvTyped'
    BY <1>t, <1>n, <1>i, <2>f, <2>w DEF CsvTyped, Line
  <2>3. Owners'
    <3>1. \A t \in Sessions : t # s => cat'[t] = cat[t]
      BY <2>f
    <3>2. ASSUME NEW t \in Sessions, cat'[t] \in {"header", "lock", "stat", "write", "check"}
          PROVE  mutex'[ProcessOf[t]] = t
      <4>1. t # s /\ cat'[t] = cat[t]
        BY <2>f, <3>2
      <4>2. ProcessOf[t] # ProcessOf[s]
        BY <1>o, <2>f, <3>2, <4>1
      <4>3. mutex[ProcessOf[t]] = t
        BY <1>i, <3>2, <4>1 DEF Owners
      <4> QED
        BY <1>t, <2>f, <4>2, <4>3
    <3>3. \A t \in Sessions : t \in flocks' <=> cat'[t] \in {"stat", "write", "check"}
      BY <1>i, <2>f, <3>1 DEF Owners
    <3> QED
      BY <1>i, <2>f, <3>2, <3>3 DEF Owners
  <2>4. Created'
    BY <1>t, <1>i, <2>f DEF Created
  <2>5. UnderHeader'
    <3>1. HeaderTried'
      BY <2>f DEF HeaderTried
    <3>2. \A t \in Sessions : cat'[t] # "header"
      BY <1>o, <2>f
    <3>3. \A i \in DOMAIN clines' : clines'[i] # CsvFile!Header
      BY <2>w, LinesAre
    <3> QED
      BY <3>1, <3>2, <3>3 DEF UnderHeader
  <2>6. Landed'
    BY <1>i, <2>f, <2>s, <2>u DEF Landed
  <2>7. InOrder'
    <3>1. \A i, j \in DOMAIN clines' : clines'[i] = clines'[j] /\ i # j
          => clines'[i] = CsvFile!Part
      BY <1>i, <2>w DEF InOrder
    <3>2. \A t \in Sessions : \A n \in 1 .. RowsEach : CsvFile!InFile(<<t, n>>)'
          => CsvFile!InFile(<<t, n>>)
      BY <2>s, LinesAre
    <3>3. \A t \in Sessions : \A n \in 1 .. RowsEach : CsvFile!InFile(<<t, n>>)' =>
            n < csent[t] \/ (n = csent[t] /\ cat'[t] \in {"check", "failed", "dead"})
      BY <1>i, <2>f, <3>2 DEF InOrder
    <3>4. \A r \in denied : r[2] = csent[r[1]] /\ cat'[r[1]] \in {"failed", "dead"}
      BY <1>t, <1>i, <2>f, LinesAre DEF InOrder
    <3> QED
      BY <2>f, <3>1, <3>3, <3>4 DEF InOrder
  <2>8. Beyond'
    <3>1. 1 \in DOMAIN clines /\ clines[1] \in CsvFile!Rows => ProcessOf[clines[1][1]] # creator
      BY <1>i, <2>f DEF UnderHeader
    <3>2. \A loss \in lost' : loss[1] \in CsvFile!Rows => CsvFile!Outsider(loss[1], loss[2])
      BY <1>i, <2>f, <2>w, <3>1 DEF Beyond, CsvFile!Outsider
    <3>3. \A i \in DOMAIN clines' : clines'[i] \in CsvFile!Rows => i \in DOMAIN clines
          /\ clines'[i] = clines[i]
      BY <2>w, LinesAre
    <3> QED
      BY <1>i, <2>f, <3>2, <3>3 DEF Beyond, CsvFile!Outsider
  <2>9. Steady'
    BY <1>i, <1>o, <2>f DEF Steady
  <2>10. CsvFile!DeniedIsAbsent'
    BY <1>t, <1>i, <2>f, <2>s, LinesAre DEF CsvFile!DeniedIsAbsent
  <2> QED
    BY <2>1, <2>2, <2>3, <2>4, <2>5, <2>6, <2>7, <2>8, <2>9, <2>10 DEF FileInv
<1>11. ASSUME NEW s \in Sessions, CsvFile!CallFails(s) PROVE FileInv'
  <2>f. /\ cat[s] \in {"lock", "stat", "write", "check"}
        /\ faults' = faults + 1 /\ faults < MaxFaults
        /\ \A t \in Sessions : cat'[t] = IF t = s THEN "failed" ELSE cat[t]
        /\ cat' \in [Sessions -> {"open", "header", "ready", "lock", "stat", "write",
                                  "check", "failed", "dead"}]
        /\ mutex' \in [CsvFile!Processes -> Sessions \cup {CsvFile!None}]
           /\ flocks' = flocks \ {s}
        /\ \A p \in CsvFile!Processes : mutex'[p] = IF p = ProcessOf[s] THEN CsvFile!None
           ELSE mutex[p]
        /\ denied' = denied \cup {<<s, csent[s]>>}
        /\ blind' = blind \cup (IF cat[s] = "check" THEN {<<s, csent[s]>>} ELSE {})
        /\ UNCHANGED <<fs, exists, clines, size, csent, acked, creator, lost, headless>>
    BY <1>t, <1>11 DEF CsvFile!CallFails, CsvFile!Goes, CsvFile!Unlock, CsvFile!Frees,
       CsvFile!Fails
  <2>s. /\ HeaderTried' <=> HeaderTried
        /\ \A row : (CsvFile!InFile(row)' <=> CsvFile!InFile(row)) /\ (There(row)' <=> There(row))
    BY <2>f, FileStays
  <2>r. /\ csent[s] \in 1 .. RowsEach /\ <<s, csent[s]>> \in CsvFile!Rows
        /\ CsvFile!InFile(<<s, csent[s]>>) => cat[s] = "check"
    <3>1. csent[s] \in 1 .. RowsEach
      BY <1>t, <2>f
    <3>2. CsvFile!InFile(<<s, csent[s]>>) => csent[s] < csent[s]
          \/ cat[s] \in {"check", "failed", "dead"}
      BY <1>i, <3>1 DEF InOrder
    <3> QED
      BY <2>f, <3>1, <3>2, LinesAre
  <2>1. CsvFile!TypeOK'
    <3>1. faults' \in 0 .. MaxFaults
      BY <1>t, <2>f
    <3>2. denied' \subseteq CsvFile!Rows /\ blind' \subseteq CsvFile!Rows
      BY <1>t, <1>i, <2>f, <2>r DEF CsvFile!TypeOK
    <3> QED
      BY <1>t, <1>i, <2>f, <3>1, <3>2 DEF CsvFile!TypeOK
  <2>2. CsvTyped'
    BY <1>t, <1>i, <2>f DEF CsvTyped
  <2>3. Owners'
    <3>1. UNCHANGED fs /\ flocks' = flocks \ {s} /\ cat'[s] = "failed"
          /\ \A t \in Sessions : t # s => cat'[t] = cat[t]
      BY <2>f
    <3>2. ASSUME NEW t \in Sessions, cat'[t] \in {"header", "lock", "stat", "write", "check"}
          PROVE  mutex'[ProcessOf[t]] = t
      <4>1. t # s /\ cat'[t] = cat[t]
        BY <3>1, <3>2
      <4>2. ProcessOf[t] # ProcessOf[s]
        BY <1>o, <2>f, <3>2, <4>1
      <4>3. mutex[ProcessOf[t]] = t
        BY <1>i, <3>2, <4>1 DEF Owners
      <4> QED
        BY <1>t, <2>f, <4>2, <4>3
    <3> QED
      BY <1>t, <1>i, <3>1, <3>2 DEF Owners
  <2>4. Created'
    BY <1>t, <1>i, <2>f DEF Created
  <2>5. UnderHeader'
    <3>1. \A t \in Sessions : cat'[t] = "header" <=> cat[t] = "header"
      BY <2>f
    <3>2. \A t \in Sessions : ProcessOf[t] = creator /\ cat'[t] # "dead" =>
            HeaderTried \/ \E q \in Sessions : cat'[q] = "header"
      BY <1>i, <2>f, <3>1 DEF UnderHeader
    <3> QED
      BY <1>i, <2>f, <2>s, <3>1, <3>2 DEF UnderHeader
  <2>6. Landed'
    BY <1>t, <1>i, <2>f, <2>s DEF Landed
  <2>7. InOrder'
    <3>1. \A t \in Sessions : \A n \in 1 .. RowsEach : CsvFile!InFile(<<t, n>>)' =>
            n < csent[t] \/ (n = csent[t] /\ cat'[t] \in {"check", "failed", "dead"})
      BY <1>i, <2>f, <2>s DEF InOrder
    <3>2. \A r \in denied' : r[2] = csent[r[1]] /\ cat'[r[1]] \in {"failed", "dead"}
      BY <1>t, <1>i, <2>f, LinesAre DEF InOrder
    <3> QED
      BY <1>i, <2>f, <3>1, <3>2 DEF InOrder
  <2>8. Beyond'
    BY <1>i, <2>f DEF Beyond, CsvFile!Outsider
  <2>9. Steady'
    BY <1>i, <2>f DEF Steady
  <2>10. CsvFile!DeniedIsAbsent'
    BY <1>i, <2>f, <2>r, <2>s DEF CsvFile!DeniedIsAbsent
  <2> QED
    BY <2>1, <2>2, <2>3, <2>4, <2>5, <2>6, <2>7, <2>8, <2>9, <2>10 DEF FileInv
<1>12. CASE UNCHANGED CsvFile!csvVars
  <2>f. UNCHANGED <<fs, exists, clines, mutex, flocks, cat, size, csent, acked, denied, faults,
                    creator, lost, headless, blind>>
    BY <1>12 DEF CsvFile!csvVars
  <2>s. /\ HeaderTried' <=> HeaderTried
        /\ \A row : (CsvFile!InFile(row)' <=> CsvFile!InFile(row)) /\ (There(row)' <=> There(row))
    BY <2>f, FileStays
  <2>1. CsvFile!TypeOK'
    BY <1>i, <2>f, <2>s DEF CsvFile!TypeOK
  <2>2. CsvTyped'
    BY <1>i, <2>f, <2>s DEF CsvTyped
  <2>3. Owners'
    BY <1>i, <2>f, <2>s DEF Owners
  <2>4. Created'
    BY <1>i, <2>f, <2>s DEF Created
  <2>5. UnderHeader'
    BY <1>i, <2>f, <2>s DEF UnderHeader
  <2>6. Landed'
    BY <1>i, <2>f, <2>s DEF Landed
  <2>7. InOrder'
    BY <1>i, <2>f, <2>s DEF InOrder
  <2>8. Beyond'
    BY <1>i, <2>f, <2>s DEF Beyond, CsvFile!Outsider
  <2>9. Steady'
    BY <1>i, <2>f, <2>s DEF Steady
  <2>10. CsvFile!DeniedIsAbsent'
    BY <1>i, <2>f, <2>s DEF CsvFile!DeniedIsAbsent
  <2> QED
    BY <2>1, <2>2, <2>3, <2>4, <2>5, <2>6, <2>7, <2>8, <2>9, <2>10 DEF FileInv
<1> QED
  BY <1>1, <1>2, <1>3, <1>4, <1>5, <1>6, <1>7, <1>8, <1>9, <1>10, <1>11, <1>12
     DEF CsvFile!Next

LEMMA FileKept == FileInv => CsvFile!FileHolds
<1> SUFFICES ASSUME FileInv PROVE CsvFile!FileHolds
  OBVIOUS
<1>1. \A row \in acked : \/ CsvFile!InFile(row) /\ (CsvFile!Glued(row) => faults > 0)
                        \/ \E by \in Sessions : <<row, by>> \in lost
  <2> SUFFICES ASSUME NEW row \in acked, CsvFile!InFile(row), CsvFile!Glued(row) PROVE faults > 0
    BY DEF FileInv, Landed, There
  <2>1. PICK i \in DOMAIN clines : i > 1 /\ clines[i - 1] = CsvFile!Part
    BY DEF CsvFile!Glued
  <2>2. i - 1 \in DOMAIN clines
    BY <2>1 DEF FileInv, CsvFile!TypeOK
  <2> QED
    BY <2>1, <2>2 DEF FileInv, Landed
<1>2. CsvFile!AckedIsInFile
  BY <1>1 DEF FileInv, CsvFile!AckedIsInFile, InOrder, Beyond
<1>3. CsvFile!HeaderFirst
  <2>1. ASSUME NEW i \in DOMAIN clines, clines[i] \in CsvFile!Rows,
        ProcessOf[clines[i][1]] = creator
        PROVE  clines[1] = CsvFile!Header \/ headless
               \/ \E loss \in lost : loss[1] = CsvFile!Header
    BY <2>1 DEF FileInv, UnderHeader, HeaderTried
  <2> QED
    BY <2>1 DEF FileInv, UnderHeader, CsvFile!HeaderFirst
<1> QED
  BY <1>2, <1>3 DEF FileInv, CsvFile!FileHolds

(* The file's invariant in every behaviour of it.                          *)
THEOREM FileInvariance ==
  ASSUME CsvFile!CsvFileAssumption PROVE CsvFile!Spec => []FileInv
<1>1. CsvFile!Init => FileInv
  BY FileInit
<1>2. FileInv /\ [CsvFile!Next]_(CsvFile!csvVars) => FileInv'
  BY FileNext
<1> QED
  BY <1>1, <1>2, PTL DEF CsvFile!Spec

(* A row acknowledged is in the file, once, or was written over by another *)
(* process; a row denied is not there, unless another process came between *)
(* or its size could not be read again; the header comes first, unless its *)
(* own write failed (csvdeliver.go:176).                                   *)
THEOREM FileIsKept ==
  ASSUME CsvFile!CsvFileAssumption PROVE CsvFile!Spec => []CsvFile!FileHolds
<1>1. FileInv => CsvFile!FileHolds
  BY FileKept
<1> QED
  BY <1>1, FileInvariance, PTL

-----------------------------------------------------------------------------
(* Judgment.                                                               *)

(* What TypeOK leaves out.                                                 *)
Keyed == {<<>>} \cup (Questions \X Facts)
Written == [field : Provides \cup {"draft"}, by : {"own", "other"}, conf : 1 .. 2, at : Nat,
         about : Keyed]
Judged == [key : Keyed, answer : {"pass", "fail", "empty", "draft", "silence"}, about : Keyed,
           at : Nat]
JudgmentTyped ==
  /\ rows \in Seq(Written) /\ done \in Seq(Judged) /\ left \in Seq(Questions \X Facts)
  /\ token \in Keyed /\ passed.key \in Keyed
  /\ work \in [pc : {"idle", "session"}, key : Keyed, asked : Keyed, collecting : BOOLEAN]

(* A session has a question; before the pipeline is written there is none. *)
KeyedWork == work.pc = "session" => work.key # <<>>
Unwritten == role = "none" => rows = <<>> /\ done = <<>> /\ work.pc = "idle"

(* A call that wrote a field is known by its row, which is all cacheSkip   *)
(* reads; an enrich session was opened when every such row was out of the  *)
(* window.                                                                 *)
PaidAt == {rows[n].at : n \in {m \in DOMAIN rows : rows[m].by = "own"}}
CallsLeaveRows ==
  /\ calls \in Seq([at : Nat, wrote : BOOLEAN])
  /\ role = "none" => calls = <<>>
  /\ \A n \in DOMAIN calls : calls[n].wrote => calls[n].at \in PaidAt
Apart == role = "enrich" /\ Cache > 0 /\ work.pc = "session" =>
  \A s \in PaidAt : now - s > Cache

(* A compose has no rows but drafts, so that the newest is current.        *)
Drafts == role = "compose" => \A n \in DOMAIN rows : rows[n].field = "draft" /\ rows[n].conf = 1
SilentUnkeyed == \A n \in DOMAIN done : done[n].answer = "silence" => done[n].key = <<>>

(* Nothing was asked but what is asked now or was before.                  *)
Earlier(key) == \E n \in DOMAIN left : left[n] = key
Was(key) == key = <<>> \/ key = Judgment!Asked \/ Earlier(key)
KeysWere == /\ Was(work.key)
            /\ \A n \in DOMAIN done : Was(done[n].key)

(* A session opened on an earlier question ends before one on this is      *)
(* opened.                                                                 *)
SessionFirst == work.pc = "session" /\ work.key # Judgment!Asked /\ ~Earlier(Judgment!Asked) =>
  \A n \in DOMAIN done : done[n].key # Judgment!Asked

(* The newest draft is about these facts once one is.                      *)
LastDraft == role = "compose" /\ ~Judgment!Collected /\ ~Earlier(Judgment!Asked) =>
  \A n \in DOMAIN done : done[n].key = Judgment!Asked /\ done[n].answer = "draft" =>
    rows # <<>> /\ rows[Len(rows)].about = Judgment!Asked

JudgmentInv == /\ Judgment!TypeOK /\ JudgmentTyped /\ KeyedWork /\ Unwritten /\ Apart /\ Drafts
        /\ CallsLeaveRows
        /\ SilentUnkeyed /\ KeysWere /\ SessionFirst /\ LastDraft
        /\ Judgment!JudgmentIsReused /\ Judgment!PaidOncePerWindow

LEMMA StillLater == \A a, b, s, c \in Nat : a <= b /\ a - s > c => b - s > c
OBVIOUS

LEMMA AskedIs == /\ Judgment!Asked # <<>> /\ Len(Judgment!Asked) = 2
      /\ Judgment!Asked = <<question, facts>>
                 /\ \A key \in Questions \X Facts : key # <<>>
BY DEF Judgment!Asked

LEMMA JudgmentInit == ASSUME Judgment!JudgmentAssumption, Judgment!Init PROVE JudgmentInv
<1>1. question \in Questions /\ facts \in Facts
  BY DEF Judgment!JudgmentAssumption, Judgment!Init
<1>2. /\ rows = <<>> /\ done = <<>> /\ left = <<>> /\ token = <<>> /\ work = Judgment!AtRest
         /\ passed = Judgment!Nobody
      /\ role = "none" /\ now = 0 /\ calls = <<>>
  BY DEF Judgment!Init
<1>3. Judgment!TypeOK
  BY <1>1, <1>2 DEF Judgment!JudgmentAssumption, Judgment!TypeOK, Judgment!AtRest, Judgment!Nobody
<1>4. JudgmentTyped
  BY <1>2 DEF JudgmentTyped, Judgment!AtRest, Judgment!Nobody, Keyed
<1>5. /\ KeyedWork /\ Unwritten /\ Apart /\ Drafts /\ SilentUnkeyed /\ SessionFirst /\ LastDraft
      /\ CallsLeaveRows
  BY <1>2 DEF CallsLeaveRows, KeyedWork, Unwritten, Apart, Drafts, SilentUnkeyed, SessionFirst,
     LastDraft, Judgment!AtRest
<1>6. KeysWere
  BY <1>2 DEF KeysWere, Was, Judgment!AtRest
<1>7. Judgment!JudgmentIsReused /\ Judgment!PaidOncePerWindow
  BY <1>2 DEF Judgment!JudgmentIsReused, Judgment!ReuseWasAnswered, Judgment!DraftIsAbout,
     Judgment!PaidOncePerWindow, Judgment!Nobody
<1> QED
  BY <1>3, <1>4, <1>5, <1>6, <1>7 DEF JudgmentInv

(* The newest of some events is one of them.                               *)
LEMMA NewestIs == ASSUME NEW n \in Nat, NEW S \in SUBSET (1 .. n), S # {}
      PROVE Judgment!Newest(S) \in S
<1> DEFINE Below == OpToRel(<, Nat)
           Rank(k) == n - k
           Ranked  == {Rank(k) : k \in S}
<1>1. Ranked \in SUBSET Nat /\ Ranked # {}
  <2>1. \A k \in S : Rank(k) \in Nat
    OBVIOUS
  <2> HIDE DEF Rank
  <2> QED
    BY <2>1
<1>2. IsWellFoundedOn(Below, Nat)
  BY NatLessThanWellFounded, Zenon
<1>3. \A i, j \in Nat : i < j => <<i, j>> \in Below
  BY DEF OpToRel
<1> HIDE DEF Ranked, Below
<1>4. PICK m \in Ranked : \A k \in Ranked : ~(<<k, m>> \in Below)
  BY <1>1, <1>2, WFMin, Zenon
<1>5. PICK k \in S : m = Rank(k)
  BY <1>4 DEF Ranked
<1>6. \A j \in S : j <= k
  <2> SUFFICES ASSUME NEW j \in S PROVE j <= k
    OBVIOUS
  <2>1. Rank(j) \in Ranked
    BY DEF Ranked
  <2>2. ~(Rank(j) < Rank(k))
    BY <1>1, <1>3, <1>4, <1>5, <2>1
  <2> QED
    BY <2>2
<1> QED
  BY <1>6 DEF Judgment!Newest

(* Of a compose's rows the last is the current draft.                      *)
LEMMA LastIsCurrent ==
  ASSUME JudgmentTyped, Drafts, role = "compose", rows # <<>>
  PROVE  Judgment!Draft = rows[Len(rows)].about
<1>1. Len(rows) \in Nat /\ Len(rows) > 0 /\ DOMAIN rows = 1 .. Len(rows)
      /\ Len(rows) \in DOMAIN rows
  BY DEF JudgmentTyped
<1>2. Judgment!Fresh("draft", 0) = DOMAIN rows
  BY DEF Judgment!Fresh, Judgment!Inside, Drafts
<1>3. \A m, n \in DOMAIN rows : Judgment!Ranks(m, n) <=> m >= n
  BY DEF Judgment!Ranks, Drafts
<1>4. Judgment!Current("draft") = Len(rows)
  <2>1. \A m \in DOMAIN rows : Judgment!Ranks(Len(rows), m)
    BY <1>1, <1>3
  <2>2. \A n \in DOMAIN rows : (\A m \in DOMAIN rows : Judgment!Ranks(n, m)) => n = Len(rows)
    BY <1>1, <1>3
  <2>3. Judgment!Current("draft") = CHOOSE n \in DOMAIN rows : \A m \in DOMAIN rows :
        Judgment!Ranks(n, m)
    BY <1>2 DEF Judgment!Current
  <2>4. Judgment!Current("draft") \in DOMAIN rows
        /\ \A m \in DOMAIN rows : Judgment!Ranks(Judgment!Current("draft"), m)
    BY <1>1, <2>1, <2>3, Zenon
  <2> QED
    BY <2>2, <2>4
<1> QED
  BY <1>1, <1>2, <1>4 DEF Judgment!Draft, Judgment!Has

(* What is asked anew was asked of nobody unless it was asked before.      *)
LEMMA AskedAnew ==
  ASSUME JudgmentTyped, KeysWere, Judgment!Asked \in Questions \X Facts,
         left' = Append(left, Judgment!Asked), UNCHANGED <<done, work>>
  PROVE  /\ KeysWere' /\ left' \in Seq(Questions \X Facts)
         /\ ~Earlier(Judgment!Asked)' => \A n \in DOMAIN done : done[n].key # Judgment!Asked'
<1>a. PICK ask : ask = Judgment!Asked
  OBVIOUS
<1>1. left' \in Seq(Questions \X Facts)
  BY DEF JudgmentTyped
<1>2. \A key : Earlier(key) \/ key = ask => \E n \in DOMAIN left' : left'[n] = key
  <2>1. left \in Seq(Questions \X Facts) /\ Len(left) \in Nat /\ DOMAIN left = 1 .. Len(left)
    BY DEF JudgmentTyped
  <2>2. /\ DOMAIN left' = 1 .. Len(left) + 1 /\ left'[Len(left) + 1] = ask
        /\ \A n \in DOMAIN left : left'[n] = left[n]
    BY <1>a, <2>1
  <2> QED
    BY <2>1, <2>2 DEF Earlier
<1>3. \A key : Was(key) => key = <<>> \/ \E n \in DOMAIN left' : left'[n] = key
  BY <1>a, <1>2 DEF Was
<1>4. KeysWere'
  BY <1>3 DEF KeysWere, Was, Earlier
<1>5. ~Earlier(Judgment!Asked)' => \A n \in DOMAIN done : done[n].key # Judgment!Asked'
  <2>1. Judgment!Asked' # <<>>
    BY DEF Judgment!Asked
  <2>2. \A n \in DOMAIN done : Was(done[n].key)
    BY DEF KeysWere
  <2> QED
    BY <1>3, <2>1, <2>2 DEF Earlier
<1> QED
  BY <1>1, <1>4, <1>5

(* Where nothing is written and nothing asked anew, what was, is.          *)
LEMMA NothingWritten ==
  ASSUME UNCHANGED <<rows, done>>
  PROVE  /\ PaidAt' = PaidAt
            /\ (Judgment!Collected' <=> Judgment!Collected) /\ (Drafts /\ role' = role => Drafts')
         /\ SilentUnkeyed' <=> SilentUnkeyed
BY DEF PaidAt, Judgment!Collected, Drafts, SilentUnkeyed

LEMMA NothingAsked ==
  ASSUME UNCHANGED <<question, facts, left>>
  PROVE  Judgment!Asked' = Judgment!Asked /\ \A key : (Earlier(key)' <=> Earlier(key))
        /\ (Was(key)' <=> Was(key))
BY DEF Judgment!Asked, Earlier, Was

(* A record that does not come past the step is no reuse.                  *)
LEMMA NobodyPasses ==
  ASSUME passed' = Judgment!Nobody \/ passed' = [Judgment!Nobody EXCEPT !.by = "cache"]
  PROVE  Judgment!JudgmentIsReused' /\ passed'.key = <<>>
BY DEF Judgment!Nobody, Judgment!JudgmentIsReused, Judgment!ReuseWasAnswered,
   Judgment!DraftIsAbout

(* What is called is called by an enrich step's session, which leaves a row *)
(* of its own if it wrote; no row goes.                                    *)
LEMMA RowsStay ==
  ASSUME JudgmentTyped, NEW more \in Seq(Written), rows' = rows \o more
  PROVE  /\ PaidAt \subseteq PaidAt'
         /\ \A n \in DOMAIN more : more[n].by = "own" => more[n].at \in PaidAt'
<1>1. rows \in Seq(Written)
  BY DEF JudgmentTyped
<1>2. /\ Len(rows) \in Nat /\ DOMAIN rows = 1 .. Len(rows)
      /\ Len(more) \in Nat /\ DOMAIN more = 1 .. Len(more)
  BY <1>1
<1>3. rows' \in Seq(Written) /\ Len(rows') = Len(rows) + Len(more)
  BY <1>1
<1>4. DOMAIN rows' = 1 .. Len(rows) + Len(more)
  BY <1>3
<1>5. \A n \in 1 .. Len(rows) : rows'[n] = rows[n]
  BY <1>1
<1>6. \A n \in 1 .. Len(more) : rows'[Len(rows) + n] = more[n]
  BY <1>1
<1>7. PaidAt \subseteq PaidAt'
  BY <1>2, <1>4, <1>5 DEF PaidAt
<1>8. ASSUME NEW n \in DOMAIN more, more[n].by = "own" PROVE more[n].at \in PaidAt'
  <2>1. Len(rows) + n \in DOMAIN rows' /\ rows'[Len(rows) + n] = more[n]
    BY <1>2, <1>4, <1>6
  <2> QED
    BY <1>8, <2>1 DEF PaidAt
<1> QED
  BY <1>7, <1>8

LEMMA CallsNext ==
  ASSUME Judgment!JudgmentAssumption, JudgmentInv, [Judgment!Next]_(Judgment!jvars)
  PROVE  CallsLeaveRows' /\ Judgment!PaidOncePerWindow' /\ Len(calls') <= MaxRows
<1>t. /\ JudgmentTyped /\ CallsLeaveRows /\ Judgment!PaidOncePerWindow /\ Apart
      /\ Len(calls) <= MaxRows /\ now \in Nat /\ MaxRows \in Nat /\ Cache \in Nat
      /\ calls \in Seq([at : Nat, wrote : BOOLEAN])
      /\ token \in Keyed /\ work.asked \in Keyed /\ <<>> \in Keyed /\ Unwritten
  BY DEF JudgmentInv, Judgment!TypeOK, Judgment!JudgmentAssumption, CallsLeaveRows,
     JudgmentTyped, Keyed
<1>1. ASSUME calls' = calls, PaidAt \subseteq PaidAt', role' = role \/ role = "none"
      PROVE  CallsLeaveRows' /\ Judgment!PaidOncePerWindow' /\ Len(calls') <= MaxRows
  BY <1>t, <1>1 DEF CallsLeaveRows, Judgment!PaidOncePerWindow
<1>2. ASSUME NEW wrote \in BOOLEAN, Judgment!Called(wrote), role = "enrich", role' = role,
             work.pc = "session", PaidAt \subseteq PaidAt', wrote => now \in PaidAt'
      PROVE  CallsLeaveRows' /\ Judgment!PaidOncePerWindow' /\ Len(calls') <= MaxRows
  <2> DEFINE call == [at |-> now, wrote |-> wrote]
  <2>1. call \in [at : Nat, wrote : BOOLEAN] /\ call.at = now /\ call.wrote = wrote
    BY <1>t
  <2>2. Len(calls) < MaxRows /\ calls' = Append(calls, call)
    BY <1>2 DEF Judgment!Called
  <2> HIDE DEF call
  <2>3. /\ Len(calls) \in Nat /\ DOMAIN calls = 1 .. Len(calls)
        /\ calls' \in Seq([at : Nat, wrote : BOOLEAN]) /\ Len(calls') = Len(calls) + 1
        /\ DOMAIN calls' = 1 .. Len(calls) + 1 /\ calls'[Len(calls) + 1] = call
        /\ \A n \in 1 .. Len(calls) : calls'[n] = calls[n]
    BY <1>t, <2>1, <2>2
  <2>4. CallsLeaveRows'
    <3>1. \A n \in DOMAIN calls' : calls'[n].wrote => calls'[n].at \in PaidAt'
      BY <1>t, <1>2, <2>1, <2>3 DEF CallsLeaveRows
    <3> QED
      BY <1>2, <2>3, <3>1 DEF CallsLeaveRows
  <2>5. Judgment!PaidOncePerWindow'
    <3> SUFFICES ASSUME Cache > 0, NEW m \in DOMAIN calls', NEW n \in DOMAIN calls', m < n,
                        calls'[m].wrote
                 PROVE  calls'[n].at - calls'[m].at > Cache
      BY DEF Judgment!PaidOncePerWindow
    <3>1. m \in DOMAIN calls /\ calls'[m] = calls[m]
      BY <2>3
    <3>2. CASE n \in DOMAIN calls
      BY <1>t, <1>2, <2>3, <3>1, <3>2 DEF Judgment!PaidOncePerWindow
    <3>3. CASE n = Len(calls) + 1
      <4>1. calls[m].at \in PaidAt
        BY <1>t, <3>1 DEF CallsLeaveRows
      <4> QED
        BY <1>t, <1>2, <2>1, <2>3, <3>1, <3>3, <4>1 DEF Apart
    <3> QED
      BY <2>3, <3>2, <3>3
  <2> QED
    BY <1>t, <2>2, <2>3, <2>4, <2>5
\* Where no row is written.
<1>3. ASSUME rows' = rows PROVE PaidAt \subseteq PaidAt'
  BY <1>3 DEF PaidAt
\* Where one row is.
<1>4. ASSUME NEW new \in Written, rows' = Append(rows, new) PROVE PaidAt \subseteq PaidAt'
  <2>1. <<new>> \in Seq(Written) /\ rows' = rows \o <<new>>
    BY <1>t, <1>4 DEF JudgmentTyped
  <2> QED
    BY <1>t, <2>1, RowsStay
<1>5. ASSUME NEW kind \in Roles, Judgment!Write(kind)
      PROVE  CallsLeaveRows' /\ Judgment!PaidOncePerWindow' /\ Len(calls') <= MaxRows
  <2>1. rows' = rows /\ calls' = calls /\ role = "none"
    BY <1>5 DEF Judgment!Write
  <2>2. calls = <<>>
    BY <1>t, <2>1 DEF CallsLeaveRows
  <2> QED
    BY <1>t, <1>3, <2>1, <2>2 DEF CallsLeaveRows, Judgment!PaidOncePerWindow
<1>6. CASE \/ \E q \in Questions : Judgment!EditTemplate(q)
          \/ \E f \in Facts : Judgment!LearnFact(f)
  BY <1>1, <1>3, <1>6 DEF Judgment!EditTemplate, Judgment!LearnFact
<1>7. CASE Judgment!Tick \/ Judgment!Reuse \/ Judgment!SkipFresh \/ Judgment!Open
  BY <1>1, <1>3, <1>7 DEF Judgment!Tick, Judgment!Reuse, Judgment!SkipFresh, Judgment!Open
<1>8. CASE \/ \E a \in {"pass", "fail", "empty"} : Judgment!Judge(a)
          \/ Judgment!Silent \/ Judgment!Defer
  BY <1>1, <1>3, <1>8 DEF Judgment!Judge, Judgment!Silent, Judgment!Defer
<1>9. ASSUME NEW field \in Provides, NEW conf \in 1 .. 2, Judgment!OtherWrites(field, conf)
      PROVE  CallsLeaveRows' /\ Judgment!PaidOncePerWindow' /\ Len(calls') <= MaxRows
  <2>1. Judgment!Row(field, "other", conf, <<>>) \in Written
    BY <1>t DEF Judgment!Row, Written
  <2>2. /\ rows' = Append(rows, Judgment!Row(field, "other", conf, <<>>))
        /\ calls' = calls /\ role' = role
    BY <1>9 DEF Judgment!OtherWrites
  <2> QED
    BY <1>1, <1>4, <2>1, <2>2
<1>10. CASE Judgment!Compose
  <2>1. Judgment!Row("draft", "own", 1, work.asked) \in Written
    BY <1>t DEF Judgment!Row, Written
  <2>2. /\ rows' = Append(rows, Judgment!Row("draft", "own", 1, work.asked))
        /\ calls' = calls /\ role' = role
    BY <1>10 DEF Judgment!Compose
  <2> QED
    BY <1>1, <1>4, <2>1, <2>2
<1>11. CASE Judgment!Fail
  <2>1. rows' = rows /\ role' = role /\ work.pc = "session"
    BY <1>11 DEF Judgment!Fail
  <2>2. CASE role = "enrich"
    <3>1. Judgment!Called(FALSE)
      BY <1>11, <2>2 DEF Judgment!Fail
    <3> QED
      BY <1>2, <1>3, <2>1, <2>2, <3>1
  <2>3. CASE role # "enrich"
    <3>1. calls' = calls
      BY <1>11, <2>3 DEF Judgment!Fail
    <3> QED
      BY <1>1, <1>3, <2>1, <3>1
  <2> QED
    BY <2>2, <2>3
<1>12. ASSUME NEW fields \in Judgment!Subseqs, Judgment!Enrich(fields)
       PROVE  CallsLeaveRows' /\ Judgment!PaidOncePerWindow' /\ Len(calls') <= MaxRows
  <2> DEFINE New(n) == Judgment!Row(fields[n], "own", 1, <<>>)
             more == [n \in DOMAIN fields |-> New(n)]
  <2>1. /\ Len(fields) \in {0, 1, 2} /\ DOMAIN fields = 1 .. Len(fields)
        /\ \A n \in DOMAIN fields : fields[n] \in Provides
        /\ fields # <<>> => 1 \in DOMAIN fields
    BY DEF Judgment!Subseqs
  <2>2. \A n \in DOMAIN fields : New(n) \in Written /\ New(n).by = "own" /\ New(n).at = now
    BY <1>t, <2>1 DEF Judgment!Row, Written
  <2>3. /\ rows' = rows \o more /\ role = "enrich" /\ role' = role /\ work.pc = "session"
        /\ Judgment!Called(fields # <<>>)
    BY <1>12 DEF Judgment!Enrich
  <2> HIDE DEF New
  <2>4. /\ more \in Seq(Written) /\ DOMAIN more = DOMAIN fields
        /\ \A n \in DOMAIN more : more[n] = New(n)
    BY <2>1, <2>2
  <2> HIDE DEF more
  <2>5. PaidAt \subseteq PaidAt' /\ (fields # <<>> => now \in PaidAt')
    <3>1. /\ PaidAt \subseteq PaidAt'
          /\ \A n \in DOMAIN more : more[n].by = "own" => more[n].at \in PaidAt'
      BY <1>t, <2>3, <2>4, RowsStay
    <3>2. \A n \in DOMAIN more : more[n].by = "own" /\ more[n].at = now
      BY <2>2, <2>4
    <3> QED
      BY <2>1, <2>4, <3>1, <3>2
  <2>6. (fields # <<>>) \in BOOLEAN
    OBVIOUS
  <2> QED
    BY <1>2, <2>3, <2>5, <2>6
<1>13. CASE UNCHANGED Judgment!jvars
  BY <1>1, <1>3, <1>13 DEF Judgment!jvars
<1> QED
  BY <1>5, <1>6, <1>7, <1>8, <1>9, <1>10, <1>11, <1>12, <1>13 DEF Judgment!Next

LEMMA JudgmentNext == ASSUME Judgment!JudgmentAssumption, JudgmentInv,
      [Judgment!Next]_(Judgment!jvars) PROVE JudgmentInv'
<1>t. /\ role \in Roles \cup {"none"} /\ Roles \subseteq {"filter", "compose", "enrich"}
      /\ question \in Questions /\ facts \in Facts /\ now \in Nat /\ now <= JudgmentClock
      /\ rows \in Seq(Written) /\ done \in Seq(Judged) /\ left \in Seq(Questions \X Facts)
      /\ token \in Keyed /\ passed.key \in Keyed
      /\ work \in [pc : {"idle", "session"}, key : Keyed, asked : Keyed, collecting : BOOLEAN]
      /\ Len(rows) <= MaxRows /\ Len(done) <= MaxEvents /\ Len(left) <= MaxChanges
      /\ \A n \in DOMAIN rows : rows[n].field \in Provides \cup {"draft"} /\ rows[n].at <= now
      /\ Cache \in Nat /\ JudgmentClock \in Nat /\ MaxChanges \in Nat /\ MaxEvents \in Nat
         /\ MaxRows \in Nat
  BY DEF JudgmentInv, Judgment!TypeOK, JudgmentTyped, Judgment!JudgmentAssumption
<1>c. /\ CallsLeaveRows' /\ Judgment!PaidOncePerWindow'
      /\ Len(calls') <= MaxRows /\ Len(calls) <= MaxRows
  BY CallsNext DEF JudgmentInv, Judgment!TypeOK
<1>i. /\ Judgment!TypeOK /\ JudgmentTyped /\ KeyedWork /\ Unwritten /\ Apart /\ Drafts
         /\ SilentUnkeyed
      /\ KeysWere /\ SessionFirst /\ LastDraft /\ Judgment!JudgmentIsReused
         /\ Judgment!PaidOncePerWindow
  BY DEF JudgmentInv
<1>k. <<>> \in Keyed /\ Questions \X Facts \subseteq Keyed /\ Judgment!Asked \in Keyed
      /\ Judgment!Asked \in Questions \X Facts
  BY <1>t DEF Keyed, Judgment!Asked
<1>n. /\ Len(rows) \in Nat /\ DOMAIN rows = 1 .. Len(rows) /\ Len(done) \in Nat
      /\ DOMAIN done = 1 .. Len(done) /\ Len(left) \in Nat
  BY <1>t
<1>r. \A n \in DOMAIN rows : rows[n] \in Written /\ rows[n].at \in Nat
  <2>1. \A n \in DOMAIN rows : rows[n] \in Written
    BY <1>t
  <2> QED
    BY <2>1 DEF Written
<1>p. PaidAt \subseteq 0 .. now
  BY <1>t, <1>r DEF PaidAt
\* Where the session goes on or ends and nothing is written or asked.
<1>q. ASSUME UNCHANGED <<role, question, facts, rows, done, left>>, now' \in Nat, now <= now',
             now' <= JudgmentClock, token' \in Keyed, passed'.key \in Keyed,
             work' \in [pc : {"idle", "session"}, key : Keyed, asked : Keyed, collecting :
                   BOOLEAN],
             work'.key \in {work.key, <<>>, Judgment!Asked}, Judgment!JudgmentIsReused',
             work'.pc = "session" => /\ work'.key # <<>> /\ role # "none"
                                   /\ \/ work' = work
                                      \/ /\ work'.key = Judgment!Asked /\ now' = now
                                         /\ role = "enrich" /\ Cache > 0 => ~Judgment!Answered
      PROVE  JudgmentInv'
  <2>w. /\ PaidAt' = PaidAt /\ (Judgment!Collected' <=> Judgment!Collected)
           /\ Drafts' /\ SilentUnkeyed'
        /\ Judgment!Asked' = Judgment!Asked
        /\ \A key : (Earlier(key)' <=> Earlier(key)) /\ (Was(key)' <=> Was(key))
    BY <1>q, <1>i, NothingWritten, NothingAsked
  <2>1. Judgment!TypeOK'
    <3>1. now' \in 0 .. JudgmentClock
          /\ \A n \in DOMAIN rows' : rows'[n].field \in Provides \cup {"draft"}
             /\ rows'[n].at <= now'
      <4>1. now' \in 0 .. JudgmentClock
        BY <1>q, <1>t
      <4>2. ASSUME NEW n \in DOMAIN rows PROVE rows[n].field \in Provides \cup {"draft"}
            /\ rows[n].at <= now'
        BY <1>q, <1>t, <1>r
      <4> QED
        BY <1>q, <4>1, <4>2
    <3>2. \A key \in {token', work'.key, work'.asked, passed'.key} :
          key \in {<<>>} \cup (Questions \X Facts)
      BY <1>q DEF Keyed
    <3> QED
      BY <1>c, <1>q, <1>t, <3>1, <3>2 DEF Judgment!TypeOK
  <2>2. JudgmentTyped'
    BY <1>q, <1>i DEF JudgmentTyped
  <2>3. KeyedWork' /\ Unwritten'
    BY <1>q, <1>i DEF KeyedWork, Unwritten
  <2>4. Apart'
    <3> SUFFICES ASSUME role = "enrich", Cache > 0, work'.pc = "session",
          NEW s \in PaidAt
                 PROVE  now' - s > Cache
      BY <1>q, <2>w DEF Apart
    <3>1. s \in Nat
      BY <1>p
    <3>2. CASE work' = work
      <4>1. work.pc = "session"
        BY <3>2
      <4>2. now - s > Cache
        BY <1>i, <4>1 DEF Apart
      <4>3. now \in Nat /\ now' \in Nat /\ Cache \in Nat /\ now <= now'
        BY <1>q, <1>t
      <4> QED
        BY <3>1, <4>2, <4>3, StillLater
    <3>3. CASE ~Judgment!Answered /\ now' = now
      <4>1. PICK n \in DOMAIN rows : rows[n].by = "own" /\ rows[n].at = s
        BY DEF PaidAt
      <4>2. ~Judgment!Inside(rows[n].at, Cache)
        BY <3>3, <4>1 DEF Judgment!Answered
      <4> QED
        BY <1>t, <3>1, <3>3, <4>1, <4>2 DEF Judgment!Inside
    <3> QED
      BY <1>q, <3>2, <3>3
  <2>5. KeysWere'
    <3>1. Was(<<>>) /\ Was(Judgment!Asked) /\ Was(work.key)
          /\ \A n \in DOMAIN done : Was(done[n].key)
      BY <1>i DEF KeysWere, Was
    <3>2. Was(work'.key)
      BY <1>q, <3>1
    <3>3. \A key : Was(key) => key = <<>> \/ key = Judgment!Asked'
          \/ \E n \in DOMAIN left' : left'[n] = key
      BY <1>q, <2>w DEF Was, Earlier
    <3> QED
      BY <1>q, <3>1, <3>2, <3>3 DEF KeysWere, Was, Earlier
  <2>e. Earlier(Judgment!Asked)' <=> Earlier(Judgment!Asked)
    BY <1>q, <2>w DEF Earlier
  <2>6. SessionFirst'
    BY <1>q, <1>i, <2>w, <2>e DEF SessionFirst
  <2>7. LastDraft'
    BY <1>q, <1>i, <2>w, <2>e DEF LastDraft
  <2> QED
    BY <1>c, <1>q, <2>w, <2>1, <2>2, <2>3, <2>4, <2>5, <2>6, <2>7 DEF JudgmentInv
\* Where something is asked anew.
<1>l. ASSUME left' = Append(left, Judgment!Asked), Len(left) < MaxChanges, Judgment!Judging,
             question' \in Questions, facts' \in Facts, passed' = Judgment!Nobody,
             UNCHANGED <<role, now, rows, done, token, work>>
      PROVE  JudgmentInv'
  <2>w. /\ PaidAt' = PaidAt /\ (Judgment!Collected' <=> Judgment!Collected)
           /\ Drafts' /\ SilentUnkeyed'
    BY <1>l, <1>i, NothingWritten
  <2>a. /\ KeysWere' /\ left' \in Seq(Questions \X Facts)
        /\ ~Earlier(Judgment!Asked)' => \A n \in DOMAIN done : done[n].key # Judgment!Asked'
    BY <1>l, <1>i, <1>k, AskedAnew
  <2>p. Judgment!JudgmentIsReused' /\ passed'.key = <<>>
    BY <1>l, NobodyPasses
  <2>1. Judgment!TypeOK'
    <3>1. Len(left') <= MaxChanges
      BY <1>l, <1>t, <1>n
    <3> QED
      BY <1>c, <1>l, <1>i, <2>p, <3>1 DEF Judgment!TypeOK
  <2>2. JudgmentTyped'
    BY <1>l, <1>i, <1>k, <2>a, <2>p DEF JudgmentTyped
  <2>3. KeyedWork' /\ Unwritten' /\ Apart'
    BY <1>l, <1>i, <2>w DEF KeyedWork, Unwritten, Apart
  <2>4. SessionFirst'
    BY <1>l, <2>a DEF SessionFirst
  <2>5. LastDraft'
    BY <1>l, <2>a DEF LastDraft
  <2> QED
    BY <1>c, <2>w, <2>a, <2>p, <2>1, <2>2, <2>3, <2>4, <2>5 DEF JudgmentInv
<1>1. ASSUME NEW kind \in Roles, Judgment!Write(kind) PROVE JudgmentInv'
  <2>f. /\ role = "none" /\ role' \in {"filter", "compose", "enrich"} /\ role' \in Roles
        /\ passed' = Judgment!Nobody
           /\ UNCHANGED <<question, facts, now, rows, done, token, work, left>>
        /\ rows = <<>> /\ done = <<>> /\ work.pc = "idle"
    BY <1>t, <1>i, <1>1 DEF Judgment!Write, Unwritten
  <2>p. Judgment!JudgmentIsReused' /\ passed'.key = <<>>
    BY <2>f, NobodyPasses
  <2>w. /\ Judgment!Asked' = Judgment!Asked /\ \A key : Was(key)' <=> Was(key)
    BY <2>f, NothingAsked
  <2>1. Judgment!TypeOK'
    BY <1>c, <1>i, <2>f, <2>p DEF Judgment!TypeOK
  <2>2. JudgmentTyped'
    BY <1>i, <1>k, <2>f, <2>p DEF JudgmentTyped
  <2>3. KeyedWork' /\ Unwritten' /\ Apart' /\ Drafts' /\ SilentUnkeyed' /\ SessionFirst'
        /\ LastDraft'
    BY <1>i, <2>f DEF KeyedWork, Unwritten, Apart, Drafts, SilentUnkeyed, SessionFirst, LastDraft
  <2>4. KeysWere'
    BY <1>i, <2>f, <2>w DEF KeysWere, Was, Earlier
  <2> QED
    BY <1>c, <2>p, <2>1, <2>2, <2>3, <2>4 DEF JudgmentInv
<1>2. ASSUME NEW q \in Questions, Judgment!EditTemplate(q) PROVE JudgmentInv'
  BY <1>l, <1>t, <1>2 DEF Judgment!EditTemplate
<1>3. ASSUME NEW f \in Facts, Judgment!LearnFact(f) PROVE JudgmentInv'
  BY <1>l, <1>t, <1>3 DEF Judgment!LearnFact
<1>4. CASE Judgment!Tick
  <2>1. Judgment!JudgmentIsReused' /\ passed'.key = <<>>
    BY <1>4, NobodyPasses DEF Judgment!Tick
  <2>2. now' \in Nat /\ now <= now' /\ now' <= JudgmentClock
    BY <1>4, <1>t DEF Judgment!Tick
  <2>3. work.pc = "session" => work.key # <<>> /\ role # "none"
    BY <1>i DEF KeyedWork, Unwritten
  <2>4. UNCHANGED <<role, question, facts, rows, done, left, token, work>>
    BY <1>4 DEF Judgment!Tick
  <2> QED
    BY <1>q, <1>t, <1>k, <2>1, <2>2, <2>3, <2>4
<1>5. ASSUME NEW field \in Provides, NEW conf \in 1 .. 2, Judgment!OtherWrites(field,
      conf) PROVE JudgmentInv'
  <2> DEFINE new == Judgment!Row(field, "other", conf, <<>>)
  <2>n. new \in Written /\ new.by = "other" /\ new.field \in Provides /\ new.at = now
    BY <1>t, <1>k DEF Judgment!Row, Written
  <2>f. /\ role = "enrich" /\ Len(rows) < MaxRows /\ passed' = Judgment!Nobody
           /\ rows' = Append(rows, new)
        /\ UNCHANGED <<role, question, facts, now, done, token, work, left>>
    BY <1>5 DEF Judgment!OtherWrites
  <2> HIDE DEF new
  <2>p. Judgment!JudgmentIsReused' /\ passed'.key = <<>>
    BY <2>f, NobodyPasses
  <2>w. Judgment!Asked' = Judgment!Asked /\ \A key : (Was(key)' <=> Was(key))
        /\ (Earlier(key)' <=> Earlier(key))
    BY <2>f, NothingAsked
  <2>r. /\ rows' \in Seq(Written) /\ Len(rows') = Len(rows) + 1
           /\ DOMAIN rows' = 1 .. Len(rows) + 1
        /\ rows'[Len(rows) + 1] = new /\ \A n \in 1 .. Len(rows) : rows'[n] = rows[n]
    BY <1>t, <1>n, <2>f, <2>n
  <2>1. Judgment!TypeOK'
    <3>1. /\ Len(rows') <= MaxRows
          /\ \A n \in DOMAIN rows' : rows'[n].field \in Provides \cup {"draft"}
             /\ rows'[n].at <= now
      BY <1>t, <1>n, <2>f, <2>n, <2>r
    <3> QED
      BY <1>c, <1>i, <2>f, <2>p, <3>1 DEF Judgment!TypeOK
  <2>2. JudgmentTyped'
    BY <1>i, <1>k, <2>f, <2>p, <2>r DEF JudgmentTyped
  <2>3. PaidAt' = PaidAt
    BY <1>n, <2>n, <2>r DEF PaidAt
  <2>4. KeyedWork' /\ Unwritten' /\ Apart' /\ Drafts' /\ SilentUnkeyed' /\ LastDraft'
    BY <1>i, <2>f, <2>3
       DEF KeyedWork, Unwritten, Apart, Drafts, SilentUnkeyed, LastDraft
  <2>5. KeysWere'
    BY <1>i, <2>f, <2>w DEF KeysWere, Was, Earlier
  <2>6. SessionFirst'
    BY <1>i, <2>f, <2>w DEF SessionFirst, Earlier
  <2> QED
    BY <1>c, <2>p, <2>1, <2>2, <2>4, <2>5, <2>6 DEF JudgmentInv
<1>6. CASE Judgment!Reuse
  <2>m. Judgment!Newest(Judgment!Matching(Judgment!Asked)) \in Judgment!Matching(Judgment!Asked)
    BY <1>6, <1>n, NewestIs DEF Judgment!Reuse, Judgment!Matching
  <2>j. PICK j \in DOMAIN done : j = Judgment!Newest(Judgment!Matching(Judgment!Asked))
        /\ done[j].key = Judgment!Asked
    BY <2>m DEF Judgment!Matching
  <2>f. /\ work.pc = "idle" /\ role \in {"filter", "compose"}
        /\ passed' = [by |-> "reuse", answer |-> done[j].answer, about |-> done[j].about,
                      key |-> Judgment!Asked, draft |-> Judgment!Draft]
        /\ UNCHANGED <<role, question, facts, now, rows, done, token, work, left>>
    BY <1>6, <2>j DEF Judgment!Reuse, Judgment!Judging
  <2>k. /\ passed'.key = Judgment!Asked /\ passed'.answer = done[j].answer
           /\ passed'.about = done[j].about
        /\ passed'.draft = Judgment!Draft /\ passed'.by = "reuse"
    BY <2>f
  <2>w. /\ Judgment!Asked' = Judgment!Asked /\ \A key : (Earlier(key)' <=> Earlier(key))
        /\ Judgment!Collected' <=> Judgment!Collected
    BY <2>f, NothingAsked, NothingWritten
  <2>a. ~Judgment!Collected => done[j].about = Judgment!Asked
    BY <1>k, <2>j, AskedIs DEF Judgment!Collected
  <2>1. Judgment!ReuseWasAnswered'
    <3>1. done[j].answer # "silence"
      BY <1>i, <2>j, AskedIs DEF SilentUnkeyed
    <3> QED
      BY <2>k, <2>w, <2>a, <3>1 DEF Judgment!ReuseWasAnswered
  <2>2. Judgment!DraftIsAbout'
    <3> SUFFICES ASSUME role = "compose", done[j].answer = "draft",
          Judgment!Asked \notin Judgment!Range(left), ~Judgment!Collected
                 PROVE  Judgment!Draft = Judgment!Asked
      BY <2>f, <2>k, <2>w DEF Judgment!DraftIsAbout
    <3>1. ~Earlier(Judgment!Asked)
      BY DEF Earlier, Judgment!Range
    <3>2. rows # <<>> /\ rows[Len(rows)].about = Judgment!Asked
      BY <1>i, <2>j, <3>1 DEF LastDraft
    <3> QED
      BY <1>i, <3>2, LastIsCurrent
  <2>3. Judgment!JudgmentIsReused' /\ passed'.key \in Keyed
    BY <1>k, <2>k, <2>1, <2>2 DEF Judgment!JudgmentIsReused
  <2> QED
    BY <1>q, <1>t, <2>f, <2>3
<1>7. CASE Judgment!SkipFresh
  <2>1. Judgment!JudgmentIsReused' /\ passed'.key = <<>>
    BY <1>7, NobodyPasses DEF Judgment!SkipFresh
  <2>2. work.pc = "idle"
        /\ UNCHANGED <<role, question, facts, now, rows, done, left, token, work>>
    BY <1>7 DEF Judgment!SkipFresh
  <2> QED
    BY <1>q, <1>t, <1>k, <2>1, <2>2
<1>8. CASE Judgment!Open
  <2>1. Judgment!JudgmentIsReused' /\ passed'.key = <<>>
    BY <1>8, NobodyPasses DEF Judgment!Open
  <2>2. /\ work' = [pc |-> "session", key |-> Judgment!Asked, collecting |-> token # <<>>,
                   asked |-> IF token = <<>> THEN Judgment!Asked ELSE token]
        /\ role # "none" /\ (role = "enrich" => Cache = 0 \/ ~Judgment!Answered)
        /\ UNCHANGED <<role, question, facts, now, rows, done, left, token>>
    BY <1>8 DEF Judgment!Open
  <2>3. /\ work' \in [pc : {"idle", "session"}, key : Keyed, asked : Keyed, collecting : BOOLEAN]
        /\ work'.key = Judgment!Asked /\ Judgment!Asked # <<>>
    BY <1>t, <1>k, <2>2, AskedIs
  <2> QED
    BY <1>q, <1>t, <1>k, <2>1, <2>2, <2>3
<1>9. CASE Judgment!Fail \/ Judgment!Defer
  <2>1. Judgment!JudgmentIsReused' /\ passed'.key = <<>>
    BY <1>9, NobodyPasses DEF Judgment!Fail, Judgment!Defer
  <2>2. /\ work' = Judgment!AtRest /\ token' \in {<<>>, work.asked}
        /\ UNCHANGED <<role, question, facts, now, rows, done, left>>
    BY <1>9 DEF Judgment!Fail, Judgment!Defer
  <2>3. /\ work' \in [pc : {"idle", "session"}, key : Keyed, asked : Keyed, collecting : BOOLEAN]
        /\ work'.key = <<>> /\ work'.pc = "idle" /\ token' \in Keyed
    BY <1>t, <1>k, <2>2 DEF Judgment!AtRest
  <2> QED
    BY <1>q, <1>t, <1>k, <2>1, <2>2, <2>3
\* Where the session ends in a done event.
<1>s. ASSUME NEW by \in {"session", "silence"}, NEW key \in {work.key, <<>>},
             NEW answer \in {"pass", "fail", "empty", "draft", "silence"}, NEW draft,
             Judgment!InSession, Judgment!Judging, Judgment!Settle(by, key, answer, draft),
             answer = "silence" => key = <<>>,
             UNCHANGED <<role, question, facts, now, left>>,
             \/ rows' = rows /\ answer # "draft"
             \/ /\ Len(rows) < MaxRows /\ role = "compose"
                /\ key = work.key /\ answer = "draft" /\ draft = work.asked
                /\ rows' = Append(rows, Judgment!Row("draft", "own", 1, work.asked))
      PROVE  JudgmentInv'
  <2> DEFINE new == Judgment!Row("draft", "own", 1, work.asked)
             event == [key |-> key, answer |-> answer, about |-> work.asked, at |-> now]
  <2>n. /\ new \in Written /\ new.about = work.asked /\ new.field = "draft" /\ new.at = now
           /\ new.conf = 1
        /\ event \in Judged /\ event.key = key /\ event.answer = answer
           /\ event.about = work.asked
    BY <1>t, <1>k DEF Judgment!Row, Written, Judged
  <2>f. /\ work.pc = "session" /\ Len(done) < MaxEvents /\ role \in {"filter", "compose"}
        /\ done' = Append(done, event) /\ token' = <<>> /\ work' = Judgment!AtRest
        /\ passed'.by = by /\ passed'.answer = answer /\ passed'.about = work.asked
        /\ passed'.key = work.key /\ passed'.draft = draft
    BY <1>s DEF Judgment!Settle, Judgment!InSession, Judgment!Judging
  <2>c. \/ rows' = rows /\ answer # "draft"
        \/ /\ rows' = Append(rows, new) /\ Len(rows) < MaxRows /\ role = "compose"
           /\ key = work.key /\ answer = "draft" /\ draft = work.asked
    BY <1>s
  <2> HIDE DEF new, event
  <2>g. answer = "draft" => role = "compose" /\ key = work.key /\ draft = work.asked
    BY <2>c
  <2>x. Append(rows, new) # rows
    <3>1. Len(Append(rows, new)) = Len(rows) + 1
      BY <1>t, <2>n
    <3>2. \A n \in Nat : n # n + 1
      OBVIOUS
    <3>3. Len(rows) \in Nat
      BY <1>n
    <3> QED
      BY <3>1, <3>2, <3>3, Zenon
  <2>w. /\ Judgment!Asked' = Judgment!Asked /\ \A k : (Earlier(k)' <=> Earlier(k))
           /\ (Was(k)' <=> Was(k))
    BY <1>s, NothingAsked
  <2>r. /\ rows' \in Seq(Written) /\ Len(rows') \in Nat
        /\ Len(rows') <= MaxRows /\ DOMAIN rows' = 1 .. Len(rows')
        /\ \A n \in DOMAIN rows' : (n \in DOMAIN rows /\ rows'[n] = rows[n]) \/ rows'[n] = new
    <3>1. CASE rows' = rows
      BY <1>t, <1>n, <3>1
    <3>2. CASE rows' = Append(rows, new)
      <4>1. /\ rows' \in Seq(Written) /\ Len(rows') = Len(rows) + 1
               /\ DOMAIN rows' = 1 .. Len(rows) + 1
            /\ rows'[Len(rows) + 1] = new /\ \A n \in 1 .. Len(rows) : rows'[n] = rows[n]
        BY <1>t, <1>n, <2>n, <3>2
      <4>2. Len(rows) < MaxRows
        BY <2>c, <2>x, <3>2
      <4> QED
        BY <1>t, <1>n, <4>1, <4>2
    <3> QED
      BY <2>c, <3>1, <3>2
  <2>l. rows' = Append(rows, new) => rows' # <<>> /\ rows'[Len(rows')] = new
    <3> SUFFICES ASSUME rows' = Append(rows, new) PROVE rows' # <<>> /\ rows'[Len(rows')] = new
      OBVIOUS
    <3>1. Len(rows') = Len(rows) + 1 /\ rows'[Len(rows) + 1] = new
      BY <1>t, <1>n, <2>n
    <3> QED
      BY <1>n, <3>1
  <2>d. /\ done' \in Seq(Judged) /\ Len(done') = Len(done) + 1
           /\ DOMAIN done' = 1 .. Len(done) + 1
        /\ done'[Len(done) + 1] = event /\ \A n \in DOMAIN done : done'[n] = done[n]
           /\ n \in DOMAIN done'
        /\ \A n \in DOMAIN done' : (n \in DOMAIN done /\ done'[n] = done[n]) \/ done'[n] = event
    BY <1>t, <1>n, <2>f, <2>n
  <2>k. work.key # <<>> /\ Was(work.key)
    BY <1>i, <2>f DEF KeyedWork, KeysWere
  <2>a. ~Judgment!Collected' => ~Judgment!Collected /\ (key # <<>> => work.asked = key)
    <3>1. Judgment!Collected => Judgment!Collected'
      BY <2>d DEF Judgment!Collected
    <3>2. ~Judgment!Collected' => event.key \in {<<>>, event.about}
      BY SMTT(30), <1>n, <2>d DEF Judgment!Collected
    <3> QED
      BY <2>n, <3>1, <3>2
  <2>1. Judgment!TypeOK'
    <3>1. \A n \in DOMAIN rows' : rows'[n].field \in Provides \cup {"draft"} /\ rows'[n].at <= now
      <4>1. new.field = "draft" /\ new.at <= now
        BY <1>t, <2>n
      <4>2. \A n \in DOMAIN rows : rows[n].field \in Provides \cup {"draft"} /\ rows[n].at <= now
        BY <1>t
      <4> QED
        BY <2>r, <4>1, <4>2
    <3>2. Len(done') <= MaxEvents
      BY <1>t, <1>n, <2>f, <2>d
    <3>3. \A k \in {token', work'.key, work'.asked, passed'.key} :
          k \in {<<>>} \cup (Questions \X Facts)
      BY <1>t, <2>f DEF Judgment!AtRest, Keyed
    <3>4. work'.pc \in {"idle", "session"} /\ work'.collecting \in BOOLEAN
      BY <2>f DEF Judgment!AtRest
    <3>5. role \in Roles \cup {"none"} /\ question \in Questions /\ facts \in Facts
          /\ now \in 0 .. JudgmentClock
      BY SMTT(30), <1>t
    <3> QED
      BY ZenonT(30), <1>c, <1>s, <1>t, <2>r, <3>1, <3>2, <3>3, <3>4, <3>5 DEF Judgment!TypeOK
  <2>2. JudgmentTyped'
    BY ZenonT(30), <1>s, <1>t, <1>k, <2>f, <2>r, <2>d DEF JudgmentTyped, Judgment!AtRest
  <2>3. KeyedWork' /\ Unwritten' /\ Apart' /\ SessionFirst'
    BY SMTT(30), <1>s, <2>f DEF KeyedWork, Unwritten, Apart, SessionFirst, Judgment!AtRest
  <2>4. Drafts'
    BY <1>s, <1>i, <2>n, <2>r DEF Drafts
  <2>5. SilentUnkeyed'
    BY <1>s, <1>i, <2>n, <2>d DEF SilentUnkeyed
  <2>6. KeysWere'
    <3>1. Was(<<>>) /\ Was(event.key) /\ \A n \in DOMAIN done : Was(done[n].key)
      BY <1>s, <1>i, <2>n, <2>k DEF KeysWere, Was
    <3>2. \A n \in DOMAIN done' : Was(done'[n].key)
      BY <2>d, <3>1
    <3>3. \A k : Was(k) => k = <<>> \/ k = Judgment!Asked' \/ \E n \in DOMAIN left' : left'[n] = k
      BY <1>s, <2>w DEF Was, Earlier
    <3> QED
      BY <2>f, <3>1, <3>2, <3>3 DEF KeysWere, Was, Earlier, Judgment!AtRest
  <2>7. LastDraft'
    <3>e. Earlier(Judgment!Asked)' <=> Earlier(Judgment!Asked)
      BY <1>s, <2>w DEF Earlier
    <3> SUFFICES ASSUME role = "compose", ~Judgment!Collected', ~Earlier(Judgment!Asked),
          NEW n \in DOMAIN done',
                        done'[n].key = Judgment!Asked, done'[n].answer = "draft"
                 PROVE  rows' # <<>> /\ rows'[Len(rows')].about = Judgment!Asked
      BY <1>s, <2>w, <3>e DEF LastDraft
    <3>1. CASE rows' = rows
      <4>1. answer # "draft"
        BY <2>c, <2>x, <3>1
      <4>2. n \in DOMAIN done /\ done'[n] = done[n]
        BY <2>d, <2>n, <4>1
      <4> QED
        BY <1>i, <2>a, <3>1, <4>2 DEF LastDraft
    <3>2. CASE rows' = Append(rows, new)
      <4>1. CASE done'[n] = event
        BY <2>a, <2>n, <2>l, <3>2, <4>1, AskedIs
      <4>2. CASE n \in DOMAIN done /\ done'[n] = done[n]
        <5>1. work.key = Judgment!Asked
          BY <1>i, <2>f, <4>2 DEF SessionFirst
        <5>2. key = work.key
          BY <2>c, <2>x, <3>2
        <5> QED
          BY <2>a, <2>n, <2>l, <2>k, <3>2, <5>1, <5>2
      <4> QED
        BY <2>d, <4>1, <4>2
    <3> QED
      BY <2>c, <3>1, <3>2
  <2>8. Judgment!JudgmentIsReused'
    <3>1. Judgment!ReuseWasAnswered'
      BY <2>f DEF Judgment!ReuseWasAnswered
    <3>2. Judgment!DraftIsAbout'
      BY <2>f, <2>g, <2>a, <2>k DEF Judgment!DraftIsAbout
    <3> QED
      BY <3>1, <3>2 DEF Judgment!JudgmentIsReused
  <2> QED
    BY <1>c, <2>1, <2>2, <2>3, <2>4, <2>5, <2>6, <2>7, <2>8 DEF JudgmentInv
<1>10. ASSUME NEW answer \in {"pass", "fail", "empty"}, Judgment!Judge(answer) PROVE JudgmentInv'
  <2>1. Judgment!InSession /\ Judgment!Judging
        /\ Judgment!Settle("session", work.key, answer, Judgment!Draft)
    BY <1>10 DEF Judgment!Judge, Judgment!Judging
  <2>2. UNCHANGED <<role, question, facts, now, rows, left>>
    BY <1>10 DEF Judgment!Judge
  <2> QED
    BY <1>s, <2>1, <2>2
<1>11. CASE Judgment!Compose
  <2>1. Judgment!InSession /\ Judgment!Judging
        /\ Judgment!Settle("session", work.key, "draft", work.asked)
    BY <1>11 DEF Judgment!Compose, Judgment!Judging
  <2>2. /\ Len(rows) < MaxRows /\ role = "compose"
           /\ UNCHANGED <<role, question, facts, now, left>>
        /\ rows' = Append(rows, Judgment!Row("draft", "own", 1, work.asked))
    BY <1>11 DEF Judgment!Compose
  <2> QED
    BY <1>s, <2>1, <2>2
<1>12. CASE Judgment!Silent
  <2>1. Judgment!InSession /\ Judgment!Judging
        /\ Judgment!Settle("silence", <<>>, "silence", Judgment!Draft)
    BY <1>12 DEF Judgment!Silent, Judgment!SilentKey, Judgment!Judging
  <2>2. UNCHANGED <<role, question, facts, now, rows, left>>
    BY <1>12 DEF Judgment!Silent
  <2> QED
    BY <1>s, <2>1, <2>2
<1>13. ASSUME NEW fields \in Judgment!Subseqs, Judgment!Enrich(fields) PROVE JudgmentInv'
  <2> DEFINE New(n) == Judgment!Row(fields[n], "own", 1, <<>>)
             more == [n \in DOMAIN fields |-> New(n)]
  <2>s. /\ Len(fields) \in {0, 1, 2} /\ DOMAIN fields = 1 .. Len(fields)
        /\ \A n \in DOMAIN fields : fields[n] \in Provides
    BY DEF Judgment!Subseqs
  <2>n. \A n \in DOMAIN fields : /\ New(n) \in Written /\ New(n).by = "own" /\ New(n).at = now
                                /\ New(n).field \in Provides
    BY <1>t, <1>k, <2>s DEF Judgment!Row, Written
  <2>f. /\ work.pc = "session" /\ role = "enrich" /\ Len(rows) + Len(fields) <= MaxRows
        /\ rows' = rows \o more /\ work' = Judgment!AtRest /\ passed' = Judgment!Nobody
        /\ UNCHANGED <<role, question, facts, now, done, token, left>>
    BY <1>13 DEF Judgment!Enrich
  <2> HIDE DEF New
  <2>m. /\ more \in Seq(Written) /\ Len(more) = Len(fields)
        /\ \A n \in 1 .. Len(more) : more[n].by = "own" /\ more[n].at = now
           /\ more[n].field \in Provides
    <3>1. more \in [1 .. Len(fields) -> Written]
      BY <2>s, <2>n
    <3>2. more \in Seq(Written) /\ Len(more) = Len(fields)
      BY <2>s, <3>1
    <3> QED
      BY <2>s, <2>n, <3>2
  <2> HIDE DEF more
  <2>p. Judgment!JudgmentIsReused' /\ passed'.key = <<>>
    BY <2>f, NobodyPasses
  <2>w. Judgment!Asked' = Judgment!Asked /\ \A key : (Was(key)' <=> Was(key))
    BY <2>f, NothingAsked
  <2>r. /\ rows' \in Seq(Written) /\ Len(rows') = Len(rows) + Len(more)
        /\ DOMAIN rows' = 1 .. Len(rows) + Len(more)
        /\ \A n \in 1 .. Len(rows) : rows'[n] = rows[n]
        /\ \A n \in 1 .. Len(more) : rows'[Len(rows) + n] = more[n]
    <3>1. rows \in Seq(Written) /\ more \in Seq(Written) /\ rows' = rows \o more
      BY <1>t, <2>f, <2>m
    <3>2. rows' \in Seq(Written) /\ Len(rows') = Len(rows) + Len(more)
      BY <3>1
    <3>3. DOMAIN rows' = 1 .. Len(rows) + Len(more)
      BY <3>2
    <3>4. \A n \in 1 .. Len(rows) : rows'[n] = rows[n]
      BY <3>1
    <3>5. \A n \in 1 .. Len(more) : rows'[Len(rows) + n] = more[n]
      BY <3>1
    <3> QED
      BY <3>2, <3>3, <3>4, <3>5
  <2>o. \A n \in DOMAIN rows' : \/ n \in DOMAIN rows /\ rows'[n] = rows[n]
                               \/ /\ rows'[n].by = "own" /\ rows'[n].at = now
                                  /\ rows'[n].field \in Provides
    <3> SUFFICES ASSUME NEW n \in DOMAIN rows', n \notin DOMAIN rows
                 PROVE  rows'[n].by = "own" /\ rows'[n].at = now /\ rows'[n].field \in Provides
      BY <1>n, <2>r
    <3>1. n - Len(rows) \in 1 .. Len(more) /\ Len(rows) + (n - Len(rows)) = n
      BY <1>n, <2>m, <2>s, <2>r
    <3> QED
      BY <2>m, <2>r, <3>1
  <2>1. Judgment!TypeOK'
    <3>1. Len(rows') <= MaxRows
      BY <2>f, <2>m, <2>r
    <3>2. \A n \in DOMAIN rows' : rows'[n].field \in Provides \cup {"draft"} /\ rows'[n].at <= now
      BY <1>t, <2>o
    <3> QED
      BY <1>c, <1>t, <1>k, <2>f, <2>p, <3>1, <3>2 DEF Judgment!TypeOK, Judgment!AtRest, Keyed
  <2>2. JudgmentTyped'
    BY <1>t, <1>k, <2>f, <2>p, <2>r DEF JudgmentTyped, Judgment!AtRest
  <2>3. KeyedWork' /\ Unwritten' /\ Apart' /\ Drafts' /\ SilentUnkeyed' /\ SessionFirst'
        /\ LastDraft'
    BY <1>i, <2>f DEF KeyedWork, Unwritten, Apart, Drafts, SilentUnkeyed, SessionFirst,
       LastDraft, Judgment!AtRest
  <2>4. KeysWere'
    <3>1. Was(<<>>) /\ \A n \in DOMAIN done : Was(done[n].key)
      BY <1>i DEF KeysWere, Was
    <3>2. \A k : Was(k) => k = <<>> \/ k = Judgment!Asked' \/ \E n \in DOMAIN left' : left'[n] = k
      BY <2>f, <2>w DEF Was, Earlier
    <3> QED
      BY <2>f, <3>1, <3>2 DEF KeysWere, Was, Earlier, Judgment!AtRest
  <2> QED
    BY <1>c, <2>p, <2>1, <2>2, <2>3, <2>4 DEF JudgmentInv
<1>14. CASE UNCHANGED Judgment!jvars
  <2>1. UNCHANGED <<role, question, facts, now, rows, done, token, work, passed, left>>
    BY <1>14 DEF Judgment!jvars
  <2>2. Judgment!JudgmentIsReused'
    BY <1>i, <2>1 DEF Judgment!JudgmentIsReused, Judgment!ReuseWasAnswered,
       Judgment!DraftIsAbout, Judgment!Collected
  <2>3. work.pc = "session" => work.key # <<>> /\ role # "none"
    BY <1>i DEF KeyedWork, Unwritten
  <2> QED
    BY <1>q, <1>t, <2>1, <2>2, <2>3
<1> QED
  BY <1>1, <1>2, <1>3, <1>4, <1>5, <1>6, <1>7, <1>8, <1>9, <1>10, <1>11, <1>12, <1>13, <1>14
     DEF Judgment!Next

(* The cache's invariant in every behaviour of it.                         *)
THEOREM JudgmentInvariance ==
  ASSUME Judgment!JudgmentAssumption PROVE Judgment!Spec => []JudgmentInv
<1>1. Judgment!Init => JudgmentInv
  BY JudgmentInit
<1>2. JudgmentInv /\ [Judgment!Next]_(Judgment!jvars) => JudgmentInv'
  BY JudgmentNext
<1> QED
  BY <1>1, <1>2, PTL DEF Judgment!Spec

(* What is reused was answered, to that question about those facts, and    *)
(* the draft that leaves a compose is about them (judgment.go,             *)
(* judgmentSkip).                                                          *)
THEOREM ReuseIsSound ==
  ASSUME Judgment!JudgmentAssumption PROVE Judgment!Spec => []Judgment!JudgmentIsReused
<1>1. JudgmentInv => Judgment!JudgmentIsReused
  BY DEF JudgmentInv
<1> QED
  BY <1>1, JudgmentInvariance, PTL

(* An enrich adapter that wrote a field is not called, and paid, again     *)
(* within the window (step.go, cacheSkip).                                 *)
THEOREM PaidOnce ==
  ASSUME Judgment!JudgmentAssumption PROVE Judgment!Spec => []Judgment!PaidOncePerWindow
<1>1. JudgmentInv => Judgment!PaidOncePerWindow
  BY DEF JudgmentInv
<1> QED
  BY <1>1, JudgmentInvariance, PTL

-----------------------------------------------------------------------------
(* Types.                                                                  *)

(* What Types counts is what the theorems about finite sets count.         *)
LEMMA TypesCount ==
  ASSUME NEW S
  PROVE  TypeFiles!Cardinality(S) = Cardinality(S)
BY Zenon DEF TypeFiles!Cardinality, Cardinality

Docs == Documents \cup TypeFiles!SetOf(Embedded) \cup {TypeFiles!NoType}
Registries == [byEntity : [Names -> Docs], problems : SUBSET Names]
DocsOf(read, n) == {read[i].doc : i \in {j \in DOMAIN read : read[j].name = n}}
SoundDoc(doc, n) == TypeFiles!Parses(doc) /\ doc.entity = n
BadDocs(docs, n) == (\E d, e \in docs : d # e) \/ \E d \in docs : ~SoundDoc(d, n)

\* What a registry has of a name no file of the binary has, and why.
TypeTold(r, docs, n) ==
  /\ n \notin r.problems => \/ docs = {} /\ r.byEntity[n] = TypeFiles!NoType
                            \/ docs = {r.byEntity[n]} /\ SoundDoc(r.byEntity[n], n)
  /\ n \in r.problems => BadDocs(docs, n)
  /\ n \in r.problems /\ r.byEntity[n] # TypeFiles!NoType => TypeFiles!Unreadable \in docs
TypesTold(r, read) ==
  /\ r \in Registries /\ read \in Seq(TypeFiles!File)
  /\ \A n \in Names \ DOMAIN Embedded : TypeTold(r, DocsOf(read, n), n)
  /\ \A n \in DOMAIN Embedded : r.byEntity[n] = Embedded[n] /\ n \notin r.problems

TypesInv ==
  /\ TypesTold(TypeFiles!Registry, found)
  /\ bound # TypeFiles!NoCopy => TypesTold(bound, found \o shipped)
  /\ bound = TypeFiles!NoCopy => shipped = <<>>
  /\ shipped \in Seq(TypeFiles!File)

(* What cannot be read, and no type at all, is no sound document.          *)
LEMMA NotSound == /\ ~TypeFiles!Parses(TypeFiles!Unreadable)
      /\ ~TypeFiles!Parses(TypeFiles!NoType) /\ TypeFiles!Unreadable # TypeFiles!NoType
BY DEF TypeFiles!Parses, TypeFiles!Unreadable, TypeFiles!NoType

(* One file more: the documents of its name are one more, of the others    *)
(* the same.                                                               *)
LEMMA DocsOfMore ==
  \A read \in Seq(TypeFiles!File), f \in TypeFiles!File : \A n :
    DocsOf(Append(read, f), n) =
      IF f.name = n THEN DocsOf(read, n) \cup {f.doc} ELSE DocsOf(read, n)
<1> TAKE read \in Seq(TypeFiles!File), f \in TypeFiles!File
<1> TAKE n
<1> PICK more : more = Append(read, f)
  OBVIOUS
<1>1. PICK m \in Nat : DOMAIN read = 1..m /\ DOMAIN more = 1..(m + 1) /\ more[m + 1] = f
                       /\ \A i \in 1..m : more[i] = read[i]
  OBVIOUS
<1>2. 1..(m + 1) = 1..m \cup {m + 1} /\ m + 1 \notin 1..m
  BY <1>1
<1>3. \A d : d \in DocsOf(more, n) <=> \E i \in 1..(m + 1) : more[i].name = n /\ more[i].doc = d
  BY <1>1 DEF DocsOf
<1>4. \A d : d \in DocsOf(read, n) <=> \E i \in 1..m : read[i].name = n /\ read[i].doc = d
  BY <1>1 DEF DocsOf
<1>5. \A d : d \in DocsOf(more, n) <=> d \in DocsOf(read, n) \/ (f.name = n /\ f.doc = d)
  BY <1>1, <1>2, <1>3, <1>4
<1> QED
  BY <1>5

\* What the next file does to the name it has, and to no other.
LEMMA AddedTo ==
  ASSUME TypeFiles!TypesAssumption, NEW r \in Registries, NEW f \in TypeFiles!File,
        f.name \notin DOMAIN Embedded,
         NEW q, q = TypeFiles!Add(r, f)
  PROVE  LET n == f.name  doc == f.doc  existing == r.byEntity[n]  same == q.byEntity[n] = existing
         IN
         /\ q \in Registries
         /\ \A x \in Names : x # n => /\ q.byEntity[x] = r.byEntity[x]
                                      /\ x \in q.problems <=> x \in r.problems
         /\ \/ doc = TypeFiles!Unreadable /\ same /\ n \in q.problems
            \/ ~SoundDoc(doc, n) /\ q.byEntity[n] = TypeFiles!NoType /\ n \in q.problems
            \/ /\ SoundDoc(doc, n) /\ (n \in r.problems \/ existing = doc) /\ same
               /\ n \in q.problems <=> n \in r.problems
            \/ /\ n \notin r.problems /\ existing # doc /\ existing # TypeFiles!NoType
               /\ q.byEntity[n] = TypeFiles!NoType /\ n \in q.problems
            \/ /\ SoundDoc(doc, n) /\ n \notin r.problems /\ existing = TypeFiles!NoType
               /\ q.byEntity[n] = doc /\ n \notin q.problems
<1> DEFINE n == f.name  doc == f.doc  existing == r.byEntity[n]
<1>1. PICK be \in [Names -> Docs], pr \in SUBSET Names : r = [byEntity |-> be, problems |-> pr]
  BY DEF Registries
<1>2. r.byEntity = be /\ r.problems = pr /\ n \in Names
      /\ doc \in Documents \cup {TypeFiles!Unreadable}
  BY <1>1 DEF TypeFiles!File
<1>3. TypeFiles!NoType \in Docs /\ \A d \in Documents : d \in Docs
  BY DEF Docs
<1> HIDE DEF n, doc
<1>4. CASE doc = TypeFiles!Unreadable
  <2>1. q = [byEntity |-> be, problems |-> pr \cup {n}]
    BY <1>1, <1>2, <1>4 DEF TypeFiles!Add, TypeFiles!Problem, n, doc
  <2> QED
    BY <1>2, <1>4, <2>1 DEF Registries, n, doc
<1>5. CASE doc # TypeFiles!Unreadable /\ ~SoundDoc(doc, n)
  <2>1. q = [byEntity |-> [be EXCEPT ![n] = TypeFiles!NoType], problems |-> pr \cup {n}]
    BY <1>1, <1>2, <1>5 DEF TypeFiles!Add, TypeFiles!Problem, TypeFiles!With, SoundDoc, n, doc
  <2> QED
    BY <1>2, <1>3, <1>5, <2>1 DEF Registries, n, doc
<1>6. CASE doc # TypeFiles!Unreadable /\ SoundDoc(doc, n) /\ (n \in r.problems \/ existing = doc)
  <2>1. q = r
    BY <1>6 DEF TypeFiles!Add, SoundDoc, n, doc
  <2> QED
    BY <1>2, <1>6, <2>1 DEF n, doc
<1>7. CASE /\ doc # TypeFiles!Unreadable /\ SoundDoc(doc, n) /\ n \notin r.problems
      /\ existing # doc
           /\ existing # TypeFiles!NoType
  <2>1. q = [byEntity |-> [be EXCEPT ![n] = TypeFiles!NoType], problems |-> pr \cup {n}]
    BY <1>1, <1>2, <1>7 DEF TypeFiles!Add, TypeFiles!Problem, TypeFiles!With, SoundDoc, n, doc
  <2> QED
    BY <1>2, <1>3, <1>7, <2>1 DEF Registries, n, doc
<1>8. CASE /\ doc # TypeFiles!Unreadable /\ SoundDoc(doc, n) /\ n \notin r.problems
      /\ existing # doc
           /\ existing = TypeFiles!NoType
  <2>1. q = [byEntity |-> [be EXCEPT ![n] = doc], problems |-> pr]
    BY <1>1, <1>2, <1>8 DEF TypeFiles!Add, TypeFiles!With, SoundDoc, n, doc
  <2>2. doc \in Docs
    BY <1>2, <1>3, <1>8
  <2> QED
    BY <1>2, <1>8, <2>1, <2>2 DEF Registries, n, doc
<1> QED
  BY <1>4, <1>5, <1>6, <1>7, <1>8

\* One more file, and what is told of each name stands.
LEMMA AddTold ==
  ASSUME TypeFiles!TypesAssumption, NEW r, NEW read, TypesTold(r, read), NEW f \in TypeFiles!File,
         NEW more, more = Append(read, f), NEW q, q = TypeFiles!Add(r, f)
  PROVE  TypesTold(q, more)
<1> DEFINE n == f.name  doc == f.doc  existing == r.byEntity[n]
<1>1. r \in Registries /\ read \in Seq(TypeFiles!File) /\ n \in Names
      /\ doc \in Documents \cup {TypeFiles!Unreadable}
  BY DEF TypesTold, TypeFiles!File
<1>2. more \in Seq(TypeFiles!File)
  BY <1>1
<1>3. /\ \A x \in Names : x # n => DocsOf(more, x) = DocsOf(read, x)
      /\ DocsOf(more, n) = DocsOf(read, n) \cup {doc}
  <2>1. \A x : DocsOf(Append(read, f), x) =
               IF f.name = x THEN DocsOf(read, x) \cup {f.doc} ELSE DocsOf(read, x)
    BY <1>1, DocsOfMore, Zenon
  <2> QED
    BY <2>1
<1>5. /\ \A x \in Names \ DOMAIN Embedded : TypeTold(r, DocsOf(read, x), x)
      /\ \A x \in DOMAIN Embedded : r.byEntity[x] = Embedded[x] /\ x \notin r.problems
  BY DEF TypesTold
<1>6. CASE n \in DOMAIN Embedded
  <2>1. q = r
    BY <1>6 DEF TypeFiles!Add
  <2>2. \A x \in Names \ DOMAIN Embedded : DocsOf(more, x) = DocsOf(read, x)
    BY <1>3, <1>6
  <2> QED
    BY <1>1, <1>2, <1>5, <2>1, <2>2 DEF TypesTold
<1>7. CASE n \notin DOMAIN Embedded
  <2> DEFINE same == q.byEntity[n] = existing
  <2>1. /\ q \in Registries
        /\ \A x \in Names : x # n => /\ q.byEntity[x] = r.byEntity[x]
                                     /\ x \in q.problems <=> x \in r.problems
        /\ \/ doc = TypeFiles!Unreadable /\ same /\ n \in q.problems
           \/ ~SoundDoc(doc, n) /\ q.byEntity[n] = TypeFiles!NoType /\ n \in q.problems
           \/ /\ SoundDoc(doc, n) /\ (n \in r.problems \/ existing = doc) /\ same
              /\ n \in q.problems <=> n \in r.problems
           \/ /\ n \notin r.problems /\ existing # doc /\ existing # TypeFiles!NoType
              /\ q.byEntity[n] = TypeFiles!NoType /\ n \in q.problems
           \/ /\ SoundDoc(doc, n) /\ n \notin r.problems /\ existing = TypeFiles!NoType
              /\ q.byEntity[n] = doc /\ n \notin q.problems
    BY <1>1, <1>7, AddedTo
  <2>2. PICK docs : docs = DocsOf(read, n)
    OBVIOUS
  <2>3. TypeTold(r, docs, n)
    BY <1>1, <1>5, <1>7, <2>2
  <2>4. TypeTold(q, docs \cup {doc}, n)
    <3>0. ~SoundDoc(TypeFiles!NoType, n) /\ ~SoundDoc(TypeFiles!Unreadable, n)
      BY NotSound DEF SoundDoc
    <3> HIDE DEF n, doc
    <3>1. CASE doc = TypeFiles!Unreadable /\ same /\ n \in q.problems
      BY <3>0, <3>1, NotSound DEF TypeTold, BadDocs
    <3>2. CASE ~SoundDoc(doc, n) /\ q.byEntity[n] = TypeFiles!NoType /\ n \in q.problems
      BY <3>2 DEF TypeTold, BadDocs
    <3>3. CASE /\ SoundDoc(doc, n) /\ (n \in r.problems \/ existing = doc) /\ same
               /\ n \in q.problems <=> n \in r.problems
      <4>1. CASE n \in r.problems
        BY <2>3, <3>3, <4>1 DEF TypeTold, BadDocs
      <4>2. CASE n \notin r.problems
        <5>1. docs \cup {doc} = {existing}
          BY <2>3, <3>0, <3>3, <4>2 DEF TypeTold
        <5> QED
          BY <3>3, <4>2, <5>1 DEF TypeTold
      <4> QED
        BY <4>1, <4>2
    <3>4. CASE /\ n \notin r.problems /\ existing # doc /\ existing # TypeFiles!NoType
               /\ q.byEntity[n] = TypeFiles!NoType /\ n \in q.problems
      <4>1. existing \in docs
        BY <2>3, <3>4 DEF TypeTold
      <4> QED
        BY <3>4, <4>1 DEF TypeTold, BadDocs
    <3>5. CASE /\ SoundDoc(doc, n) /\ n \notin r.problems /\ existing = TypeFiles!NoType
               /\ q.byEntity[n] = doc /\ n \notin q.problems
      <4>1. docs = {}
        BY <2>3, <3>0, <3>5 DEF TypeTold
      <4> QED
        BY <3>5, <4>1 DEF TypeTold
    <3> QED
      BY <2>1, <3>1, <3>2, <3>3, <3>4, <3>5
  <2>5. ASSUME NEW x \in Names \ DOMAIN Embedded PROVE TypeTold(q, DocsOf(more, x), x)
    <3>1. CASE x = n
      BY <1>3, <2>2, <2>4, <3>1
    <3>2. CASE x # n
      <4>1. TypeTold(r, DocsOf(read, x), x) /\ DocsOf(more, x) = DocsOf(read, x)
        BY <1>3, <1>5, <3>2
      <4>2. q.byEntity[x] = r.byEntity[x] /\ (x \in q.problems <=> x \in r.problems)
        BY <2>1, <3>2
      <4> QED
        BY <4>1, <4>2 DEF TypeTold
    <3> QED
      BY <3>1, <3>2
  <2>6. \A x \in DOMAIN Embedded : q.byEntity[x] = Embedded[x] /\ x \notin q.problems
    BY <1>5, <1>7, <2>1 DEF TypeFiles!TypesAssumption
  <2> QED
    BY <1>2, <2>1, <2>5, <2>6 DEF TypesTold
<1> QED
  BY <1>6, <1>7

\* A list of files read and what is told of it: what the properties say of it.
LEMMA ToldAgrees ==
  ASSUME TypeFiles!TypesAssumption, NEW r, NEW read, TypesTold(r, read)
        PROVE TypeFiles!Agreement(r, read)
<1>1. /\ \A n \in Names \ DOMAIN Embedded : TypeTold(r, DocsOf(read, n), n)
      /\ \A n \in DOMAIN Embedded : r.byEntity[n] = Embedded[n] /\ n \notin r.problems
  BY DEF TypesTold
<1>2. \A n \in DOMAIN Embedded : n \in Names /\ SoundDoc(Embedded[n], n)
  BY DEF TypeFiles!TypesAssumption, SoundDoc
<1>3. ASSUME NEW n \in Names \ DOMAIN Embedded
      PROVE  /\ TypeFiles!Resolves(r, n) <=> TypeFiles!Stands(read, n)
             /\ TypeFiles!Known(r, n) => TypeFiles!Resolves(r, n)
                \/ TypeFiles!Unreadable \in DocsOf(read, n)
  <2>1. PICK docs : docs = DocsOf(read, n)
    OBVIOUS
  <2>2. TypeTold(r, docs, n)
    BY <1>1, <2>1
  <2>3. ~SoundDoc(TypeFiles!NoType, n) /\ ~SoundDoc(TypeFiles!Unreadable, n)
    BY NotSound DEF SoundDoc
  <2>4. TypeFiles!Stands(read, n) <=> Cardinality(docs) = 1 /\ \A doc \in docs : SoundDoc(doc, n)
    BY <2>1, <2>3, TypesCount DEF TypeFiles!Stands, DocsOf, SoundDoc
  <2>5. Cardinality(docs) = 1 => \A d, e \in docs : d = e
    <3> DEFINE S == {j \in DOMAIN read : read[j].name = n}
               f == [i \in S |-> read[i].doc]
    <3>1. PICK m \in Nat : DOMAIN read = 1..m
      BY DEF TypesTold
    <3>2. IsFiniteSet(S)
      BY <3>1, FS_Interval, FS_Subset
    <3>3. f \in Surjection(S, docs)
      BY <2>1 DEF DocsOf, Surjection
    <3> HIDE DEF S, f
    <3>4. IsFiniteSet(docs)
      BY <3>2, <3>3, FS_Surjection
    <3>5. Cardinality(docs) = 1 => \E d : docs = {d}
      BY <3>4, FS_Singleton
    <3> QED
      BY <3>5
  <2>6. CASE n \notin r.problems /\ docs = {} /\ r.byEntity[n] = TypeFiles!NoType
    <3>1. Cardinality(docs) = 0
      BY <2>6, FS_EmptySet
    <3> QED
      BY <2>4, <2>6, <3>1 DEF TypeFiles!Resolves, TypeFiles!Known
  <2>7. CASE n \notin r.problems /\ docs = {r.byEntity[n]} /\ SoundDoc(r.byEntity[n], n)
    <3>1. Cardinality(docs) = 1
      BY <2>7, FS_Singleton
    <3>2. r.byEntity[n] # TypeFiles!NoType
      BY <2>3, <2>7
    <3> QED
      BY <2>4, <2>7, <3>1, <3>2 DEF TypeFiles!Resolves, TypeFiles!Known
  <2>8. CASE n \in r.problems
    BY <2>1, <2>2, <2>4, <2>5, <2>8 DEF TypeTold, BadDocs, TypeFiles!Resolves, TypeFiles!Known
  <2> QED
    BY <2>2, <2>6, <2>7, <2>8 DEF TypeTold
<1>4. ASSUME NEW n \in DOMAIN Embedded
      PROVE  TypeFiles!Resolves(r, n) /\ TypeFiles!Stands(read, n)
  BY <1>1, <1>2, NotSound DEF TypeFiles!Resolves, TypeFiles!Stands, SoundDoc
<1>5. ASSUME NEW n, TypeFiles!Unreadable \in DocsOf(read, n)
      PROVE  \E i \in DOMAIN read : read[i] = [name |-> n, doc |-> TypeFiles!Unreadable]
  <2>1. PICK i \in DOMAIN read : read[i].name = n /\ read[i].doc = TypeFiles!Unreadable
    BY <1>5 DEF DocsOf
  <2>2. read[i] \in TypeFiles!File
    BY <2>1 DEF TypesTold
  <2> QED
    BY <2>1, <2>2 DEF TypeFiles!File
<1> QED
  BY <1>1, <1>3, <1>4, <1>5 DEF TypeFiles!Agreement

\* The tiers of a type, read from names and from values, say one thing.
LEMMA TiersAgree ==
  ASSUME NEW doc, TypeFiles!Parses(doc), TypeFiles!Shaped(doc), NEW have,
        have \subseteq DOMAIN doc.fields
  PROVE  LET Given == {rec \in [DOMAIN doc.fields -> {"none", "blank", "bad", "good"}] :
                         \A f \in DOMAIN rec : f \notin have => rec[f] = "none"}
         IN  TypeFiles!Strong(doc, have) \/ TypeFiles!Weak(doc, have)
               <=> \E rec \in Given : TypeFiles!Candidates(doc, rec) # {}
<1> DEFINE Given == {rec \in [DOMAIN doc.fields -> {"none", "blank", "bad", "good"}] :
                       \A f \in DOMAIN rec : f \notin have => rec[f] = "none"}
<1>1. \A i \in DOMAIN doc.identity : TypeFiles!SoundTier(doc, doc.identity[i])
  BY DEF TypeFiles!Parses
<1>2. ASSUME NEW i \in DOMAIN doc.identity, doc.identity[i].field = TypeFiles!NoField,
             NEW alt \in TypeFiles!SetOf(doc.identity[i].hash[1])
      PROVE  TypeFiles!SetOf(alt.names) \subseteq DOMAIN doc.fields
  <2> DEFINE tier == doc.identity[i]
  <2>1. 1 \in DOMAIN tier.hash
    BY <1>2 DEF TypeFiles!Shaped
  <2>2. alt \in UNION {TypeFiles!SetOf(tier.hash[j]) : j \in DOMAIN tier.hash}
    BY <2>1
  <2>3. TypeFiles!SetOf(alt.names) \subseteq TypeFiles!TierFields(tier)
    BY <1>2, <2>2 DEF TypeFiles!TierFields
  <2> QED
    BY <1>1, <2>3 DEF TypeFiles!SoundTier
<1>3. ASSUME TypeFiles!Strong(doc, have) \/ TypeFiles!Weak(doc, have)
      PROVE  \E rec \in Given : TypeFiles!Candidates(doc, rec) # {}
  <2> DEFINE rec == [f \in DOMAIN doc.fields |-> IF f \in have THEN "good" ELSE "none"]
  <2>1. rec \in Given /\ \A f \in have : rec[f] = "good"
    OBVIOUS
  <2> HIDE DEF rec
  <2>2. CASE TypeFiles!Strong(doc, have)
    <3>1. PICK i \in DOMAIN doc.identity : doc.identity[i].field \in have
      BY <2>2 DEF TypeFiles!Strong
    <3>2. doc.identity[i].field # TypeFiles!NoField
      BY <3>1 DEF TypeFiles!Shaped
    <3>3. i \in TypeFiles!Candidates(doc, rec)
      BY <2>1, <3>1, <3>2 DEF TypeFiles!Candidates, TypeFiles!TierValue
    <3> QED
      BY <2>1, <3>3
  <2>3. CASE TypeFiles!Weak(doc, have)
    <3>1. PICK i \in DOMAIN doc.identity :
            /\ doc.identity[i].field = TypeFiles!NoField
            /\ \E alt \in TypeFiles!SetOf(doc.identity[i].hash[1]) :
               TypeFiles!SetOf(alt.names) \subseteq have
      BY <2>3 DEF TypeFiles!Weak
    <3>2. PICK alt \in TypeFiles!SetOf(doc.identity[i].hash[1]) :
            TypeFiles!SetOf(alt.names) \subseteq have
      BY <3>1
    <3>3. TypeFiles!Yields(doc, alt, rec)
      BY <2>1, <3>2 DEF TypeFiles!Yields, TypeFiles!RuleValue
    <3>4. i \in TypeFiles!Candidates(doc, rec)
      BY <3>1, <3>2, <3>3 DEF TypeFiles!Candidates, TypeFiles!TierValue
    <3> QED
      BY <2>1, <3>4
  <2> QED
    BY <1>3, <2>2, <2>3
<1>4. ASSUME NEW rec \in Given, NEW i \in TypeFiles!Candidates(doc, rec)
      PROVE  TypeFiles!Strong(doc, have) \/ TypeFiles!Weak(doc, have)
  <2>1. /\ i \in DOMAIN doc.identity /\ TypeFiles!TierValue(doc, doc.identity[i], rec)
        /\ \A f \in DOMAIN doc.fields : rec[f] # "none" => f \in have
    BY DEF TypeFiles!Candidates
  <2>2. CASE doc.identity[i].field # TypeFiles!NoField
    <3>1. doc.identity[i].field \in DOMAIN doc.fields
      BY <1>1, <2>1, <2>2 DEF TypeFiles!SoundTier, TypeFiles!TierFields
    <3>2. rec[doc.identity[i].field] = "good"
      BY <2>1, <2>2 DEF TypeFiles!TierValue
    <3> QED
      BY <2>1, <3>1, <3>2 DEF TypeFiles!Strong
  <2>3. CASE doc.identity[i].field = TypeFiles!NoField
    <3>1. PICK alt \in TypeFiles!SetOf(doc.identity[i].hash[1]) : TypeFiles!Yields(doc, alt, rec)
      BY <2>1, <2>3 DEF TypeFiles!TierValue
    <3>2. TypeFiles!SetOf(alt.names) \subseteq DOMAIN doc.fields
      BY <1>2, <2>1, <2>3
    <3>3. \A f \in TypeFiles!SetOf(alt.names) : rec[f] # "none"
      BY <3>1 DEF TypeFiles!Yields, TypeFiles!RuleValue
    <3> QED
      BY <2>1, <2>3, <3>2, <3>3 DEF TypeFiles!Weak
  <2> QED
    BY <2>2, <2>3
<1> QED
  BY <1>3, <1>4

(* The contract of a type and the keys of its records agree.               *)
LEMMA ToldKeysAgree ==
  ASSUME TypeFiles!TypesAssumption, NEW r, NEW read, TypesTold(r, read)
        PROVE TypeFiles!KeysAgree(r)
<1>1. SUFFICES ASSUME NEW n \in Names, TypeFiles!Resolves(r, n),
                      NEW have \in (SUBSET DOMAIN r.byEntity[n].fields) \ {{}}
               PROVE  TypeFiles!Contract(r, n, have) <=>
                        \E rec \in {rec \in [DOMAIN r.byEntity[n].fields ->
                                              {"none", "blank", "bad", "good"}] :
                                      \A f \in DOMAIN rec : f \notin have => rec[f] = "none"} :
                          TypeFiles!Candidates(r.byEntity[n], rec) # {}
  BY Zenon DEF TypeFiles!KeysAgree
<1>2. PICK doc : doc = r.byEntity[n]
  OBVIOUS
<1>3. TypeFiles!Parses(doc) /\ doc \in Docs
  <2>1. doc # TypeFiles!NoType /\ n \notin r.problems
    BY <1>1, <1>2 DEF TypeFiles!Resolves
  <2>2. CASE n \in DOMAIN Embedded
    BY <1>2, <2>2 DEF TypesTold, TypeFiles!TypesAssumption, Registries
  <2>3. CASE n \notin DOMAIN Embedded
    BY <1>1, <1>2, <2>1, <2>3 DEF TypesTold, TypeTold, SoundDoc, Registries
  <2> QED
    BY <2>2, <2>3
<1>4. TypeFiles!Shaped(doc)
  BY <1>3, NotSound DEF TypeFiles!TypesAssumption, Docs, TypeFiles!Parses
<1>5. TypeFiles!Contract(r, n, have) <=> TypeFiles!Strong(doc, have) \/ TypeFiles!Weak(doc, have)
  <2>1. have # {} /\ \A f \in have : f \in DOMAIN r.byEntity[n].fields
    BY <1>1
  <2>2. \A f \in have : TypeFiles!Canonical(r, n, f)
    BY <2>1 DEF TypeFiles!Canonical
  <2> QED
    BY <1>1, <1>2, <2>1, <2>2, Zenon DEF TypeFiles!Contract
<1>6. TypeFiles!Strong(doc, have) \/ TypeFiles!Weak(doc, have) <=>
        \E rec \in {rec \in [DOMAIN doc.fields -> {"none", "blank", "bad", "good"}] :
                      \A f \in DOMAIN rec : f \notin have => rec[f] = "none"} :
          TypeFiles!Candidates(doc, rec) # {}
  <2>1. have \subseteq DOMAIN doc.fields
    BY <1>1, <1>2
  <2> QED
    BY <1>3, <1>4, <2>1, TiersAgree
<1> QED
  BY <1>2, <1>5, <1>6

(* Only what the binary embeds is there.                                   *)
LEMMA TypesInit == ASSUME TypeFiles!TypesAssumption, TypeFiles!Init PROVE TypesInv
<1>1. TypeFiles!Registry \in Registries
  BY DEF TypeFiles!Init, TypeFiles!Registry, Registries, Docs, TypeFiles!SetOf,
        TypeFiles!TypesAssumption
<1>2. \A n : DocsOf(found, n) = {}
  BY DEF TypeFiles!Init, DocsOf
<1>3. TypesTold(TypeFiles!Registry, found)
  BY <1>1, <1>2 DEF TypeFiles!Init, TypesTold, TypeTold, TypeFiles!Registry,
        TypeFiles!TypesAssumption
<1> QED
  BY <1>3 DEF TypeFiles!Init, TypesInv

(* Every step keeps the invariant.                                         *)
LEMMA TypesNext == ASSUME TypeFiles!TypesAssumption, TypesInv,
      [TypeFiles!Next]_(TypeFiles!typesVars) PROVE TypesInv'
<1>1. CASE TypeFiles!Discover
  <2>1. PICK f \in TypeFiles!File :
          /\ bound = TypeFiles!NoCopy /\ found' = Append(found, f)
          /\ byEntity' = TypeFiles!Add(TypeFiles!Registry, f).byEntity
             /\ problems' = TypeFiles!Add(TypeFiles!Registry, f).problems
          /\ UNCHANGED <<shipped, bound>>
    BY <1>1 DEF TypeFiles!Discover
  <2>2. TypesTold(TypeFiles!Add(TypeFiles!Registry, f), Append(found, f))
    BY AddTold DEF TypesInv
  <2>3. TypeFiles!Registry' = TypeFiles!Add(TypeFiles!Registry, f)
    BY <2>1, <2>2 DEF TypeFiles!Registry, TypesTold, Registries
  <2>4. TypesTold(TypeFiles!Registry', found')
    BY <2>1, <2>2, <2>3, Zenon
  <2> QED
    BY <2>1, <2>4 DEF TypesInv
<1>2. CASE TypeFiles!Bind
  <2>1. bound = TypeFiles!NoCopy /\ bound' = TypeFiles!Registry
        /\ UNCHANGED <<found, byEntity, problems, shipped>>
    BY <1>2 DEF TypeFiles!Bind
  <2>2. found \o shipped = found
    BY <2>1 DEF TypesInv, TypesTold
  <2>3. TypeFiles!Registry' = TypeFiles!Registry /\ found' = found /\ shipped' = <<>>
    BY <2>1 DEF TypeFiles!Registry, TypesInv
  <2>4. TypesTold(bound', found' \o shipped')
    BY <2>1, <2>2, Zenon DEF TypesInv
  <2>5. TypesTold(TypeFiles!Registry', found')
    BY <2>1, <2>3, Zenon DEF TypesInv
  <2> QED
    BY <2>1, <2>3, <2>4, <2>5 DEF TypesInv
<1>3. CASE TypeFiles!Ship
  <2>1. PICK f \in TypeFiles!File :
          /\ bound # TypeFiles!NoCopy /\ shipped' = Append(shipped, f)
             /\ bound' = TypeFiles!Add(bound, f)
          /\ UNCHANGED <<found, byEntity, problems>>
    BY <1>3 DEF TypeFiles!Ship
  <2>2. PICK read : read = found \o shipped
    OBVIOUS
  <2>3. TypesTold(bound, read)
    BY <2>1, <2>2 DEF TypesInv
  <2>4. TypesTold(TypeFiles!Add(bound, f), Append(read, f))
    BY <2>3, AddTold
  <2>5. found' \o shipped' = Append(read, f)
    BY <2>1, <2>2 DEF TypesInv, TypesTold
  <2>6. TypesTold(bound', found' \o shipped')
    BY <2>1, <2>4, <2>5, Zenon
  <2>7. bound' # TypeFiles!NoCopy
    <3>1. bound'.byEntity \in [Names -> Docs] /\ f.name \in Names
      BY <2>6 DEF TypesTold, Registries, TypeFiles!File
    <3>2. f.name \in DOMAIN bound'.byEntity /\ DOMAIN TypeFiles!NoCopy.byEntity = {}
      BY <3>1 DEF TypeFiles!NoCopy
    <3> QED
      BY <3>2
  <2>8. shipped' \in Seq(TypeFiles!File)
    BY <2>1 DEF TypesInv
  <2>9. TypesTold(TypeFiles!Registry', found')
    <3>1. TypeFiles!Registry' = TypeFiles!Registry
      BY <2>1 DEF TypeFiles!Registry
    <3> QED
      BY <2>1, <3>1, Zenon DEF TypesInv
  <2> QED
    BY <2>6, <2>7, <2>8, <2>9 DEF TypesInv
<1>4. CASE UNCHANGED TypeFiles!typesVars
  <2>1. TypeFiles!Registry' = TypeFiles!Registry /\ UNCHANGED <<found, shipped, bound>>
    BY <1>4 DEF TypeFiles!typesVars, TypeFiles!Registry
  <2> QED
    BY <2>1 DEF TypesInv
<1> QED
  BY <1>1, <1>2, <1>3, <1>4 DEF TypeFiles!Next

(* The invariant of the registry, in every behaviour of it.                *)
THEOREM TypesInvariance == ASSUME TypeFiles!TypesAssumption PROVE TypeFiles!Spec => []TypesInv
<1>1. TypeFiles!Init => TypesInv
  BY TypesInit
<1>2. TypesInv /\ [TypeFiles!Next]_(TypeFiles!typesVars) => TypesInv'
  BY TypesNext
<1> QED
  BY <1>1, <1>2, PTL DEF TypeFiles!Spec

(* The invariant implies what the run of MCParts checks.                   *)
LEMMA TypesKept == ASSUME TypeFiles!TypesAssumption, TypesInv PROVE TypeFiles!RegistryHolds
BY ToldAgrees, ToldKeysAgree DEF TypesInv, TypeFiles!RegistryHolds

(* A name resolves exactly if its files agree on one sound type, in the     *)
(* order they were read or any other, and the planner and the run read the  *)
(* same tiers of keys (registry.go, keys.go).                               *)
THEOREM RegistryIsSound ==
  ASSUME TypeFiles!TypesAssumption PROVE TypeFiles!Spec => []TypeFiles!RegistryHolds
<1>1. TypesInv => TypeFiles!RegistryHolds
  BY TypesKept
<1> QED
  BY <1>1, TypesInvariance, PTL

(* And the types.                                                          *)
LEMMA TypesTyped == ASSUME TypesInv PROVE TypeFiles!TypeOK
<1>1. TypeFiles!Registry \in Registries /\ found \in Seq(TypeFiles!File)
  BY DEF TypesInv, TypesTold
<1>2. byEntity \in [Names -> Docs] /\ problems \subseteq Names
  BY <1>1 DEF Registries, TypeFiles!Registry
<1>3. bound # TypeFiles!NoCopy => DOMAIN bound.byEntity = Names /\ bound.problems \subseteq Names
  BY DEF TypesInv, TypesTold, Registries
<1>4. shipped \in Seq(TypeFiles!File)
  BY DEF TypesInv
<1> QED
  BY <1>1, <1>2, <1>3, <1>4 DEF TypeFiles!TypeOK, Docs

-----------------------------------------------------------------------------
(* Bundle.                                                                 *)

Frozen == Bundle!Contents \cup {Bundle!Manifest}

\* What the freeze put together, what the folder has of it, what runs of it.
HereNow == here \in [Bundle!Uses -> Versions]
PutTogether == bpc # "run" => files = Frozen /\ frozen = here
Carried ==
  /\ bpc \in {"run", "write"} => folder \subseteq files
  /\ bpc = "run" => files = {} /\ folder = {}
  /\ bpc = "write" => btodo \subseteq files
  /\ Bundle!Manifest \in folder => folder \subseteq files \/ \E f \in files : f \notin folder
  /\ \A g \in folder : g \in files \/ \A f \in files : f.name = g.name => f \notin folder
  /\ bpc \in {"loaded", "planned"} => Bundle!Verified /\ Bundle!Loads
RunThere ==
  /\ bpc \in {"loaded", "planned", "refused"} => there \in Bundle!Machines
  /\ bpc = "planned" => \A i \in Bundle!Steps :
        /\ Bundle!Resolved(pipeline[i].use) # 0
        /\ resolved[i] = Bundle!Resolved(pipeline[i].use) /\ texts[i] = Bundle!Template(i)
  /\ bpc = "refused" => \/ folder # files
                        \/ \E i \in Bundle!Steps : \/ Bundle!Resolved(pipeline[i].use) = 0
                                                   \/ ~Bundle!TypesKnown(pipeline[i].use)
BundleAt == bpc \in {"run", "write", "moved", "loaded", "planned", "refused"}
BundleInv == pipeline \in Pipelines /\ BundleAt /\ HereNow /\ PutTogether /\ Carried /\ RunThere

(* Induction over the naturals: the least counterexample.                  *)
LEMMA Least ==
  ASSUME NEW T, T \subseteq Nat, T # {}
  PROVE  \E n \in T : \A m \in T : ~(m < n)
<1>1. \E x \in T : \A y \in T : ~ (<<y, x>> \in OpToRel(<, Nat))
  BY NatLessThanWellFounded, WFMin
<1> QED
  BY <1>1 DEF OpToRel

\* One step packed behind those before it.
Pack(steps, F, i) ==
  IF i = 0 THEN [files |-> {}, names |-> <<>>]
  ELSE LET before == F[i - 1]
           step == steps[i]
           first == Named(Bundle!NoId, step.base)
           taken == \E f \in before.files : f.name = first /\ f.body # <<"text", step.text>>
           name == IF taken THEN Named(step.id, step.base) ELSE first
       IN IF step.base = Bundle!NoFile THEN [before EXCEPT !.names = Append(@, Bundle!NoFile)]
          ELSE [files |-> {f \in before.files : f.name # name}
                            \cup {[name |-> name, body |-> <<"text", step.text>>]},
                names |-> Append(before.names, name)]
PacksBy(steps, F, n) == F = [i \in 0..n |-> Pack(steps, F, i)]

(* Packing a step looks at what was packed before it only.                 *)
LEMMA PackOfOne ==
  ASSUME NEW F, NEW G, NEW i \in Nat \ {0}, F[i - 1] = G[i - 1]
        PROVE Pack(pipeline, F, i) = Pack(pipeline, G, i)
BY DEF Pack

(* The packing of a pipeline has a value after each step.                  *)
LEMMA PacksExist == ASSUME NEW N \in Nat PROVE \E F : PacksBy(pipeline, F, N)
<1> DEFINE T == {n \in Nat : ~ \E F : PacksBy(pipeline, F, n)}
<1>1. SUFFICES ASSUME T # {} PROVE FALSE
  OBVIOUS
<1>2. PICK n \in T : \A m \in T : ~(m < n)
  BY <1>1, Least
<1>3. CASE n = 0
  <2>1. PacksBy(pipeline, [i \in 0..n |-> [files |-> {}, names |-> <<>>]], n)
    BY <1>3 DEF PacksBy, Pack
  <2> QED
    BY <2>1
<1>4. CASE n > 0
  <2>1. PICK F : PacksBy(pipeline, F, n - 1)
    BY <1>2, <1>4
  <2>2. \A i \in 0..(n - 1) : F[i] = Pack(pipeline, F, i)
    BY <2>1, Zenon DEF PacksBy
  <2>3. PICK last : last = Pack(pipeline, F, n)
    OBVIOUS
  <2> DEFINE G == [i \in 0..n |-> IF i = n THEN last ELSE F[i]]
  <2>4. /\ \A i \in 0..(n - 1) : G[i] = F[i]
        /\ G[n] = last /\ DOMAIN G = 0..n /\ G = [i \in 0..n |-> G[i]]
    BY <1>2
  <2> HIDE DEF G
  <2>5. \A i \in 0..n : G[i] = Pack(pipeline, G, i)
    <3>1. TAKE i \in 0..n
    <3>2. CASE i = 0
      <4>1. 0 \in 0..(n - 1)
        BY <1>2, <1>4
      <4>2. Pack(pipeline, F, 0) = Pack(pipeline, G, 0)
        BY Zenon DEF Pack
      <4> QED
        BY <2>2, <2>4, <3>2, <4>1, <4>2, Zenon
    <3>3. CASE i \in 1..(n - 1)
      <4>0. i \in 0..(n - 1)
        BY <1>2, <3>3
      <4>1. G[i] = Pack(pipeline, F, i)
        BY <2>2, <2>4, <4>0, Zenon
      <4>2. i \in Nat \ {0} /\ F[i - 1] = G[i - 1]
        BY SMTT(30), <1>2, <2>4, <3>3
      <4> QED
        BY <4>1, <4>2, PackOfOne
    <3>4. CASE i = n
      <4>0. n \in Nat \ {0} /\ n - 1 \in 0..(n - 1)
        BY <1>2, <1>4
      <4>1. n \in Nat \ {0} /\ F[n - 1] = G[n - 1]
        BY <2>4, <4>0, Zenon
      <4>2. Pack(pipeline, F, n) = Pack(pipeline, G, n)
        BY <4>1, PackOfOne
      <4> QED
        BY <2>3, <2>4, <3>4, <4>2
    <3> QED
      BY <3>2, <3>3, <3>4, <1>2
  <2>6. PacksBy(pipeline, G, n)
    BY <2>4, <2>5, Zenon DEF PacksBy
  <2> QED
    BY <2>6
<1> QED
  BY <1>2, <1>3, <1>4

NamesAt(j) == {Named(Bundle!NoId, pipeline[j].base), Named(pipeline[j].id, pipeline[j].base)}
NamesThere == {Bundle!NoFile} \cup UNION {NamesAt(j) : j \in Bundle!Steps}

\* What is packed of the first i steps.
PackedTo(p, i) ==
  /\ p = [files |-> p.files, names |-> p.names]
  /\ p.names \in Seq(NamesThere) /\ Len(p.names) = i
  /\ \A j \in 1..i : pipeline[j].base # Bundle!NoFile => \E f \in p.files : f.name = p.names[j]
  /\ \A f \in p.files : /\ \E j \in Bundle!Steps : f.name \in NamesAt(j)
                        /\ \E t : f = [name |-> f.name, body |-> <<"text", t>>]

(* What one step adds to the files packed and the names taken.             *)
LEMMA PackStep ==
  ASSUME NEW i \in Nat \ {0}, i \in Bundle!Steps, NEW F, PackedTo(F[i - 1], i - 1)
  PROVE  PackedTo(Pack(pipeline, F, i), i)
<1> PICK p, q : p = F[i - 1] /\ q = Pack(pipeline, F, i)
  OBVIOUS
<1>1. /\ p = [files |-> p.files, names |-> p.names]
      /\ p.names \in Seq(NamesThere) /\ Len(p.names) = i - 1
      /\ \A j \in 1..(i - 1) : pipeline[j].base # Bundle!NoFile
         => \E f \in p.files : f.name = p.names[j]
      /\ \A f \in p.files : /\ \E j \in Bundle!Steps : f.name \in NamesAt(j)
                            /\ \E t : f = [name |-> f.name, body |-> <<"text", t>>]
  BY DEF PackedTo
<1>2. CASE pipeline[i].base = Bundle!NoFile
  <2>1. q = [files |-> p.files, names |-> Append(p.names, Bundle!NoFile)]
    BY <1>1, <1>2 DEF Pack
  <2>2. Bundle!NoFile \in NamesThere
    BY DEF NamesThere
  <2>3. /\ q.names \in Seq(NamesThere) /\ Len(q.names) = i
        /\ \A j \in 1..(i - 1) : q.names[j] = p.names[j]
    BY <1>1, <2>1, <2>2
  <2>4. \A j \in 1..i : j \in 1..(i - 1) \/ j = i
    OBVIOUS
  <2> QED
    BY <1>1, <1>2, <2>1, <2>3, <2>4 DEF PackedTo
<1>3. CASE pipeline[i].base # Bundle!NoFile
  <2>1. PICK name \in NamesAt(i) :
          q = [files |-> {f \in p.files : f.name # name}
                           \cup {[name |-> name, body |-> <<"text", pipeline[i].text>>]},
               names |-> Append(p.names, name)]
    BY <1>3 DEF Pack, NamesAt
  <2>2. PICK new : new = [name |-> name, body |-> <<"text", pipeline[i].text>>]
    OBVIOUS
  <2>3. /\ new.name = name
        /\ \E t : new = [name |-> new.name, body |-> <<"text", t>>]
        /\ q.files = {f \in p.files : f.name # name} \cup {new}
        /\ q = [files |-> q.files, names |-> q.names]
    <3>1. new.name = name /\ new.body = <<"text", pipeline[i].text>>
      BY <2>2
    <3>2. \E t : new = [name |-> new.name, body |-> <<"text", t>>]
      BY <2>2, <3>1
    <3>3. q.files = {f \in p.files : f.name # name} \cup {new}
      BY <2>1, <2>2
    <3>4. q = [files |-> q.files, names |-> q.names]
      BY <2>1
    <3> QED
      BY <3>1, <3>2, <3>3, <3>4
  <2>4. name \in NamesThere
    BY DEF NamesThere
  <2>5. /\ q.names \in Seq(NamesThere) /\ Len(q.names) = i /\ q.names[i] = name
        /\ \A j \in 1..(i - 1) : q.names[j] = p.names[j]
    BY <1>1, <2>1, <2>4
  <2>6. ASSUME NEW j \in 1..i, pipeline[j].base # Bundle!NoFile
        PROVE  \E f \in q.files : f.name = q.names[j]
    <3>1. CASE j = i
      BY <2>3, <2>5, <3>1
    <3>2. CASE j \in 1..(i - 1)
      <4>1. PICK f \in p.files : f.name = p.names[j]
        BY <1>1, <2>6, <3>2
      <4> QED
        BY <2>3, <2>5, <3>2, <4>1
    <3> QED
      BY <3>1, <3>2
  <2>7. \A f \in q.files : /\ \E j \in Bundle!Steps : f.name \in NamesAt(j)
                            /\ \E t : f = [name |-> f.name, body |-> <<"text", t>>]
    BY <1>1, <2>3
  <2> QED
    BY <2>3, <2>5, <2>6, <2>7 DEF PackedTo
<1> QED
  BY <1>2, <1>3

(* Each template of the pipeline is packed under one of the two names its  *)
(* step may give it, and every file packed has such a name and a text.     *)
LEMMA PackedIs ==
  ASSUME Len(pipeline) \in Nat, Bundle!Steps = 1..Len(pipeline)
  PROVE  PackedTo(Bundle!Packed(pipeline), Len(pipeline))
<1> DEFINE L == Len(pipeline)
           F == CHOOSE F : PacksBy(pipeline, F, L)
           T == {n \in 0..L : ~PackedTo(F[n], n)}
<1>1. PacksBy(pipeline, F, L)
  BY PacksExist
<1>2. Bundle!Packed(pipeline) = F[L]
  BY DEF Bundle!Packed, PacksBy, Pack
<1> HIDE DEF F
<1>3. \A n \in 0..L : F[n] = Pack(pipeline, F, n)
  BY <1>1, Zenon DEF PacksBy
<1>4. SUFFICES ASSUME T # {} PROVE FALSE
  BY <1>2
<1>5. PICK n \in T : \A m \in T : ~(m < n)
  <2>1. T \subseteq Nat
    OBVIOUS
  <2> QED
    BY <1>4, <2>1, Least
<1>6. CASE n = 0
  <2>1. F[0] = [files |-> {}, names |-> <<>>]
    <3>1. 0 \in 0..L
      OBVIOUS
    <3>2. Pack(pipeline, F, 0) = [files |-> {}, names |-> <<>>]
      BY Zenon DEF Pack
    <3> QED
      BY <1>3, <3>1, <3>2, Zenon
  <2>2. <<>> \in Seq(NamesThere) /\ Len(<<>>) = 0
    OBVIOUS
  <2>3. PackedTo(F[0], 0)
    BY <2>1, <2>2 DEF PackedTo
  <2> QED
    BY <1>5, <1>6, <2>3
<1>7. CASE n # 0
  <2>1. n \in Nat \ {0} /\ n \in Bundle!Steps /\ n - 1 \in 0..L /\ n - 1 < n
    BY <1>5, <1>7
  <2>2. PackedTo(F[n - 1], n - 1)
    BY <1>5, <2>1
  <2>3. PackedTo(Pack(pipeline, F, n), n)
    BY <2>1, <2>2, PackStep
  <2> QED
    BY <1>3, <1>5, <2>3
<1> QED
  BY <1>6, <1>7

(* What is packed depends on the pipeline and the versions here alone.     *)
LEMMA AllStays ==
  ASSUME UNCHANGED <<pipeline, here>>
  PROVE  /\ Frozen' = Frozen /\ Bundle!Machines' = Bundle!Machines
         /\ Bundle!Manifest' = Bundle!Manifest
<1>2. Bundle!Bindings' = Bundle!Bindings
  BY DEF Bundle!Bindings, Bundle!Steps
<1>3. Bundle!Machines' = Bundle!Machines
  BY DEF Bundle!Machines, Bundle!Steps
<1>4. Bundle!Document' = Bundle!Document
  BY DEF Bundle!Document
<1> QED
  BY <1>2, <1>3, <1>4 DEF Frozen, Bundle!Contents, Bundle!Manifest, Bundle!Listing

(* A pipeline is a sequence of steps.                                      *)
LEMMA StepsAre ==
  ASSUME Bundle!BundleAssumption, pipeline \in Pipelines
  PROVE  /\ Len(pipeline) \in Nat /\ Bundle!Steps = 1..Len(pipeline)
         /\ \A i \in Bundle!Steps : pipeline[i].use \in Bundle!Uses
<1>1. PICK S : S = [id : STRING, use : Bundle!Uses, base : STRING, text : STRING]
  OBVIOUS
<1>2. pipeline \in Seq(S)
  BY <1>1, Zenon DEF Bundle!BundleAssumption
<1>3. Len(pipeline) \in Nat /\ Bundle!Steps = 1..Len(pipeline)
      /\ \A i \in Bundle!Steps : pipeline[i] \in S
  BY <1>2 DEF Bundle!Steps
<1>4. \A r \in S : r.use \in Bundle!Uses
  BY <1>1
<1> QED
  BY <1>3, <1>4

\* The files of the bundle: templates, bindings, the document, the manifest.
LEMMA FilesAre ==
  ASSUME Bundle!BundleAssumption, pipeline \in Pipelines, here \in [Bundle!Uses -> Versions]
  PROVE  /\ \A f \in Bundle!Contents : f.name # "manifest.json"
         /\ \A f \in Frozen : f.name = "pipeline.yaml" => f = Bundle!Document
         /\ \A u \in Bundle!Uses : \A f \in Frozen : f.name = Flat(u) =>
              \E j \in Bundle!Steps : /\ Bundle!Travels(pipeline[j].use)
                    /\ Flat(pipeline[j].use) = Flat(u)
                                      /\ f.body = <<"binding", pipeline[j].use,
                                         here[pipeline[j].use]>>
         /\ \A i \in Bundle!Steps : Bundle!Travels(pipeline[i].use) =>
              \E f \in Frozen : f.name = Flat(pipeline[i].use)
         /\ \A i \in Bundle!Steps : pipeline[i].base # Bundle!NoFile =>
              \E f \in Frozen : f.name = Bundle!Packed(pipeline).names[i]
         /\ Bundle!Document \in Frozen /\ Bundle!Manifest \in Frozen
<1>1. Len(pipeline) \in Nat /\ Bundle!Steps = 1..Len(pipeline)
      /\ \A i \in Bundle!Steps : pipeline[i].use \in Bundle!Uses
  BY StepsAre
<1>2. PICK p : p = Bundle!Packed(pipeline)
  OBVIOUS
<1>3. PackedTo(p, Len(pipeline))
  BY <1>1, <1>2, PackedIs
<1>4. \A f \in p.files : /\ \E j \in Bundle!Steps : f.name \in NamesAt(j)
                         /\ \E t : f = [name |-> f.name, body |-> <<"text", t>>]
  BY <1>3 DEF PackedTo
<1>5. \A f \in p.files : /\ f.name # "pipeline.yaml" /\ f.name # "manifest.json"
                         /\ \A u \in Bundle!Uses : f.name # Flat(u)
  <2>1. TAKE f \in p.files
  <2>2. PICK j \in Bundle!Steps : f.name \in NamesAt(j)
    BY <1>4
  <2>3. \A id \in {pipeline[j].id, Bundle!NoId} : Named(id, pipeline[j].base) \notin
                     {Flat(u) : u \in Bundle!Uses} \cup {"pipeline.yaml", "manifest.json"}
    BY <2>2 DEF Bundle!BundleAssumption, Bundle!Steps
  <2>4. f.name \notin {Flat(u) : u \in Bundle!Uses} \cup {"pipeline.yaml", "manifest.json"}
    BY <2>2, <2>3 DEF NamesAt
  <2> QED
    BY <2>4
<1>6. \A f \in Bundle!Bindings : \E j \in Bundle!Steps :
        /\ Bundle!Travels(pipeline[j].use)
        /\ f.name = Flat(pipeline[j].use)
        /\ f.body = <<"binding", pipeline[j].use, here[pipeline[j].use]>>
  BY DEF Bundle!Bindings
<1>7. \A f \in Bundle!Bindings : f.name # "pipeline.yaml" /\ f.name # "manifest.json"
  <2>1. \A u \in Bundle!Uses : Flat(u) # "pipeline.yaml" /\ Flat(u) # "manifest.json"
    BY DEF Bundle!BundleAssumption
  <2> QED
    BY <1>1, <1>6, <2>1
<1>8. /\ Bundle!Document.name = "pipeline.yaml" /\ Bundle!Manifest.name = "manifest.json"
      /\ \A u \in Bundle!Uses : Flat(u) \notin {"pipeline.yaml", "manifest.json"}
  BY DEF Bundle!Document, Bundle!Manifest, Bundle!Listing, Bundle!BundleAssumption
<1>9. /\ Bundle!Contents = p.files \cup Bundle!Bindings \cup {Bundle!Document}
      /\ Frozen = Bundle!Contents \cup {Bundle!Manifest}
  BY <1>2 DEF Frozen, Bundle!Contents
<1>10. \A f \in Bundle!Contents : f.name # "manifest.json"
  BY <1>5, <1>7, <1>8, <1>9
<1>11. \A f \in Frozen : f.name = "pipeline.yaml" => f = Bundle!Document
  BY <1>5, <1>7, <1>8, <1>9
<1>12. ASSUME NEW u \in Bundle!Uses, NEW f \in Frozen, f.name = Flat(u)
       PROVE  \E j \in Bundle!Steps : /\ Bundle!Travels(pipeline[j].use)
             /\ Flat(pipeline[j].use) = Flat(u)
                                      /\ f.body = <<"binding", pipeline[j].use,
                                         here[pipeline[j].use]>>
  <2>1. f \in Bundle!Bindings
    BY <1>5, <1>8, <1>9, <1>12
  <2> QED
    BY <1>6, <1>12, <2>1
<1>13. ASSUME NEW i \in Bundle!Steps, Bundle!Travels(pipeline[i].use)
       PROVE  \E f \in Frozen : f.name = Flat(pipeline[i].use)
  <2> DEFINE U == {j \in Bundle!Steps : Bundle!Travels(pipeline[j].use)
        /\ Flat(pipeline[j].use) = Flat(pipeline[i].use)}
             T == {n \in Nat : Len(pipeline) - n \in U}
  <2>1. T \subseteq Nat /\ Len(pipeline) - i \in T
    BY <1>1, <1>13
  <2>2. PICK n \in T : \A m \in T : ~(m < n)
    BY <2>1, Least
  <2>3. PICK j \in U : j = Len(pipeline) - n
    BY <2>2
  <2>4. ASSUME NEW k \in U, k > j PROVE FALSE
    <3>1. Len(pipeline) - k \in T
      BY <1>1
    <3>2. Len(pipeline) - k < n
      BY <1>1, <2>2, <2>3, <2>4
    <3> QED
      BY <2>2, <3>1, <3>2
  <2>5. \A k \in {k \in Bundle!Steps : Bundle!Travels(pipeline[k].use)} : k > j =>
          Flat(pipeline[k].use) # Flat(pipeline[j].use)
    BY <2>4
  <2>6. [name |-> Flat(pipeline[j].use),
         body |-> <<"binding", pipeline[j].use, here[pipeline[j].use]>>] \in Bundle!Bindings
    BY <2>5 DEF Bundle!Bindings
  <2> QED
    BY <1>9, <2>6
<1>14. ASSUME NEW i \in Bundle!Steps, pipeline[i].base # Bundle!NoFile
       PROVE  \E f \in Frozen : f.name = Bundle!Packed(pipeline).names[i]
  BY <1>1, <1>2, <1>3, <1>9, <1>14 DEF PackedTo
<1> QED
  BY <1>9, <1>10, <1>11, <1>12, <1>13, <1>14

(* A run, and no bundle yet.                                               *)
LEMMA BundleInit == ASSUME Bundle!BundleAssumption, Bundle!Init PROVE BundleInv
<1>1. here \in [Bundle!Uses -> Versions]
  BY DEF Bundle!Init, Bundle!BundleAssumption
<1> QED
  BY <1>1 DEF Bundle!Init, BundleInv, BundleAt, HereNow, PutTogether, Carried, RunThere

(* What the manifest lists is what it says it lists.                       *)
LEMMA ListingIs ==
  ASSUME NEW l PROVE /\ Bundle!Listing(l).name = "manifest.json"
                     /\ Bundle!Listing(l).body[1] = "manifest"
                     /\ Bundle!Listing(l).body[2] = l
BY DEF Bundle!Listing

(* A file changed or lost is missing as it was, or the manifest is.        *)
LEMMA SpoilKeeps ==
  ASSUME Bundle!BundleAssumption, BundleInv, Bundle!Spoil
  PROVE  /\ Bundle!Manifest \in folder' =>
              folder' \subseteq files \/ \E f \in files : f \notin folder'
         /\ \A g \in folder' :
              g \in files \/ \A f \in files : f.name = g.name => f \notin folder'
<1>1. bpc = "moved" /\ folder = files /\ pipeline \in Pipelines
      /\ here \in [Bundle!Uses -> Versions] /\ files = Frozen
  BY DEF Bundle!Spoil, BundleInv, PutTogether, HereNow
<1> DEFINE C == Bundle!Contents
           M == Bundle!Manifest
<1>2. /\ files = C \cup {M} /\ M = Bundle!Listing(C) /\ M.name = "manifest.json"
      /\ \A f \in C : f.name # "manifest.json"
  BY <1>1, FilesAre, ListingIs DEF Frozen, Bundle!Manifest
<1>3. CASE \E f \in C : \E after \in {{f}, {}} \cup {{g} : g \in Bundle!Changed(f)} :
             \E line \in {{f}, {}, after} :
               folder' = {g \in C : g.name # f.name} \cup after
                           \cup {Bundle!Listing({g \in C : g.name # f.name} \cup line)}
  <2>a. PICK f \in C : \E after \in {{f}, {}} \cup {{g} : g \in Bundle!Changed(f)} :
          \E line \in {{f}, {}, after} :
            folder' = {g \in C : g.name # f.name} \cup after
                        \cup {Bundle!Listing({g \in C : g.name # f.name} \cup line)}
    BY <1>3
  <2>b. PICK after \in {{f}, {}} \cup {{g} : g \in Bundle!Changed(f)} :
          \E line \in {{f}, {}, after} :
            folder' = {g \in C : g.name # f.name} \cup after
                        \cup {Bundle!Listing({g \in C : g.name # f.name} \cup line)}
    BY <2>a
  <2>c. PICK line \in {{f}, {}, after} :
          folder' = {g \in C : g.name # f.name} \cup after
                      \cup {Bundle!Listing({g \in C : g.name # f.name} \cup line)}
    BY <2>b
  <2>d. PICK others : others = {g \in C : g.name # f.name}
    OBVIOUS
  <2>e. PICK N : N = Bundle!Listing(others \cup line)
    OBVIOUS
  <2>1. /\ f \in C /\ after \in {{f}, {}} \cup {{g} : g \in Bundle!Changed(f)}
        /\ line \in {{f}, {}, after} /\ others = {g \in C : g.name # f.name}
        /\ N = Bundle!Listing(others \cup line) /\ folder' = others \cup after \cup {N}
    BY <2>c, <2>d, <2>e
  <2>2. \A g \in Bundle!Changed(f) : g.name = f.name /\ g.body # f.body
    BY DEF Bundle!Changed
  <2>3. after = {f} \/ (f \notin after /\ \A g \in after : g.name = f.name)
    BY <2>1, <2>2
  <2>4. N.name = "manifest.json" /\ N.body[2] = others \cup line /\ M.body[2] = C
    BY <1>2, <2>1, ListingIs
  <2>5. f \in files /\ f.name # "manifest.json" /\ f # N /\ f # M
    BY <1>2, <2>1, <2>4
  <2>6. ASSUME M \in folder', after # {f} PROVE f \notin folder'
    <3>1. f \notin after
      BY <2>3, <2>6
    <3> QED
      BY <2>1, <2>5, <3>1
  <2>7. ASSUME after = {f} PROVE folder' \subseteq C \cup {N}
    BY <2>1, <2>7
  <2>8. ASSUME M \in folder' PROVE M = N
    <3>1. \A g \in others \cup after : g.name # "manifest.json"
      BY <1>2, <2>1, <2>3, <2>5
    <3> QED
      BY <1>2, <2>1, <2>8, <3>1
  <2>9. M \in folder' => folder' \subseteq files \/ \E g \in files : g \notin folder'
    BY <1>2, <2>5, <2>6, <2>7, <2>8
  <2>10. ASSUME NEW g \in folder', g \notin files, NEW h \in files, h.name = g.name
         PROVE  h \notin folder'
    <3>1. CASE g \in others
      BY <1>2, <2>1, <2>10, <3>1
    <3>2. CASE g \in after
      <4>1. after = {g} /\ g.name = f.name
        BY <2>1, <2>3, <2>5, <2>10, <3>2
      <4> QED
        BY <2>1, <2>4, <2>5, <2>10, <4>1
    <3>3. CASE g = N
      <4>1. h = M
        BY <1>2, <2>4, <2>10, <3>3
      <4> QED
        BY <1>2, <2>8, <2>10, <3>3, <4>1
    <3> QED
      BY <2>1, <3>1, <3>2, <3>3
  <2> QED
    BY <2>9, <2>10
<1>4. CASE \E after \in {{}, {[name |-> "manifest.json", body |-> <<"spoilt">>]}} :
             folder' = C \cup after
  <2>1. PICK S : S = [name |-> "manifest.json", body |-> <<"spoilt">>]
    OBVIOUS
  <2>2. S.name = "manifest.json" /\ S.body[1] = "spoilt"
    BY <2>1
  <2>3. S # M
    BY <1>2, <2>2, ListingIs
  <2>4. M \notin folder'
    BY <1>2, <1>4, <2>1, <2>3
  <2>5. \A g \in folder' : g \in C \/ g.name = "manifest.json"
    BY <1>4, <2>1, <2>2
  <2> QED
    BY <1>2, <2>4, <2>5
<1> QED
  BY <1>3, <1>4 DEF Bundle!Spoil

(* The folder as it was frozen is verified and loaded.                     *)
LEMMA WholeLoads ==
  ASSUME Bundle!BundleAssumption, BundleInv, folder = Frozen
  PROVE  Bundle!Verified /\ Bundle!Loads
<1>1. pipeline \in Pipelines /\ here \in [Bundle!Uses -> Versions]
  BY DEF BundleInv, HereNow
<1>2. /\ \A f \in Frozen : f.name = "manifest.json" => f = Bundle!Manifest
      /\ Bundle!Manifest \in Frozen /\ Bundle!Manifest.name = "manifest.json"
      /\ Bundle!Manifest.body[1] = "manifest" /\ Bundle!Manifest.body[2] = Bundle!Contents
  BY <1>1, FilesAre, ListingIs DEF Frozen, Bundle!Manifest
<1>3. Bundle!Present("manifest.json") /\ Bundle!Body("manifest.json") = Bundle!Manifest.body
  BY <1>2 DEF Bundle!Present, Bundle!Body
<1>4. Bundle!Verified
  BY <1>2, <1>3 DEF Bundle!Verified, Bundle!HasManifest, Bundle!Listed, Frozen
<1>5. /\ \A f \in Frozen : f.name = "pipeline.yaml" => f = Bundle!Document
      /\ Bundle!Document \in Frozen /\ Bundle!Document.name = "pipeline.yaml"
      /\ Bundle!Document.body[1] = "names"
      /\ Bundle!Document.body[2] = Bundle!Packed(pipeline).names
  BY <1>1, FilesAre DEF Bundle!Document
<1>6. Bundle!Present("pipeline.yaml") /\ Bundle!Body("pipeline.yaml") = Bundle!Document.body
  BY <1>5 DEF Bundle!Present, Bundle!Body
<1>7. \A i \in Bundle!Steps : pipeline[i].base # Bundle!NoFile =>
        Bundle!Present(Bundle!Packed(pipeline).names[i])
  BY <1>1, FilesAre DEF Bundle!Present
<1>8. Bundle!Loads
  BY <1>5, <1>6, <1>7 DEF Bundle!Loads
<1> QED
  BY <1>4, <1>8

(* What is asked of the folder depends on it and the pipeline alone.       *)
LEMMA LoadStays ==
  ASSUME UNCHANGED <<pipeline, folder>>
  PROVE  (Bundle!Verified' <=> Bundle!Verified) /\ (Bundle!Loads' <=> Bundle!Loads)
<1>1. \A name : /\ Bundle!Present(name)' = Bundle!Present(name)
                /\ Bundle!Body(name)' = Bundle!Body(name)
  BY DEF Bundle!Present, Bundle!Body
<1>2. Bundle!Verified' <=> Bundle!Verified
  BY <1>1 DEF Bundle!Verified, Bundle!HasManifest, Bundle!Listed
<1>3. Bundle!Loads' <=> Bundle!Loads
  BY <1>1 DEF Bundle!Loads, Bundle!Steps
<1> QED
  BY <1>2, <1>3

(* Every step keeps the invariant.                                         *)
LEMMA BundleNext == ASSUME Bundle!BundleAssumption, BundleInv,
      [Bundle!Next]_(Bundle!bundleVars) PROVE BundleInv'
<1>1. CASE Bundle!Update
  <2>1. /\ bpc = "run"
           /\ UNCHANGED <<pipeline, there, files, btodo, folder, bpc, resolved, texts, frozen>>
        /\ \E u \in Bundle!Uses : here[u] + 1 \in Versions /\ here' = [here EXCEPT ![u] = @ + 1]
    BY <1>1 DEF Bundle!Update
  <2> QED
    BY <2>1 DEF BundleInv, BundleAt, HereNow, PutTogether, Carried, RunThere
<1>2. CASE Bundle!Freeze
  <2>1. /\ bpc = "run" /\ bpc' = "write" /\ frozen' = here /\ files' = Frozen /\ btodo' = files'
        /\ UNCHANGED <<pipeline, here, there, folder, resolved, texts, updates>>
    BY <1>2 DEF Bundle!Freeze, Frozen
  <2>2. Frozen' = Frozen
    BY <2>1, AllStays
  <2>3. folder' = {}
    BY <2>1 DEF BundleInv, Carried
  <2> QED
    BY <2>1, <2>2, <2>3 DEF BundleInv, BundleAt, HereNow, PutTogether, Carried, RunThere
<1>3. CASE Bundle!WriteFile
  <2>1. /\ bpc = "write" /\ \E f \in btodo : btodo' = btodo \ {f} /\ folder' = folder \cup {f}
        /\ UNCHANGED <<pipeline, here, there, files, bpc, resolved, texts, updates, frozen>>
    BY <1>3 DEF Bundle!WriteFile
  <2>2. Frozen' = Frozen /\ Bundle!Manifest' = Bundle!Manifest
    BY <2>1, AllStays
  <2> QED
    BY <2>1, <2>2 DEF BundleInv, BundleAt, HereNow, PutTogether, Carried, RunThere
<1>4. CASE Bundle!Move
  <2>1. /\ bpc = "write" /\ bpc' = "moved"
        /\ UNCHANGED <<pipeline, here, there, files, btodo, folder, resolved, texts, updates,
           frozen>>
    BY <1>4 DEF Bundle!Move
  <2>2. Frozen' = Frozen /\ Bundle!Manifest' = Bundle!Manifest
    BY <2>1, AllStays
  <2> QED
    BY <2>1, <2>2 DEF BundleInv, BundleAt, HereNow, PutTogether, Carried, RunThere
<1>5. CASE Bundle!Spoil
  <2>1. /\ bpc = "moved"
        /\ UNCHANGED <<pipeline, here, there, files, btodo, bpc, resolved, texts, updates,
           frozen>>
    BY <1>5 DEF Bundle!Spoil
  <2>2. Frozen' = Frozen /\ Bundle!Manifest' = Bundle!Manifest
    BY <2>1, AllStays
  <2>3. Carried'
    BY <1>5, <2>1, <2>2, SpoilKeeps DEF Carried
  <2> QED
    BY <2>1, <2>2, <2>3 DEF BundleInv, BundleAt, HereNow, PutTogether, RunThere
<1>6. CASE Bundle!Load
  <2>1. /\ bpc = "moved" /\ there' \in Bundle!Machines
        /\ bpc' = IF Bundle!Verified /\ Bundle!Loads THEN "loaded" ELSE "refused"
        /\ UNCHANGED <<pipeline, here, files, btodo, folder, resolved, texts, updates, frozen>>
    BY <1>6 DEF Bundle!Load
  <2>2. /\ Frozen' = Frozen /\ Bundle!Machines' = Bundle!Machines
        /\ Bundle!Manifest' = Bundle!Manifest
        /\ (Bundle!Verified' <=> Bundle!Verified) /\ (Bundle!Loads' <=> Bundle!Loads)
    BY <2>1, AllStays, LoadStays
  <2>3. bpc' = "refused" => folder # files
    BY <2>1, WholeLoads DEF BundleInv, PutTogether
  <2>4. Carried'
    BY <2>1, <2>2 DEF BundleInv, Carried
  <2>5. RunThere'
    BY <2>1, <2>2, <2>3 DEF RunThere
  <2> QED
    BY <2>1, <2>2, <2>4, <2>5 DEF BundleInv, BundleAt, HereNow, PutTogether
<1>7. CASE Bundle!Plan
  <2> DEFINE runs == \A i \in Bundle!Steps : Bundle!Resolved(pipeline[i].use) # 0
        /\ Bundle!TypesKnown(pipeline[i].use)
  <2>1. /\ bpc = "loaded" /\ bpc' = IF runs THEN "planned" ELSE "refused"
        /\ resolved' = IF runs
           THEN [i \in Bundle!Steps |-> Bundle!Resolved(pipeline[i].use)] ELSE <<>>
        /\ texts' = IF runs THEN [i \in Bundle!Steps |-> Bundle!Template(i)] ELSE <<>>
        /\ UNCHANGED <<pipeline, here, there, files, btodo, folder, updates, frozen>>
    BY <1>7 DEF Bundle!Plan
  <2>2. /\ Frozen' = Frozen /\ Bundle!Machines' = Bundle!Machines
        /\ Bundle!Manifest' = Bundle!Manifest
        /\ (Bundle!Verified' <=> Bundle!Verified) /\ (Bundle!Loads' <=> Bundle!Loads)
    BY <2>1, AllStays, LoadStays
  <2>3. \A u : Bundle!Resolved(u)' = Bundle!Resolved(u)
        /\ (Bundle!TypesKnown(u)' <=> Bundle!TypesKnown(u))
    BY <2>1 DEF Bundle!Resolved, Bundle!TypesKnown, Bundle!Present, Bundle!Body
  <2>4. \A i \in Bundle!Steps : Bundle!Template(i)' = Bundle!Template(i)
    BY <2>1 DEF Bundle!Template, Bundle!Body, Bundle!Steps
  <2> HIDE DEF runs
  <2>5. BundleAt' /\ HereNow' /\ PutTogether' /\ Carried'
    BY <2>1, <2>2 DEF BundleInv, BundleAt, HereNow, PutTogether, Carried
  <2>6. Bundle!Steps' = Bundle!Steps
    BY <2>1 DEF Bundle!Steps
  <2>7. CASE runs
    <3>1. \A i \in Bundle!Steps : resolved'[i] = Bundle!Resolved(pipeline[i].use)
          /\ texts'[i] = Bundle!Template(i)
      BY <2>1, <2>7
    <3>2. RunThere'
      BY <2>1, <2>2, <2>3, <2>4, <2>6, <2>7, <3>1 DEF BundleInv, RunThere, runs
    <3> QED
      BY <2>1, <2>5, <3>2 DEF BundleInv
  <2>8. CASE ~runs
    <3>1. RunThere'
      BY <2>1, <2>2, <2>3, <2>6, <2>8 DEF BundleInv, RunThere, runs
    <3> QED
      BY <2>1, <2>5, <3>1 DEF BundleInv
  <2> QED
    BY <2>7, <2>8
<1>8. CASE UNCHANGED Bundle!bundleVars
  <2>1. UNCHANGED <<pipeline, here, there, files, btodo, folder, bpc, resolved, texts,
        updates, frozen>>
    BY <1>8 DEF Bundle!bundleVars
  <2>2. /\ Frozen' = Frozen /\ Bundle!Machines' = Bundle!Machines
        /\ Bundle!Manifest' = Bundle!Manifest
        /\ (Bundle!Verified' <=> Bundle!Verified) /\ (Bundle!Loads' <=> Bundle!Loads)
    BY <2>1, AllStays, LoadStays
  <2>3. \A u : Bundle!Resolved(u)' = Bundle!Resolved(u)
        /\ (Bundle!TypesKnown(u)' <=> Bundle!TypesKnown(u))
    BY <2>1 DEF Bundle!Resolved, Bundle!TypesKnown, Bundle!Present, Bundle!Body
  <2>4. \A i \in Bundle!Steps : Bundle!Template(i)' = Bundle!Template(i)
    BY <2>1 DEF Bundle!Template, Bundle!Body, Bundle!Steps
  <2>5. BundleAt' /\ HereNow' /\ PutTogether' /\ Carried'
    BY <2>1, <2>2 DEF BundleInv, BundleAt, HereNow, PutTogether, Carried
  <2>6. RunThere'
    BY <2>1, <2>2, <2>3, <2>4 DEF BundleInv, RunThere, Bundle!Steps
  <2> QED
    BY <2>1, <2>5, <2>6 DEF BundleInv
<1> QED
  BY <1>1, <1>2, <1>3, <1>4, <1>5, <1>6, <1>7, <1>8 DEF Bundle!Next

(* The invariant of a bundle, in every behaviour of it.                    *)
THEOREM BundleInvariance == ASSUME Bundle!BundleAssumption PROVE Bundle!Spec => []BundleInv
<1>1. Bundle!Init => BundleInv
  BY BundleInit
<1>2. BundleInv /\ [Bundle!Next]_(Bundle!bundleVars) => BundleInv'
  BY BundleNext
<1> QED
  BY <1>1, <1>2, PTL DEF Bundle!Spec

(* The types, beside it.                                                   *)
LEMMA BundleTypesInit == ASSUME Bundle!BundleAssumption, Bundle!Init PROVE Bundle!TypeOK
<1>1. 1 \in Versions /\ MaxUpdates \in Nat
  BY DEF Bundle!BundleAssumption
<1> QED
  BY <1>1 DEF Bundle!Init, Bundle!TypeOK

LEMMA BundleTypesNext ==
  ASSUME Bundle!BundleAssumption, BundleInv, Bundle!TypeOK, [Bundle!Next]_(Bundle!bundleVars)
  PROVE  Bundle!TypeOK'
<1>1. MaxUpdates \in Nat /\ pipeline \in Pipelines
  BY DEF Bundle!BundleAssumption, BundleInv
<1>2. CASE Bundle!Update
  <2>1. /\ bpc = "run" /\ updates < MaxUpdates /\ updates' = updates + 1
        /\ UNCHANGED <<pipeline, there, files, btodo, folder, bpc, resolved, texts, frozen>>
        /\ \E u \in Bundle!Uses : here[u] + 1 \in Versions /\ here' = [here EXCEPT ![u] = @ + 1]
    BY <1>2 DEF Bundle!Update
  <2> QED
    BY <1>1, <2>1 DEF Bundle!TypeOK
<1>3. CASE Bundle!Freeze
  <2>1. /\ bpc' = "write" /\ frozen' = here /\ btodo' = files'
        /\ UNCHANGED <<pipeline, here, there, updates>>
    BY <1>3 DEF Bundle!Freeze
  <2> QED
    BY <2>1 DEF Bundle!TypeOK
<1>4. CASE Bundle!WriteFile
  <2>1. /\ \E f \in btodo : btodo' = btodo \ {f}
        /\ UNCHANGED <<pipeline, here, there, files, bpc, resolved, texts, updates, frozen>>
    BY <1>4 DEF Bundle!WriteFile
  <2> QED
    BY <2>1 DEF Bundle!TypeOK
<1>5. CASE Bundle!Move \/ Bundle!Spoil
  <2>1. /\ bpc' = "moved"
        /\ UNCHANGED <<pipeline, here, there, files, btodo, updates, frozen>>
    BY <1>5 DEF Bundle!Move, Bundle!Spoil
  <2> QED
    BY <2>1 DEF Bundle!TypeOK
<1>6. CASE Bundle!Load
  <2>1. /\ bpc' \in {"loaded", "refused"} /\ there' \in Bundle!Machines
        /\ UNCHANGED <<pipeline, here, files, btodo, updates, frozen>>
    BY <1>6 DEF Bundle!Load
  <2>2. there' \in [Bundle!Uses -> Versions \cup {0}]
    BY <2>1 DEF Bundle!Machines
  <2> QED
    BY <2>1, <2>2 DEF Bundle!TypeOK
<1>7. CASE Bundle!Plan
  <2>1. /\ bpc' \in {"planned", "refused"}
        /\ UNCHANGED <<pipeline, here, there, files, btodo, updates, frozen>>
    BY <1>7 DEF Bundle!Plan
  <2>2. ASSUME bpc' = "planned"
        PROVE  Len(resolved') = Len(pipeline) /\ Len(texts') = Len(pipeline)
    <3>1. /\ resolved' = [i \in Bundle!Steps |-> Bundle!Resolved(pipeline[i].use)]
          /\ texts' = [i \in Bundle!Steps |-> Bundle!Template(i)]
      BY <1>7, <2>2 DEF Bundle!Plan
    <3>2. Bundle!Steps = 1 .. Len(pipeline) /\ Len(pipeline) \in Nat
      BY <1>1 DEF Bundle!BundleAssumption, Bundle!Steps
    <3> QED
      BY <3>1, <3>2
  <2> QED
    BY <2>1, <2>2 DEF Bundle!TypeOK
<1>8. CASE UNCHANGED Bundle!bundleVars
  BY <1>8 DEF Bundle!bundleVars, Bundle!TypeOK
<1> QED
  BY <1>2, <1>3, <1>4, <1>5, <1>6, <1>7, <1>8 DEF Bundle!Next

\* A step whose adapter travels finds its directory, or another's.
LEMMA ResolvedIs ==
  ASSUME Bundle!BundleAssumption, BundleInv, bpc \in {"loaded", "planned", "refused"},
         NEW i \in Bundle!Steps,
         \A f \in folder : f.name = Flat(pipeline[i].use) => f \in files,
         \A f \in files : f.name = Flat(pipeline[i].use) => f \in folder
  PROVE  LET u == pipeline[i].use IN
         /\ Bundle!Resolved(u) = 0 => \/ there[u] = 0 /\ KindOf[u] = "process"
                                      \/ \E j \in Bundle!Steps : Bundle!Collide(i, j)
         /\ Bundle!Travels(u) /\ Bundle!Resolved(u) # 0 => Bundle!Resolved(u) = frozen[u]
<1> DEFINE u == pipeline[i].use
<1>1. /\ files = Frozen /\ frozen = here /\ here \in [Bundle!Uses -> Versions]
      /\ u \in Bundle!Uses
      /\ there \in Bundle!Machines /\ pipeline \in Pipelines
  BY StepsAre DEF BundleInv, PutTogether, HereNow, RunThere
<1>2. /\ \A f \in Frozen : f.name = Flat(u) =>
            \E j \in Bundle!Steps : /\ Bundle!Travels(pipeline[j].use)
                  /\ Flat(pipeline[j].use) = Flat(u)
                                    /\ f.body = <<"binding", pipeline[j].use,
                                       here[pipeline[j].use]>>
      /\ Bundle!Travels(u) => \E f \in Frozen : f.name = Flat(u)
      /\ \A j \in Bundle!Steps : pipeline[j].use \in Bundle!Uses
  BY <1>1, FilesAre, StepsAre
<1>3. there[u] = 0 => KindOf[u] \in {"binding", "process"}
  BY <1>1 DEF Bundle!Machines
<1>4. CASE Bundle!Present(Flat(u)) /\ KindOf[u] # "runner"
  <2>1. PICK f \in Frozen : f = (CHOOSE g \in folder : g.name = Flat(u)) /\ f.name = Flat(u)
    BY <1>1, <1>4 DEF Bundle!Present
  <2>2. Bundle!Body(Flat(u)) = f.body
    BY <2>1 DEF Bundle!Body
  <2>3. PICK j \in Bundle!Steps : /\ Bundle!Travels(pipeline[j].use)
                                     /\ Flat(pipeline[j].use) = Flat(u)
                                  /\ f.body = <<"binding", pipeline[j].use,
                                     here[pipeline[j].use]>>
    BY <1>2, <2>1
  <2>4. PICK v, n : v = pipeline[j].use /\ n = here[v] /\ n \in Versions /\ n # 0
    BY <1>1, <1>2, <2>3 DEF Bundle!BundleAssumption
  <2>5. f.body[2] = v /\ f.body[3] = n
    BY <2>3, <2>4
  <2>6. Bundle!Resolved(u) = IF v = u THEN n ELSE 0
    BY <1>4, <2>2, <2>3, <2>5 DEF Bundle!Resolved
  <2>7. v # u => Bundle!Collide(i, j)
    BY <2>3, <2>4 DEF Bundle!Collide
  <2> QED
    BY <1>1, <2>4, <2>6, <2>7
<1>5. CASE ~Bundle!Present(Flat(u)) /\ KindOf[u] # "runner"
  <2>1. Bundle!Resolved(u) = there[u] /\ ~Bundle!Travels(u)
    BY <1>1, <1>2, <1>5 DEF Bundle!Resolved, Bundle!Present
  <2> QED
    BY <1>3, <2>1 DEF Bundle!Travels
<1>6. CASE KindOf[u] = "runner"
  BY <1>6 DEF Bundle!Resolved, Bundle!Travels
<1> QED
  BY <1>4, <1>5, <1>6

(* The invariant implies what the run of MCParts checks.                   *)
LEMMA BundleKept == ASSUME Bundle!BundleAssumption, BundleInv PROVE Bundle!BundleHolds
<1>1. ASSUME bpc = "planned", NEW i \in Bundle!Steps
      PROVE  /\ Bundle!Travels(pipeline[i].use) /\ Bundle!Vouched(Flat(pipeline[i].use)) =>
                  resolved[i] = frozen[pipeline[i].use]
             /\ pipeline[i].base # Bundle!NoFile /\ Bundle!Vouched("pipeline.yaml")
                  /\ Bundle!Vouched(Bundle!Packed(pipeline).names[i]) =>
                  texts[i] = pipeline[i].text \/ Bundle!Overwritten(i)
  <2>1. /\ files = Frozen /\ here \in [Bundle!Uses -> Versions] /\ pipeline \in Pipelines
        /\ Bundle!Listed \subseteq folder
        /\ \A g \in folder : g \in files \/ \A f \in files : f.name = g.name => f \notin folder
        /\ Bundle!Resolved(pipeline[i].use) # 0
        /\ resolved[i] = Bundle!Resolved(pipeline[i].use) /\ texts[i] = Bundle!Template(i)
    BY <1>1 DEF BundleInv, Carried, PutTogether, HereNow, RunThere, Bundle!Verified
  <2>2. ASSUME NEW name, Bundle!Vouched(name), \E f \in files : f.name = name
        PROVE  /\ \A f \in files : f.name = name => f \in folder
               /\ \A f \in folder : f.name = name => f \in files
    BY <2>1, <2>2 DEF Bundle!Vouched
  <2>3. ASSUME Bundle!Travels(pipeline[i].use), Bundle!Vouched(Flat(pipeline[i].use))
        PROVE  resolved[i] = frozen[pipeline[i].use]
    <3>1. \E f \in files : f.name = Flat(pipeline[i].use)
      BY <2>1, <2>3, FilesAre
    <3>2. /\ \A f \in files : f.name = Flat(pipeline[i].use) => f \in folder
          /\ \A f \in folder : f.name = Flat(pipeline[i].use) => f \in files
      BY <2>2, <2>3, <3>1
    <3> QED
      BY <1>1, <2>1, <2>3, <3>2, ResolvedIs
  <2>4. ASSUME pipeline[i].base # Bundle!NoFile, ~Bundle!Overwritten(i),
               Bundle!Vouched("pipeline.yaml"), Bundle!Vouched(Bundle!Packed(pipeline).names[i])
        PROVE  texts[i] = pipeline[i].text
    <3>1. /\ \A f \in Frozen : f.name = "pipeline.yaml" => f = Bundle!Document
          /\ Bundle!Document \in Frozen
          /\ \E f \in Frozen : f.name = Bundle!Packed(pipeline).names[i]
      BY <2>1, <2>4, FilesAre
    <3>2. Bundle!Document.name = "pipeline.yaml"
          /\ Bundle!Document.body[2] = Bundle!Packed(pipeline).names
      BY DEF Bundle!Document
    <3>3. /\ \A f \in files : f.name = "pipeline.yaml" => f \in folder
          /\ \A f \in folder : f.name = "pipeline.yaml" => f \in files
      BY <2>1, <2>2, <2>4, <3>1, <3>2
    <3>4. Bundle!Body("pipeline.yaml")[2] = Bundle!Packed(pipeline).names
      BY <2>1, <3>1, <3>2, <3>3 DEF Bundle!Body
    <3>5. /\ \A f \in files : f.name = Bundle!Packed(pipeline).names[i] => f \in folder
          /\ \A f \in folder : f.name = Bundle!Packed(pipeline).names[i] => f \in files
      BY <2>1, <2>2, <2>4, <3>1
    <3>6. PICK f \in Frozen : /\ f.name = Bundle!Packed(pipeline).names[i]
                              /\ f = (CHOOSE g \in folder :
                                 g.name = Bundle!Packed(pipeline).names[i])
      BY <2>1, <3>1, <3>5
    <3>7. f.body = <<"text", pipeline[i].text>>
      BY <2>1, <2>4, <3>6 DEF Bundle!Overwritten
    <3>8. Bundle!Body(Bundle!Packed(pipeline).names[i])[2] = pipeline[i].text
      BY <3>6, <3>7 DEF Bundle!Body
    <3> QED
      BY <2>1, <2>4, <3>4, <3>8 DEF Bundle!Template
  <2> QED
    BY <2>3, <2>4
<1>2. Bundle!RunsAsFrozen
  BY <1>1 DEF Bundle!RunsAsFrozen
<1>3. ASSUME bpc = "refused", folder = files
      PROVE  \/ \E i \in Bundle!Steps : there[pipeline[i].use] = 0 /\
                  (KindOf[pipeline[i].use] = "process" \/ pipeline[i].use \in ShipsType)
             \/ \E i, j \in Bundle!Steps : Bundle!Collide(i, j)
  <2>1. PICK i \in Bundle!Steps : Bundle!Resolved(pipeline[i].use) = 0
        \/ ~Bundle!TypesKnown(pipeline[i].use)
    BY <1>3 DEF BundleInv, RunThere
  <2>2. CASE Bundle!Resolved(pipeline[i].use) = 0
    BY <1>3, <2>2, ResolvedIs
  <2>3. CASE ~Bundle!TypesKnown(pipeline[i].use)
    BY <2>3 DEF Bundle!TypesKnown
  <2> QED
    BY <2>1, <2>2, <2>3
<1>4. ASSUME bpc = "planned", Bundle!Manifest \in folder PROVE folder = files
  <2>1. /\ files = Frozen /\ here \in [Bundle!Uses -> Versions] /\ pipeline \in Pipelines
        /\ Bundle!Listed \subseteq folder
        /\ folder \subseteq files \/ \E f \in files : f \notin folder
        /\ \A g \in folder : g \in files \/ \A f \in files : f.name = g.name => f \notin folder
    BY <1>4 DEF BundleInv, Carried, PutTogether, HereNow, Bundle!Verified
  <2>2. /\ \A f \in Frozen : f.name = "manifest.json" => f = Bundle!Manifest
        /\ Bundle!Manifest \in Frozen /\ Bundle!Manifest.name = "manifest.json"
        /\ Bundle!Manifest.body[2] = Bundle!Contents
    BY <2>1, FilesAre, ListingIs DEF Frozen, Bundle!Manifest
  <2>3. \A g \in folder : g.name = "manifest.json" => g = Bundle!Manifest
    BY <1>4, <2>1, <2>2
  <2>4. Bundle!Body("manifest.json") = Bundle!Manifest.body
    BY <1>4, <2>2, <2>3 DEF Bundle!Body
  <2>5. Bundle!Contents \subseteq folder
    BY <2>1, <2>2, <2>4 DEF Bundle!Listed
  <2> QED
    BY <1>4, <2>1, <2>5 DEF Frozen
<1>5. Bundle!RefusedForCause
  BY <1>3, <1>4 DEF Bundle!RefusedForCause
<1> QED
  BY <1>2, <1>5 DEF Bundle!BundleHolds

(* What runs on the second machine is what was frozen on the first, as far *)
(* as the manifest that travelled lists it so, and a bundle is refused     *)
(* only for what was lost or changed or what it does not carry (bundle.go). *)
THEOREM BundleIsKept ==
  ASSUME Bundle!BundleAssumption PROVE Bundle!Spec => []Bundle!BundleHolds
<1>1. BundleInv => Bundle!BundleHolds
  BY BundleKept
<1> QED
  BY <1>1, BundleInvariance, PTL

-----------------------------------------------------------------------------
(* Plan.                                                                   *)

RoleOf(n) == Plan!Man(psteps[n].text).role
StepRecord == [text : Texts, when : 0 .. MaxSteps, leg : Nat, type : Types \cup {Plan!NoType},
               opens : BOOLEAN]

PlanTyped ==
  /\ Plan!TypeOK /\ psteps \in Seq(StepRecord)
  /\ stage \in {"writing", "refused"} => walked = 0 /\ lacking = {}
  /\ stage = "running" => Len(psteps) > 1

\* The step whose type the records at step n are of.
OpensLeg(m, n) ==
  /\ m \in 1 .. n - 1 /\ (m = 1 \/ RoleOf(m) = "traverse")
  /\ \A k \in m + 1 .. n - 1 : RoleOf(k) # "traverse"

\* Some step provides f to step n of leg l.
WrittenBefore(f, n, l) == \E m \in 1 .. n - 1 :
  /\ f \in Plan!Provides(psteps[m].text)
  /\ \/ psteps[m].leg = l
     \/ /\ psteps[m].leg = l - 1 /\ RoleOf(m) = "traverse"
        /\ \A k \in m + 1 .. n - 1 : psteps[k].leg = l

\* Step n was judged for records of the type of step m.
FitsType(n, m) ==
  LET man == Plan!Man(psteps[n].text)
      p   == psteps[m].type
  IN IF RoleOf(n) = "traverse"
       THEN (man.form = "sql" \/ man.from = p) /\ psteps[n].type # Plan!NoType
       ELSE p # Plan!NoType => man.type \in {"*", p}

\* What the walk knows where it stands, and what it made sure of behind it.
WalkStands == \A N, l \in Nat : N = Len(psteps) /\ l = leg =>
  /\ \A m \in 1 .. N : OpensLeg(m, N + 1) => ptype = psteps[m].type
  /\ \A f \in avail : WrittenBefore(f, N + 1, l)
  /\ wild => \E m \in 1 .. N : psteps[m].opens
StepsJudged == \A n \in 2 .. Len(psteps), l \in Nat :
  /\ RoleOf(n) # "source"
  /\ \A m \in 1 .. n - 1 : OpensLeg(m, n) => FitsType(n, m)
  /\ l = psteps[n].leg => \A f \in Plan!Required(psteps[n].text) :
       WrittenBefore(f, n, l) \/ \E m \in 1 .. n - 1 : psteps[m].opens

\* What the run meets.
RunTyped == \A n \in Nat : n = walked /\ n >= 1 /\ psteps[1].type # Plan!NoType =>
  \A m \in 1 .. n : OpensLeg(m, n + 1) => rtype = psteps[m].type
LackingIs == \A e \in lacking :
  e[2] \in 2 .. Len(psteps) /\ e[1] \in Plan!Required(psteps[e[2]].text)

PlanInv == PlanTyped /\ WalkStands /\ StepsJudged /\ RunTyped /\ LackingIs

(* Nothing is written yet.                                                 *)
LEMMA PlanInit == ASSUME Plan!PlanAssumption, Plan!Init PROVE PlanInv
<1>1. psteps = <<>> /\ Len(psteps) = 0 /\ psteps \in Seq(StepRecord) /\ DOMAIN psteps = {}
  BY DEF Plan!Init
<1> QED
  <2>1. Plan!TypeOK
    <3>1. gtypes \in [Groups -> Types \cup {"absent", Plan!NoType}]
      BY DEF Plan!PlanAssumption, Plan!Init
    <3>2. /\ MaxSteps \in Nat /\ lacking \subseteq Fields \X (1 .. MaxSteps)
          /\ turned \subseteq Groups \X Types
      BY DEF Plan!PlanAssumption, Plan!Init
    <3>3. 0 \in 0 .. Len(psteps)
      BY <1>1
    <3>4. wild \in BOOLEAN
      BY DEF Plan!Init
    <3>5. judged \subseteq DOMAIN psteps /\ avail \subseteq Fields /\ has \subseteq Fields
      BY DEF Plan!Init
    <3>6. Len(psteps) <= MaxSteps
      BY <1>1, <3>2
    <3>7. ptype \in Types \cup {Plan!NoType} /\ rtype \in Types \cup {Plan!NoType}
      BY DEF Plan!Init
    <3>8. leg = 0 /\ walked = 0 /\ stage = "writing"
      BY DEF Plan!Init
    <3> QED
      BY <3>1, <3>2, <3>3, <3>4, <3>5, <3>6, <3>7, <3>8 DEF Plan!TypeOK
  <2>2. StepsJudged
    <3>1. 2 .. Len(psteps) = {}
      BY <1>1
    <3> QED
      BY <3>1 DEF StepsJudged
  <2>3. WalkStands
    <3>1. avail = {} /\ wild = FALSE /\ \A N \in Nat : N = Len(psteps) => 1 .. N = {}
      BY <1>1 DEF Plan!Init
    <3> QED
      BY <3>1 DEF WalkStands
  <2> QED
    BY <1>1, <2>1, <2>2, <2>3 DEF Plan!Init, PlanInv, PlanTyped, RunTyped, LackingIs

(* The steps there are, one step later.                                    *)
LEMMA Appended ==
  ASSUME psteps \in Seq(StepRecord), NEW s \in StepRecord, psteps' = Append(psteps, s),
         NEW N \in Nat, N = Len(psteps)
  PROVE  /\ psteps' \in Seq(StepRecord) /\ Len(psteps') = N + 1
         /\ DOMAIN psteps' = 1 .. N + 1 /\ DOMAIN psteps = 1 .. N
         /\ \A n \in 1 .. N : psteps'[n] = psteps[n] /\ RoleOf(n)' = RoleOf(n)
         /\ psteps'[N + 1] = s /\ RoleOf(N + 1)' = Plan!Man(s.text).role
<1>1. /\ psteps' \in Seq(StepRecord) /\ Len(psteps') = N + 1
      /\ DOMAIN psteps' = 1 .. N + 1 /\ DOMAIN psteps = 1 .. N
      /\ \A n \in 1 .. N : psteps'[n] = psteps[n]
      /\ psteps'[N + 1] = s
  OBVIOUS
<1> QED
  BY <1>1 DEF RoleOf, Plan!Man

(* Who opens an older leg, and who writes before an older step, stays.     *)
LEMMA OlderStands ==
  ASSUME psteps \in Seq(StepRecord), NEW s \in StepRecord, psteps' = Append(psteps, s),
         NEW N \in Nat, N = Len(psteps), NEW n \in 1 .. N + 1
  PROVE  /\ \A m : OpensLeg(m, n)' <=> OpensLeg(m, n)
         /\ \A f, l : WrittenBefore(f, n, l)' <=> WrittenBefore(f, n, l)
<1>1. \A m \in 1 .. n - 1 : psteps'[m] = psteps[m] /\ RoleOf(m)' = RoleOf(m)
  BY Appended
<1>2. \A m \in 1 .. n - 1 : \A k \in m + 1 .. n - 1 : k \in 1 .. n - 1
  OBVIOUS
<1>3. \A m : OpensLeg(m, n)' <=> OpensLeg(m, n)
  BY <1>1, <1>2 DEF OpensLeg
<1>4. \A f, l : WrittenBefore(f, n, l)' <=> WrittenBefore(f, n, l)
  <2> TAKE f, l
  <2> DEFINE W(m) == /\ f \in Plan!Provides(psteps[m].text)
                     /\ \/ psteps[m].leg = l
                        \/ /\ psteps[m].leg = l - 1 /\ RoleOf(m) = "traverse"
                           /\ \A k \in m + 1 .. n - 1 : psteps[k].leg = l
  <2>1. ASSUME NEW m \in 1 .. n - 1 PROVE W(m)' <=> W(m)
    <3>1. psteps'[m] = psteps[m] /\ RoleOf(m)' = RoleOf(m)
      BY <1>1
    <3>2. (\A k \in m + 1 .. n - 1 : psteps'[k].leg = l)
            <=> (\A k \in m + 1 .. n - 1 : psteps[k].leg = l)
      BY <1>1, <1>2
    <3>3. Plan!Provides(psteps[m].text)' = Plan!Provides(psteps[m].text)
      BY <3>1 DEF Plan!Provides, Plan!Man
    <3> QED
      BY <3>1, <3>2, <3>3
  <2>2. WrittenBefore(f, n, l) <=> \E m \in 1 .. n - 1 : W(m)
    BY DEF WrittenBefore
  <2>3. WrittenBefore(f, n, l)' <=> \E m \in 1 .. n - 1 : W(m)'
    BY DEF WrittenBefore
  <2> QED
    BY <2>1, <2>2, <2>3
<1> QED
  BY <1>3, <1>4

(* What a new step opens or leaves open.                                   *)
LEMMA NewestOpens ==
  ASSUME psteps \in Seq(StepRecord), NEW s \in StepRecord, psteps' = Append(psteps, s),
         NEW N \in Nat, N = Len(psteps)
  PROVE  \A m : OpensLeg(m, N + 2)' <=>
           \/ m = N + 1 /\ (m = 1 \/ Plan!Man(s.text).role = "traverse")
           \/ OpensLeg(m, N + 1) /\ Plan!Man(s.text).role # "traverse"
<1>1. \A k \in 1 .. N : RoleOf(k)' = RoleOf(k)
  BY Appended
<1>2. RoleOf(N + 1)' = Plan!Man(s.text).role
  BY Appended
<1> TAKE m
<1>4. CASE m = N + 1
  <2>1. m + 1 .. (N + 2) - 1 = {} /\ m \in 1 .. (N + 2) - 1 /\ m \notin 1 .. (N + 1) - 1
    BY <1>4
  <2> QED
    BY <1>2, <1>4, <2>1 DEF OpensLeg
<1>5. CASE m \in 1 .. N
  <2>1. /\ m \in 1 .. (N + 2) - 1 /\ m \in 1 .. (N + 1) - 1 /\ m # N + 1
        /\ m + 1 .. (N + 2) - 1 = (m + 1 .. (N + 1) - 1) \cup {N + 1}
        /\ \A k \in m + 1 .. (N + 1) - 1 : k \in 1 .. N
    BY <1>5
  <2>2. RoleOf(m)' = RoleOf(m)
    BY <1>1, <1>5
  <2> QED
    BY <1>1, <1>2, <2>1, <2>2 DEF OpensLeg
<1>6. CASE m \notin 1 .. N + 1
  <2>1. m \notin 1 .. (N + 2) - 1 /\ m \notin 1 .. (N + 1) - 1 /\ m # N + 1
    BY <1>6
  <2> QED
    BY <2>1 DEF OpensLeg
<1> QED
  BY <1>4, <1>5, <1>6

(* What a text means is of the types of the constants.                     *)
LEMMA TextMeans ==
  ASSUME Plan!PlanAssumption, PlanInv, NEW t \in Texts
  PROVE  /\ Plan!Required(t) \subseteq Fields /\ Plan!Provides(t) \subseteq Fields
         /\ Plan!Open(t) \in BOOLEAN
         /\ ~Plan!Unresolved(t) => Plan!EntityType(t) \in Types \cup {Plan!NoType}
         /\ ~Plan!Unresolved(t) /\ Plan!Man(t).role # "source" =>
              Plan!EntityType(t) = IF Plan!Man(t).type = "*" THEN ptype ELSE Plan!Man(t).type
         /\ ~Plan!Unresolved(t) /\ Plan!Man(t).type # "*" => Plan!Man(t).type \in Types
<1>1. /\ t.use \in Uses /\ t.fields \subseteq Fields /\ t.declares \subseteq Fields
      /\ Plan!Man(t).form = "group" => t.group \in Groups
      /\ Plan!Man(t).needs \subseteq Fields /\ Plan!Man(t).provides \subseteq Fields
      /\ Plan!Man(t).form = "missing" \/ Plan!Man(t).type \in Types \cup {"*"}
      /\ Plan!Man(t).form = "group" => Plan!Man(t).role = "source"
  <2>1. /\ t.use \in Uses /\ t.fields \subseteq Fields /\ t.declares \subseteq Fields
        /\ Manifest[t.use].form = "group" => t.group \in Groups
    BY Zenon DEF Plan!PlanAssumption
  <2> DEFINE m == Manifest[t.use]
  <2>2. /\ m.needs \subseteq Fields /\ m.provides \subseteq Fields
        /\ m.form = "missing" \/ m.type \in Types \cup {"*"}
        /\ m.form = "group" => m.role = "source"
    BY <2>1 DEF Plan!PlanAssumption
  <2> QED
    BY <2>1, <2>2 DEF Plan!Man
<1>2. Plan!Required(t) \subseteq Fields
  BY <1>1 DEF Plan!Required
<1>3. Plan!Provides(t) \subseteq Fields
  BY <1>1 DEF Plan!Provides
<1>4. ~Plan!Unresolved(t) => Plan!EntityType(t) \in Types \cup {Plan!NoType}
  <2>1. Plan!Man(t).form = "group" => GroupTypes[t.group] \in Types \cup {"absent", Plan!NoType}
    BY <1>1 DEF Plan!PlanAssumption
  <2>2. ptype \in Types \cup {Plan!NoType}
    BY DEF PlanInv, PlanTyped, Plan!TypeOK
  <2> QED
    BY <1>1, <2>1, <2>2 DEF Plan!EntityType, Plan!Unresolved
<1>5. Plan!Open(t) \in BOOLEAN
  BY DEF Plan!Open
<1> QED
  BY <1>1, <1>2, <1>3, <1>4, <1>5 DEF Plan!EntityType, Plan!Unresolved

(* Writing a step, in whatever way it is judged.                           *)
LEMMA WriteKeeps ==
  ASSUME Plan!PlanAssumption, PlanInv, NEW t \in Texts, NEW w \in 0 .. MaxSteps,
         Plan!WriteStep(t, w)
  PROVE  PlanInv'
<1> DEFINE s == [text |-> t, when |-> w, leg |-> leg, type |-> Plan!EntityType(t),
                 opens |-> Plan!Open(t)]
<1>1. PICK N \in Nat : N = Len(psteps)
  BY DEF PlanInv, PlanTyped
<1>2. /\ stage = "writing" /\ N < MaxSteps /\ ~Plan!Problem(t, w) /\ psteps' = Append(psteps, s)
      /\ ptype' = Plan!LegAfter(t).type /\ avail' = Plan!LegAfter(t).avail
      /\ leg' = Plan!LegAfter(t).leg
      /\ wild' = (wild \/ Plan!Open(t))
      /\ UNCHANGED <<stage, walked, rtype, has, judged, gtypes, lacking, turned>>
  BY <1>1 DEF Plan!WriteStep
<1>3. /\ ~Plan!Unresolved(t) /\ ~Plan!Misplaced(t) /\ ~Plan!TypeProblem(t) /\ ~Plan!NeedsProblem(t)
  BY <1>2 DEF Plan!Problem
<1>4. /\ psteps \in Seq(StepRecord) /\ leg \in 0 .. N /\ walked = 0 /\ lacking = {}
      /\ ptype \in Types \cup {Plan!NoType} /\ avail \subseteq Fields
  BY <1>1, <1>2 DEF PlanInv, PlanTyped, Plan!TypeOK
<1>5. s \in StepRecord
  BY <1>3, <1>4, TextMeans DEF StepRecord
<1>6. /\ s.text = t /\ s.leg = leg /\ s.type = Plan!EntityType(t) /\ s.opens = Plan!Open(t)
  OBVIOUS
<1> HIDE DEF s
<1>7. /\ psteps' \in Seq(StepRecord) /\ Len(psteps') = N + 1
      /\ DOMAIN psteps' = 1 .. N + 1 /\ DOMAIN psteps = 1 .. N
      /\ \A n \in 1 .. N : psteps'[n] = psteps[n] /\ RoleOf(n)' = RoleOf(n)
      /\ psteps'[N + 1] = s /\ RoleOf(N + 1)' = Plan!Man(t).role
  BY <1>1, <1>2, <1>4, <1>5, <1>6, Appended
<1>8. Plan!IsSource <=> N = 0
  BY <1>1, <1>4 DEF Plan!IsSource
<1>9. Plan!Man(t).role = "source" <=> N = 0
  BY <1>3, <1>8 DEF Plan!Misplaced
<1>10. Plan!IsTraverse(t) <=> Plan!Man(t).role = "traverse"
  BY DEF Plan!IsTraverse
<1>0. PICK L \in Nat : L = leg'
  BY <1>2, <1>4 DEF Plan!LegAfter
<1>11. PlanTyped'
  <2>1. Plan!LegAfter(t).type \in Types \cup {Plan!NoType}
    BY <1>3, <1>4, TextMeans DEF Plan!LegAfter
  <2>2. Plan!LegAfter(t).avail \subseteq Fields
    BY <1>4, TextMeans DEF Plan!LegAfter
  <2>3. Plan!LegAfter(t).leg \in 0 .. N + 1
    BY <1>4 DEF Plan!LegAfter
  <2>4. judged' \subseteq DOMAIN psteps'
    BY <1>2, <1>7 DEF PlanInv, PlanTyped, Plan!TypeOK
  <2>5. wild' \in BOOLEAN
    BY <1>2
  <2>6. /\ Len(psteps') <= MaxSteps /\ walked' \in 0 .. Len(psteps')
    BY <1>2, <1>4, <1>7 DEF Plan!PlanAssumption
  <2>7. /\ stage' = "writing" /\ stage' # "running" /\ lacking' = {} /\ walked' = 0
    BY <1>2, <1>4
  <2>8. /\ has' \subseteq Fields /\ rtype' \in Types \cup {Plan!NoType}
        /\ gtypes' \in [Groups -> Types \cup {"absent", Plan!NoType}]
        /\ turned' \subseteq Groups \X Types
    BY <1>2 DEF PlanInv, PlanTyped, Plan!TypeOK
  <2>9. lacking' \subseteq Fields \X (1 .. MaxSteps)
    BY <2>7
  <2> QED
    BY <1>2, <1>7, <2>1, <2>2, <2>3, <2>4, <2>5, <2>6, <2>7, <2>8, <2>9 DEF PlanTyped, Plan!TypeOK
<1>12. WalkStands'
  <2>1. \A m : OpensLeg(m, N + 2)' <=>
           \/ m = N + 1 /\ (m = 1 \/ Plan!Man(t).role = "traverse")
           \/ OpensLeg(m, N + 1) /\ Plan!Man(t).role # "traverse"
    BY <1>1, <1>2, <1>4, <1>5, <1>6, NewestOpens
  <2>2. \A m \in 1 .. N + 1 : OpensLeg(m, N + 2)' => ptype' = psteps'[m].type
    <3> SUFFICES ASSUME NEW m \in 1 .. N + 1, OpensLeg(m, N + 2)'
                 PROVE  ptype' = psteps'[m].type
      OBVIOUS
    <3>1. CASE m = N + 1
      <4>1. Plan!Man(t).role = "traverse" \/ N = 0
        BY <2>1, <3>1 DEF OpensLeg
      <4> QED
        BY <1>2, <1>6, <1>7, <1>8, <1>10, <3>1, <4>1 DEF Plan!LegAfter
    <3>2. CASE m # N + 1
      <4>1. m \in 1 .. N /\ OpensLeg(m, N + 1) /\ Plan!Man(t).role # "traverse" /\ N # 0
        BY <2>1, <3>2
      <4>2. ptype = psteps[m].type
        BY <1>1, <1>4, <4>1 DEF PlanInv, WalkStands
      <4> QED
        BY <1>2, <1>7, <1>8, <1>10, <4>1, <4>2 DEF Plan!LegAfter
    <3> QED
      BY <3>1, <3>2
  <2>3. \A f \in avail' : WrittenBefore(f, N + 2, L)'
    <3> SUFFICES ASSUME NEW f \in avail' PROVE WrittenBefore(f, N + 2, L)'
      OBVIOUS
    <3>0. N + 1 \in 1 .. (N + 2) - 1 /\ N + 1 + 1 .. (N + 2) - 1 = {}
      OBVIOUS
    <3>4. Plan!Provides(psteps[N + 1].text)' = Plan!Provides(t)
      BY <1>6, <1>7 DEF Plan!Provides, Plan!Man
    <3>1. CASE Plan!IsTraverse(t)
      <4>1. f \in Plan!Provides(t) /\ leg = L - 1
        BY <1>0, <1>2, <1>4, <3>1 DEF Plan!LegAfter
      <4> QED
        BY <1>6, <1>7, <1>10, <3>0, <3>1, <3>4, <4>1 DEF WrittenBefore
    <3>2. CASE ~Plan!IsTraverse(t) /\ f \in Plan!Provides(t)
      <4>1. leg = L
        BY <1>0, <1>2, <3>2 DEF Plan!LegAfter
      <4> QED
        BY <1>6, <1>7, <3>0, <3>2, <3>4, <4>1 DEF WrittenBefore
    <3>3. CASE ~Plan!IsTraverse(t) /\ f \notin Plan!Provides(t)
      <4>1. leg = L /\ f \in avail
        BY <1>0, <1>2, <3>3 DEF Plan!LegAfter
      <4>2. WrittenBefore(f, N + 1, L)
        BY <1>1, <1>4, <4>1 DEF PlanInv, WalkStands
      <4>3. PICK m \in 1 .. (N + 1) - 1 :
              /\ f \in Plan!Provides(psteps[m].text)
              /\ \/ psteps[m].leg = L
                 \/ /\ psteps[m].leg = L - 1 /\ RoleOf(m) = "traverse"
                    /\ \A k \in m + 1 .. (N + 1) - 1 : psteps[k].leg = L
        BY <4>2 DEF WrittenBefore
      <4>4. /\ m \in 1 .. N /\ m \in 1 .. (N + 2) - 1
            /\ psteps'[m] = psteps[m] /\ RoleOf(m)' = RoleOf(m)
        BY <1>7
      <4>5. ASSUME \A k \in m + 1 .. (N + 1) - 1 : psteps[k].leg = L,
                   NEW k \in m + 1 .. (N + 2) - 1
            PROVE  psteps'[k].leg = L
        <5>1. CASE k = N + 1
          BY <1>6, <1>7, <4>1, <5>1
        <5>2. CASE k # N + 1
          <6>1. k \in m + 1 .. (N + 1) - 1 /\ k \in 1 .. N
            BY <4>4, <5>2
          <6> QED
            BY <1>7, <4>5, <6>1
        <5> QED
          BY <5>1, <5>2
      <4>6. f \in Plan!Provides(psteps[m].text)'
        BY <4>3, <4>4 DEF Plan!Provides, Plan!Man
      <4> QED
        BY <4>3, <4>4, <4>5, <4>6 DEF WrittenBefore
    <3> QED
      BY <3>1, <3>2, <3>3
  <2>4. wild' => \E m \in 1 .. N + 1 : psteps'[m].opens
    <3>0. N + 1 \in 1 .. N + 1
      OBVIOUS
    <3>1. CASE Plan!Open(t)
      BY <1>6, <1>7, <3>0, <3>1, Zenon
    <3>2. CASE ~Plan!Open(t)
      <4>1. wild' => wild
        BY <1>2, <3>2, Zenon
      <4>2. wild => \E m \in 1 .. N : psteps[m].opens
        BY <1>1, <1>4 DEF PlanInv, WalkStands
      <4>3. 1 .. N \subseteq 1 .. N + 1
        OBVIOUS
      <4> QED
        BY <1>7, <4>1, <4>2, <4>3
    <3> QED
      BY <3>1, <3>2
  <2>5. (N + 1) + 1 = N + 2
    OBVIOUS
  <2> QED
    BY <1>0, <1>7, <2>2, <2>3, <2>4, <2>5 DEF WalkStands
<1>13. StepsJudged'
  <2> SUFFICES ASSUME NEW n \in 2 .. N + 1, NEW l \in Nat
               PROVE  /\ RoleOf(n)' # "source"
                      /\ \A m \in 1 .. n - 1 : OpensLeg(m, n)' => FitsType(n, m)'
                      /\ l = psteps'[n].leg => \A f \in Plan!Required(psteps[n].text)' :
                           WrittenBefore(f, n, l)' \/ \E m \in 1 .. n - 1 : psteps'[m].opens
    BY <1>7 DEF StepsJudged
  <2>1. /\ \A m : OpensLeg(m, n)' <=> OpensLeg(m, n)
        /\ \A f : WrittenBefore(f, n, l)' <=> WrittenBefore(f, n, l)
    <3>1. n \in 1 .. N + 1
      OBVIOUS
    <3> QED
      BY <1>1, <1>2, <1>4, <1>5, <3>1, OlderStands
  <2>2. \A m \in 1 .. n - 1 : m \in 1 .. N /\ psteps'[m] = psteps[m]
    BY <1>7
  <2>3. CASE n # N + 1
    <3>1. n \in 2 .. N /\ n \in 1 .. N
      BY <2>3
    <3>2. psteps'[n] = psteps[n] /\ RoleOf(n)' = RoleOf(n)
      BY <1>7, <3>1
    <3>3. /\ RoleOf(n) # "source"
          /\ \A m \in 1 .. n - 1 : OpensLeg(m, n) => FitsType(n, m)
          /\ l = psteps[n].leg => \A f \in Plan!Required(psteps[n].text) :
               WrittenBefore(f, n, l) \/ \E m \in 1 .. n - 1 : psteps[m].opens
      BY <1>1, <3>1 DEF PlanInv, StepsJudged
    <3>4. \A m \in 1 .. n - 1 : FitsType(n, m)' <=> FitsType(n, m)
      BY <2>2, <3>2 DEF FitsType, RoleOf, Plan!Man
    <3>5. Plan!Required(psteps[n].text)' = Plan!Required(psteps[n].text)
      BY <3>2 DEF Plan!Required, Plan!Participant, Plan!IsSQL, Plan!IsHandoff, Plan!Man
    <3> QED
      BY <2>1, <2>2, <3>2, <3>3, <3>4, <3>5
  <2>4. CASE n = N + 1
    <3>1. N # 0 /\ Plan!Man(t).role # "source" /\ ~Plan!IsSource
      BY <1>8, <1>9, <2>4
    <3>2. RoleOf(n)' = Plan!Man(t).role /\ psteps'[n] = s
      BY <1>7, <2>4
    <3>3. ASSUME NEW m \in 1 .. n - 1, OpensLeg(m, n) PROVE FitsType(n, m)'
      <4>1. ptype = psteps[m].type /\ psteps'[m].type = ptype
        BY <1>1, <1>4, <2>2, <2>4, <3>3 DEF PlanInv, WalkStands
      <4>2. /\ Plan!EntityType(t) = IF Plan!Man(t).type = "*" THEN ptype ELSE Plan!Man(t).type
            /\ Plan!Man(t).type # "*" => Plan!Man(t).type \in Types
        BY <1>3, <3>1, TextMeans
      <4>3. Plan!NoType \notin Types
        BY DEF Plan!PlanAssumption
      <4>4. Plan!Man(t) = Plan!Man(psteps[n].text)' /\ psteps'[n].type = Plan!EntityType(t)
        BY <1>6, <3>2 DEF Plan!Man
      <4>5. CASE Plan!Man(t).role = "traverse"
        <5>1. ptype # Plan!NoType /\ Plan!From(t) = ptype
          BY <1>3, <1>10, <3>1, <4>5 DEF Plan!TypeProblem
        <5>2. Plan!Man(t).form = "sql" \/ Plan!Man(t).from = ptype
          BY <5>1 DEF Plan!From, Plan!IsSQL
        <5>3. Plan!EntityType(t) # Plan!NoType
          BY <4>2, <4>3, <5>1
        <5> QED
          BY <3>2, <4>1, <4>4, <4>5, <5>2, <5>3 DEF FitsType
      <4>6. CASE Plan!Man(t).role # "traverse"
        <5>1. ptype = Plan!NoType \/ Plan!EntityType(t) \in {Plan!NoType, ptype}
          BY <1>3, <1>10, <3>1, <4>6 DEF Plan!TypeProblem
        <5>2. ptype # Plan!NoType => Plan!Man(t).type \in {"*", ptype}
          BY <4>2, <4>3, <5>1
        <5> QED
          BY <3>2, <4>1, <4>4, <4>6, <5>2 DEF FitsType
      <4> QED
        BY <4>5, <4>6
    <3>4. ASSUME l = psteps'[n].leg, NEW f \in Plan!Required(psteps[n].text)'
          PROVE  WrittenBefore(f, n, l) \/ \E m \in 1 .. n - 1 : psteps'[m].opens
      <4>1. l = leg /\ f \in Plan!Required(t)
        BY <1>6, <3>2, <3>4 DEF Plan!Required, Plan!Participant, Plan!IsSQL, Plan!IsHandoff,
                                Plan!Man
      <4>2. CASE wild
        <5>1. \E m \in 1 .. N : psteps[m].opens
          BY <1>1, <1>4, <4>2 DEF PlanInv, WalkStands
        <5>2. N = n - 1
          BY <2>4
        <5> QED
          BY <2>2, <5>1, <5>2
      <4>3. CASE ~wild
        <5>1. f \in avail
          BY <1>3, <3>1, <4>1, <4>3 DEF Plan!NeedsProblem, Plan!Known
        <5> QED
          BY <1>1, <1>4, <2>4, <4>1, <5>1 DEF PlanInv, WalkStands
      <4> QED
        BY <4>2, <4>3
    <3> QED
      BY <2>1, <3>1, <3>2, <3>3, <3>4
  <2> QED
    BY <2>3, <2>4
<1>14. RunTyped' /\ LackingIs'
  BY <1>2, <1>4 DEF RunTyped, LackingIs
<1> QED
  BY <1>11, <1>12, <1>13, <1>14 DEF PlanInv

-----------------------------------------------------------------------------
(* Behind the walk the steps stand.                                        *)
LEMMA StepsStand ==
  ASSUME PlanInv, UNCHANGED <<psteps, avail, wild, ptype, leg>>
  PROVE  WalkStands' /\ StepsJudged'
<1>1. \A n, m : OpensLeg(m, n)' <=> OpensLeg(m, n)
  BY DEF OpensLeg, RoleOf, Plan!Man
<1>2. \A f, n, l : WrittenBefore(f, n, l)' <=> WrittenBefore(f, n, l)
  BY DEF WrittenBefore, Plan!Provides, RoleOf, Plan!Man
<1>3. \A n, m : FitsType(n, m)' <=> FitsType(n, m)
  BY DEF FitsType, RoleOf, Plan!Man
<1>4. \A n : /\ RoleOf(n)' = RoleOf(n)
            /\ Plan!Required(psteps[n].text)' = Plan!Required(psteps[n].text)
  BY DEF RoleOf, Plan!Man, Plan!Required, Plan!Participant, Plan!IsSQL, Plan!IsHandoff
<1>5. WalkStands'
  BY <1>1, <1>2 DEF PlanInv, WalkStands
<1>6. StepsJudged'
  BY <1>1, <1>2, <1>3, <1>4 DEF PlanInv, StepsJudged
<1> QED
  BY <1>5, <1>6

(* The record went past no step, or past one that is no traverse.          *)
LEMMA TypeStays ==
  ASSUME PlanInv, UNCHANGED <<psteps, avail, wild, ptype, leg>>, rtype' = rtype,
         walked' = walked \/ (walked' = walked + 1 /\ walked \in 1 .. Len(psteps) - 1
                              /\ RoleOf(walked + 1) # "traverse")
  PROVE  RunTyped'
<1>1. PICK N \in Nat : N = walked
  BY DEF PlanInv, PlanTyped, Plan!TypeOK
<1>2. \A n, m : OpensLeg(m, n)' <=> OpensLeg(m, n)
  BY DEF OpensLeg, RoleOf, Plan!Man
<1>3. CASE walked' = walked
  BY <1>2, <1>3 DEF PlanInv, RunTyped
<1>4. CASE walked' = N + 1 /\ N >= 1 /\ RoleOf(N + 1) # "traverse"
  <2> SUFFICES ASSUME psteps[1].type # Plan!NoType, NEW m \in 1 .. N + 1, OpensLeg(m, N + 2)
               PROVE  rtype = psteps[m].type
    BY <1>2, <1>4 DEF RunTyped
  <2>1. m # N + 1
    BY <1>4 DEF OpensLeg
  <2>2. m \in 1 .. N /\ m + 1 .. (N + 1) - 1 \subseteq m + 1 .. (N + 2) - 1
    BY <2>1
  <2>3. OpensLeg(m, N + 1)
    BY <2>2 DEF OpensLeg
  <2> QED
    BY <1>1, <1>4, <2>2, <2>3 DEF PlanInv, RunTyped
<1> QED
  BY <1>1, <1>3, <1>4

-----------------------------------------------------------------------------
\* Where the run is: what stays of the types while it moves.
RunAt ==
  /\ psteps \in Seq(StepRecord) /\ Len(psteps) \in Nat /\ Len(psteps) <= MaxSteps
  /\ MaxSteps \in Nat
  /\ walked \in 0 .. Len(psteps)
  /\ avail \subseteq Fields /\ wild \in BOOLEAN /\ ptype \in Types \cup {Plan!NoType}
  /\ leg \in 0 .. Len(psteps)
RunTypes == /\ judged \subseteq DOMAIN psteps /\ has \subseteq Fields
            /\ rtype \in Types \cup {Plan!NoType}
IsGrouped == /\ gtypes \in [Groups -> Types \cup {"absent", Plan!NoType}]
             /\ turned \subseteq Groups \X Types
IsMissing == lacking \subseteq Fields \X (1 .. MaxSteps)

(* While the run moves, the types of what moves.                           *)
LEMMA TypedIs ==
  ASSUME Plan!PlanAssumption
  PROVE  PlanTyped <=> /\ RunAt /\ RunTypes /\ IsGrouped /\ IsMissing
                       /\ stage \in {"writing", "refused", "running", "over"}
                       /\ stage \in {"writing", "refused"} => walked = 0 /\ lacking = {}
                       /\ stage = "running" => Len(psteps) > 1
BY DEF Plan!PlanAssumption, PlanTyped, Plan!TypeOK, RunAt, RunTypes, IsGrouped, IsMissing

(* A group the run creates or adds to.                                     *)
LEMMA GroupsJoined ==
  ASSUME Plan!PlanAssumption, IsGrouped, NEW group \in Groups,
         NEW type \in Types \cup {Plan!NoType},
         Plan!Join(group, type)
  PROVE  IsGrouped'
<1>1. gtypes' \in [Groups -> Types \cup {"absent", Plan!NoType}]
  BY DEF IsGrouped, Plan!Join
<1>2. ~Plan!Takes(group, type) => <<group, type>> \in Groups \X Types
  BY DEF Plan!Takes
<1>3. turned' \subseteq Groups \X Types
  BY <1>2 DEF IsGrouped, Plan!Join
<1> QED
  BY <1>1, <1>3 DEF IsGrouped

(* The step a record comes to.                                             *)
LEMMA AtStep ==
  ASSUME Plan!PlanAssumption, PlanInv, walked < Len(psteps)
  PROVE  /\ Plan!At \in 1 .. Len(psteps) /\ Plan!At \in DOMAIN psteps /\ Plan!At \in 1 .. MaxSteps
         /\ Plan!Here \in StepRecord /\ Plan!Here.text \in Texts
         /\ Plan!Here.type \in Types \cup {Plan!NoType}
         /\ Plan!Here = psteps[Plan!At] /\ Plan!At = walked + 1
         /\ Plan!Required(Plan!Here.text) \subseteq Fields
         /\ Plan!Provides(Plan!Here.text) \subseteq Fields
         /\ Plan!Man(Plan!Here.text).role = RoleOf(Plan!At)
<1>1. RunAt
  BY TypedIs DEF PlanInv
<1>2. /\ Plan!At \in 1 .. Len(psteps) /\ Plan!At \in DOMAIN psteps /\ Plan!At \in 1 .. MaxSteps
      /\ Plan!Here = psteps[Plan!At] /\ Plan!At = walked + 1
  BY <1>1 DEF Plan!At, Plan!Here, RunAt
<1>3. Plan!Here \in StepRecord
  BY <1>1, <1>2 DEF RunAt
<1>4. Plan!Here.text \in Texts /\ Plan!Here.type \in Types \cup {Plan!NoType}
  BY <1>3 DEF StepRecord
<1>5. /\ Plan!Required(Plan!Here.text) \subseteq Fields
      /\ Plan!Provides(Plan!Here.text) \subseteq Fields
  BY <1>4, TextMeans
<1>6. Plan!Man(Plan!Here.text).role = RoleOf(Plan!At)
  BY <1>2 DEF RoleOf
<1> QED
  BY <1>2, <1>3, <1>4, <1>5, <1>6

(* A record goes past a step that is no traverse.                          *)
LEMMA RunWalks ==
  ASSUME Plan!PlanAssumption, PlanInv, Plan!Frame, Plan!Arriving, walked' = Plan!At,
         RoleOf(Plan!At) # "traverse",
         rtype' = rtype, lacking' = lacking, RunTypes', IsGrouped',
         stage' \in {"running", "over"}
  PROVE  PlanInv'
<1>1. RunAt /\ IsMissing /\ walked \in 1 .. Len(psteps) - 1 /\ walked < Len(psteps)
  BY TypedIs DEF PlanInv, Plan!Arriving, RunAt
<1>2. Plan!At \in 1 .. Len(psteps) /\ Plan!At = walked + 1
  BY <1>1, AtStep
<1>3. RunAt' /\ IsMissing'
  BY <1>1, <1>2 DEF RunAt, IsMissing, Plan!Frame
<1>4. PlanTyped'
  <2>1. stage = "running" /\ Len(psteps) > 1 /\ Len(psteps') = Len(psteps)
    BY DEF Plan!Arriving, PlanInv, PlanTyped, Plan!Frame
  <2> QED
    BY <1>3, <2>1 DEF RunAt, IsMissing, RunTypes, IsGrouped, PlanTyped, Plan!TypeOK
<1>5. WalkStands' /\ StepsJudged'
  BY StepsStand DEF Plan!Frame
<1>6. RunTyped'
  BY SMTT(30), <1>1, <1>2, TypeStays DEF Plan!Frame
<1>7. LackingIs'
  BY DEF PlanInv, LackingIs, Plan!Frame, Plan!Required, Plan!Participant, Plan!IsSQL,
         Plan!IsHandoff, Plan!Man
<1> QED
  BY <1>4, <1>5, <1>6, <1>7 DEF PlanInv

(* The run ends where it is.                                               *)
LEMMA RunEnds ==
  ASSUME Plan!PlanAssumption, PlanInv, Plan!Frame, stage = "running", stage' = "over",
         UNCHANGED <<walked, rtype, lacking, has, judged>>, IsGrouped'
  PROVE  PlanInv'
<1>1. RunAt /\ IsMissing /\ RunTypes
  BY TypedIs DEF PlanInv
<1>2. RunAt' /\ IsMissing' /\ RunTypes'
  BY <1>1 DEF RunAt, IsMissing, Plan!Frame, RunTypes
<1>3. PlanTyped'
  BY <1>2 DEF Plan!PlanAssumption, RunAt, IsMissing, RunTypes, IsGrouped, PlanTyped, Plan!TypeOK
<1>4. WalkStands' /\ StepsJudged'
  BY StepsStand DEF Plan!Frame
<1>5. RunTyped'
  BY SMTT(30), TypeStays DEF Plan!Frame
<1>6. LackingIs'
  BY DEF PlanInv, LackingIs, Plan!Frame, Plan!Required, Plan!Participant, Plan!IsSQL,
         Plan!IsHandoff, Plan!Man
<1> QED
  BY <1>3, <1>4, <1>5, <1>6 DEF PlanInv

(* Every step keeps the invariant.                                         *)
LEMMA PlanNext ==
  ASSUME Plan!PlanAssumption, PlanInv, [Plan!Next]_(Plan!pvars)
  PROVE  PlanInv'
<1>1. RunAt /\ IsMissing /\ RunTypes /\ IsGrouped
  BY TypedIs DEF PlanInv
<1>2. ASSUME UNCHANGED Plan!pvars PROVE PlanInv'
  <2>1. Plan!Frame
    BY <1>2 DEF Plan!Frame, Plan!pvars
  <2>2. RunAt' /\ IsMissing' /\ RunTypes' /\ IsGrouped' /\ (PlanTyped <=> PlanTyped')
    BY <1>1, <1>2 DEF Plan!pvars, RunAt, IsMissing, RunTypes, IsGrouped, PlanTyped, Plan!TypeOK
  <2>3. WalkStands' /\ StepsJudged'
    BY <2>1, StepsStand DEF Plan!Frame
  <2>4. RunTyped'
    BY SMTT(30), <1>2, <2>1, TypeStays DEF Plan!Frame, Plan!pvars
  <2>5. LackingIs'
    BY <1>2 DEF Plan!pvars, PlanInv, LackingIs, Plan!Required, Plan!Participant, Plan!IsSQL,
                Plan!IsHandoff, Plan!Man
  <2> QED
    BY <2>2, <2>3, <2>4, <2>5 DEF PlanInv
<1>3. ASSUME NEW t \in Texts, NEW w \in 0 .. MaxSteps, Plan!WriteStep(t, w) PROVE PlanInv'
  BY <1>3, WriteKeeps
<1>4. ASSUME stage = "writing", stage' \in {"refused", "running"}, Plan!Frame,
             stage' = "running" => Len(psteps) > 1,
             UNCHANGED <<walked, rtype, has, judged, gtypes, lacking, turned>>
      PROVE  PlanInv'
  <2>1. walked = 0 /\ lacking = {}
    BY <1>4 DEF PlanInv, PlanTyped
  <2>2. RunAt' /\ IsMissing' /\ RunTypes' /\ IsGrouped'
    BY <1>1, <1>4 DEF RunAt, IsMissing, RunTypes, IsGrouped, Plan!Frame
  <2>3. PlanTyped'
    BY <1>4, <2>1, <2>2 DEF RunAt, IsMissing, RunTypes, IsGrouped, PlanTyped, Plan!TypeOK,
                            Plan!Frame
  <2>4. WalkStands' /\ StepsJudged'
    BY <1>4, StepsStand DEF Plan!Frame
  <2>5. RunTyped' /\ LackingIs'
    BY <1>4, <2>1 DEF RunTyped, LackingIs
  <2> QED
    BY <2>3, <2>4, <2>5 DEF PlanInv
<1>5. ASSUME NEW t \in Texts, NEW w \in 0 .. MaxSteps, Plan!Refuse(t, w) PROVE PlanInv'
  BY <1>4, <1>5 DEF Plan!Refuse, Plan!Frame
<1>6. ASSUME Plan!Submit PROVE PlanInv'
  BY <1>4, <1>6 DEF Plan!Submit, Plan!Frame
<1>7. ASSUME NEW type \in Types, NEW fields \in SUBSET Fields, Plan!Sourced(type, fields)
      PROVE  PlanInv'
  <2>1. /\ Plan!Frame /\ stage = "running" /\ stage' = "running" /\ walked = 0 /\ walked' = 1
        /\ rtype' = type /\ (type = Plan!Here.type \/ Plan!Here.type = Plan!NoType) /\ has' = fields
        /\ UNCHANGED <<judged, gtypes, lacking, turned>>
    BY <1>7 DEF Plan!Sourced
  <2>2. Len(psteps) > 1 /\ Len(psteps) \in Nat /\ walked < Len(psteps)
    BY <1>1, <2>1 DEF PlanInv, PlanTyped, RunAt
  <2>7. Plan!Here = psteps[1] /\ Plan!Here.type \in Types \cup {Plan!NoType}
    BY <2>1, <2>2, AtStep
  <2>3. RunAt' /\ IsMissing' /\ RunTypes' /\ IsGrouped'
    BY <1>1, <2>1, <2>2 DEF RunAt, IsMissing, RunTypes, IsGrouped, Plan!Frame
  <2>4. PlanTyped'
    BY <2>1, <2>2, <2>3 DEF RunAt, IsMissing, RunTypes, IsGrouped, PlanTyped, Plan!TypeOK,
                            Plan!Frame
  <2>5. WalkStands' /\ StepsJudged'
    BY <2>1, StepsStand DEF Plan!Frame
  <2>6. RunTyped'
    <3>1. psteps[1].type # Plan!NoType => rtype' = psteps[1].type
      BY <2>1, <2>7
    <3>2. 1 .. 1 = {1}
      BY SMTT(30)
    <3> QED
      BY <2>1, <3>1, <3>2 DEF RunTyped, Plan!Frame
  <2>8. LackingIs'
    BY <2>1 DEF PlanInv, LackingIs, Plan!Frame, Plan!Required, Plan!Participant, Plan!IsSQL,
                Plan!IsHandoff, Plan!Man
  <2> QED
    BY <2>4, <2>5, <2>6, <2>8 DEF PlanInv
<1>8. ASSUME Plan!Missed PROVE PlanInv'
  <2>1. /\ Plan!Frame /\ Plan!Arriving /\ stage' = "over"
        /\ lacking' = lacking \cup {<<f, Plan!At>> : f \in Plan!Required(Plan!Here.text) \ has}
        /\ UNCHANGED <<walked, rtype, has, judged, gtypes, turned>>
    BY <1>8 DEF Plan!Missed
  <2>2. walked \in 1 .. Len(psteps) - 1 /\ walked < Len(psteps)
    BY <1>1, <2>1 DEF Plan!Arriving, RunAt
  <2>3. /\ Plan!At \in 2 .. Len(psteps) /\ Plan!At \in 1 .. MaxSteps /\ Plan!Here = psteps[Plan!At]
        /\ Plan!Required(Plan!Here.text) \subseteq Fields
    BY <1>1, <2>2, AtStep DEF RunAt
  <2>4. RunAt' /\ RunTypes' /\ IsGrouped'
    BY <1>1, <2>1 DEF RunAt, RunTypes, IsGrouped, Plan!Frame
  <2>5. IsMissing'
    BY <1>1, <2>1, <2>3 DEF IsMissing
  <2>6. PlanTyped'
    BY <2>1, <2>4, <2>5 DEF RunAt, IsMissing, RunTypes, IsGrouped, PlanTyped, Plan!TypeOK,
                            Plan!Frame
  <2>7. WalkStands' /\ StepsJudged'
    BY <2>1, StepsStand DEF Plan!Frame
  <2>8. RunTyped'
    BY <2>1, TypeStays DEF Plan!Frame
  <2>9. LackingIs'
    <3> SUFFICES ASSUME NEW e \in lacking'
                 PROVE  e[2] \in 2 .. Len(psteps) /\ e[1] \in Plan!Required(psteps[e[2]].text)
      BY ZenonT(30), <2>1 DEF LackingIs, Plan!Frame, Plan!Required, Plan!Participant, Plan!IsSQL,
                  Plan!IsHandoff, Plan!Man
    <3>1. CASE e \in lacking
      BY <3>1 DEF PlanInv, LackingIs
    <3>2. CASE e \notin lacking
      <4>1. PICK f \in Plan!Required(Plan!Here.text) : e = <<f, Plan!At>>
        BY <2>1, <3>2
      <4> QED
        BY <2>3, <4>1
    <3> QED
      BY SMTT(30), <3>1, <3>2
  <2> QED
    BY <2>6, <2>7, <2>8, <2>9 DEF PlanInv
<1>9. ASSUME Plan!Held PROVE PlanInv'
  BY <1>1, <1>9, RunEnds DEF Plan!Held, Plan!Arriving, Plan!Frame, IsGrouped
<1>a. ASSUME Plan!Arriving PROVE walked \in 1 .. Len(psteps) - 1 /\ walked < Len(psteps)
  BY <1>1, <1>a DEF Plan!Arriving, RunAt
<1>10. ASSUME NEW fields \in SUBSET Fields, Plan!Works(fields) PROVE PlanInv'
  <2>1. /\ Plan!Frame /\ Plan!Arriving /\ walked' = Plan!At
        /\ has' = has \cup fields /\ stage' = stage
        /\ Plan!Man(Plan!Here.text).role \in {"enrich", "compose", "review"}
        /\ UNCHANGED <<rtype, judged, gtypes, lacking, turned>>
    BY <1>10 DEF Plan!Works, Plan!Ready
  <2>2. RoleOf(Plan!At) # "traverse"
    BY <1>a, <2>1, AtStep
  <2>3. RunTypes' /\ IsGrouped' /\ stage' \in {"running", "over"}
    BY <1>1, <2>1 DEF RunTypes, IsGrouped, Plan!Frame, Plan!Arriving
  <2> QED
    BY <2>1, <2>2, <2>3, RunWalks
<1>11. ASSUME NEW fields \in SUBSET Fields, Plan!Traverses(fields) PROVE PlanInv'
  <2>1. /\ Plan!Frame /\ Plan!Arriving /\ walked' = Plan!At
        /\ has' = fields /\ stage' = stage /\ judged' = {}
        /\ rtype' = Plan!Here.type /\ Plan!Man(Plan!Here.text).role = "traverse"
        /\ UNCHANGED <<gtypes, lacking, turned>>
    BY <1>11 DEF Plan!Traverses, Plan!Ready
  <2>2. PICK N \in Nat : N = walked
    BY <1>1 DEF RunAt
  <2>3. /\ Plan!At = N + 1 /\ Plan!At \in 1 .. Len(psteps) /\ Plan!Here = psteps[N + 1]
        /\ RoleOf(N + 1) = "traverse"
        /\ Plan!Here.type \in Types \cup {Plan!NoType}
    BY <1>a, <2>1, <2>2, AtStep
  <2>4. RunAt' /\ IsMissing' /\ RunTypes' /\ IsGrouped' /\ stage' = "running"
    BY <1>1, <2>1, <2>3 DEF RunAt, IsMissing, RunTypes, IsGrouped, Plan!Frame, Plan!Arriving
  <2>5. PlanTyped'
    BY <2>1, <2>4 DEF RunAt, IsMissing, RunTypes, IsGrouped, PlanTyped, Plan!TypeOK, Plan!Frame,
                      Plan!Arriving, PlanInv
  <2>6. WalkStands' /\ StepsJudged'
    BY <2>1, StepsStand DEF Plan!Frame
  <2>7. RunTyped'
    <3>1. psteps' = psteps /\ walked' = N + 1
      BY <2>1, <2>3 DEF Plan!Frame
    <3> SUFFICES ASSUME NEW m \in 1 .. N + 1, OpensLeg(m, N + 2)'
                 PROVE  rtype' = psteps[m].type
      BY <3>1 DEF RunTyped
    <3>2. m = N + 1
      <4>1. ASSUME m # N + 1 PROVE FALSE
        <5>1. N + 1 \in m + 1 .. (N + 2) - 1
          BY <4>1
        <5>2. RoleOf(N + 1)' = "traverse"
          BY SMTT(30), <2>3, <3>1 DEF RoleOf, Plan!Man
        <5> QED
          BY <5>1, <5>2 DEF OpensLeg
      <4> QED
        BY <4>1
    <3> QED
      BY <2>1, <2>3, <3>2
  <2>8. LackingIs'
    BY <2>1 DEF PlanInv, LackingIs, Plan!Frame, Plan!Required, Plan!Participant, Plan!IsSQL,
                Plan!IsHandoff, Plan!Man
  <2> QED
    BY <2>5, <2>6, <2>7, <2>8 DEF PlanInv
<1>12. ASSUME NEW pass \in BOOLEAN, Plan!Judges(pass) PROVE PlanInv'
  <2>1. /\ Plan!Frame /\ Plan!Arriving /\ walked' = Plan!At
        /\ has' = has /\ stage' \in {stage, "over"}
        /\ judged' \subseteq judged \cup {Plan!At} /\ Plan!Man(Plan!Here.text).role = "filter"
        /\ UNCHANGED <<rtype, gtypes, lacking, turned>>
    BY <1>12 DEF Plan!Judges, Plan!Ready
  <2>2. RoleOf(Plan!At) # "traverse" /\ Plan!At \in DOMAIN psteps
    BY <1>a, <2>1, AtStep
  <2>3. RunTypes' /\ IsGrouped' /\ stage' \in {"running", "over"}
    BY <1>1, <2>1, <2>2 DEF RunTypes, IsGrouped, Plan!Frame, Plan!Arriving
  <2> QED
    BY <2>1, <2>2, <2>3, RunWalks
<1>13. ASSUME NEW group \in Groups, Plan!Delivers(group) PROVE PlanInv'
  <2>1. /\ Plan!Frame /\ Plan!Arriving /\ walked' = Plan!At /\ stage' \in {stage, "over"}
        /\ Plan!Join(group, Plan!Here.type) /\ Plan!Man(Plan!Here.text).role = "deliver"
        /\ UNCHANGED <<rtype, has, judged, lacking>>
    BY <1>13 DEF Plan!Delivers, Plan!Ready
  <2>2. RoleOf(Plan!At) # "traverse" /\ Plan!Here.type \in Types \cup {Plan!NoType}
    BY <1>a, <2>1, AtStep
  <2>3. RunTypes' /\ stage' \in {"running", "over"}
    BY <1>1, <2>1, <2>2 DEF RunTypes, Plan!Frame, Plan!Arriving
  <2>4. IsGrouped'
    BY <1>1, <2>1, <2>2, GroupsJoined
  <2> QED
    BY <2>1, <2>2, <2>3, <2>4, RunWalks
<1>14. ASSUME Plan!Ends PROVE PlanInv'
  <2>1. IsGrouped'
    <3>1. CASE Terminus = Plan!NoGroup
      BY <1>1, <1>14, <3>1 DEF Plan!Ends, IsGrouped
    <3>2. CASE Terminus # Plan!NoGroup
      <4>1. Terminus \in Groups /\ Plan!Join(Terminus, ptype)
        BY <1>14, <3>2 DEF Plan!Ends, Plan!PlanAssumption
      <4> QED
        BY <1>1, <4>1, GroupsJoined DEF RunAt
    <3> QED
      BY <3>1, <3>2
  <2> QED
    BY <1>14, <2>1, RunEnds DEF Plan!Ends
<1> QED
  BY <1>2, <1>3, <1>5, <1>6, <1>7, <1>8, <1>9, <1>10, <1>11, <1>12, <1>13, <1>14 DEF Plan!Next

(* Some step opened the leg a step is in.                                  *)
LEMMA SomeOpens ==
  ASSUME NEW n \in 2 .. Len(psteps), Len(psteps) \in Nat
  PROVE  \E m \in 1 .. n - 1 : OpensLeg(m, n)
<1> DEFINE T == {d \in 1 .. n - 1 : n - d = 1 \/ RoleOf(n - d) = "traverse"}
<1>1. T \subseteq Nat /\ n - 1 \in T
  OBVIOUS
<1>2. PICK d \in T : \A e \in T : ~(e < d)
  BY <1>1, Least
<1>3. n - d \in 1 .. n - 1 /\ (n - d = 1 \/ RoleOf(n - d) = "traverse")
  BY <1>2
<1>4. ASSUME NEW k \in (n - d) + 1 .. n - 1 PROVE RoleOf(k) # "traverse"
  <2>1. n - k \in 1 .. n - 1 /\ n - k < d /\ n - (n - k) = k
    BY <1>2, <1>4
  <2>2. n - k \notin T
    BY <1>2, <2>1
  <2> QED
    BY <2>1, <2>2
<1> QED
  BY <1>3, <1>4 DEF OpensLeg

(* The invariant implies what the run of MCParts checks.                   *)
LEMMA PlanKept == ASSUME Plan!PlanAssumption, PlanInv PROVE Plan!PlanHolds
<1>1. Plan!NeedsHaveAWriter
  <2> SUFFICES ASSUME NEW e \in lacking
               PROVE  \/ \E m \in Plan!Writers(e[2]) : e[1] \in Plan!Provides(psteps[m].text)
                      \/ \E m \in 1 .. e[2] - 1 : psteps[m].opens
    BY DEF Plan!NeedsHaveAWriter
  <2>1. PICK n \in 2 .. Len(psteps) : n = e[2] /\ e[1] \in Plan!Required(psteps[n].text)
    BY DEF PlanInv, LackingIs
  <2>2. PICK l \in Nat : l = psteps[n].leg
    <3>1. psteps \in Seq(StepRecord) /\ n \in 1 .. Len(psteps)
      BY <2>1 DEF PlanInv, PlanTyped
    <3>2. psteps[n] \in StepRecord
      BY <3>1
    <3> QED
      BY <3>2 DEF StepRecord
  <2>3. WrittenBefore(e[1], n, l) \/ \E m \in 1 .. n - 1 : psteps[m].opens
    BY <2>1, <2>2 DEF PlanInv, StepsJudged
  <2>4. ASSUME WrittenBefore(e[1], n, l)
        PROVE  \E m \in Plan!Writers(n) : e[1] \in Plan!Provides(psteps[m].text)
    <3>1. PICK m \in 1 .. n - 1 :
            /\ e[1] \in Plan!Provides(psteps[m].text)
            /\ \/ psteps[m].leg = l
               \/ /\ psteps[m].leg = l - 1 /\ RoleOf(m) = "traverse"
                  /\ \A k \in m + 1 .. n - 1 : psteps[k].leg = l
      BY <2>4 DEF WrittenBefore
    <3>2. m \in Plan!Writers(n)
      BY <2>2, <3>1 DEF Plan!Writers, Plan!Before, Plan!Opening, Plan!IsTraverse, RoleOf
    <3> QED
      BY <3>1, <3>2
  <2> QED
    BY <2>1, <2>3, <2>4
<1>2. Plan!TypesHold
  <2> SUFFICES ASSUME stage = "running", walked \in 1 .. Len(psteps) - 1,
                      psteps[1].type # Plan!NoType
               PROVE  LET m == Plan!Man(Plan!Here.text)
                      IN IF m.role = "traverse" THEN m.form = "sql" \/ m.from = rtype
                                                ELSE m.type \in {"*", rtype}
    BY DEF Plan!TypesHold
  <2>1. RunAt /\ walked < Len(psteps)
    BY TypedIs DEF PlanInv, RunAt
  <2>2. PICK N \in Nat : N = walked
    BY <2>1 DEF RunAt
  <2>3. N + 1 \in 2 .. Len(psteps) /\ Plan!Here = psteps[N + 1] /\ Plan!At = N + 1
    BY <2>1, <2>2, AtStep DEF RunAt
  <2>4. PICK m \in 1 .. N : OpensLeg(m, N + 1)
    BY <2>3, SomeOpens
  <2>5. rtype = psteps[m].type /\ FitsType(N + 1, m)
    BY <2>2, <2>3, <2>4 DEF PlanInv, RunTyped, StepsJudged, OpensLeg
  <2>6. rtype # Plan!NoType
    <3>1. CASE m = 1
      BY <2>5, <3>1
    <3>2. CASE m # 1
      <4>1. m \in 2 .. Len(psteps) /\ RoleOf(m) = "traverse"
        BY <2>3, <2>4, <3>2 DEF OpensLeg
      <4>2. PICK k \in 1 .. m - 1 : OpensLeg(k, m)
        BY <4>1, SomeOpens
      <4>3. FitsType(m, k)
        BY <4>1, <4>2 DEF PlanInv, StepsJudged
      <4> QED
        BY <2>5, <4>1, <4>3 DEF FitsType
    <3> QED
      BY <3>1, <3>2
  <2> QED
    BY <2>3, <2>5, <2>6 DEF FitsType, RoleOf
<1> QED
  BY <1>1, <1>2 DEF Plan!PlanHolds

(* The invariant of the plan and of the run of it, in every behaviour.     *)
THEOREM PlanInvariance == ASSUME Plan!PlanAssumption PROVE Plan!Spec => []PlanInv
<1>1. Plan!Init => PlanInv
  BY PlanInit
<1>2. PlanInv /\ [Plan!Next]_(Plan!pvars) => PlanInv'
  BY PlanNext
<1> QED
  BY <1>1, <1>2, PTL DEF Plan!Spec

(* A field a step missed on a record has a step that writes it or an open  *)
(* one before it, and a record of a typed source comes to each step as a   *)
(* type that step takes (planner.go, Build and ResolveStep).               *)
THEOREM PlanIsKept == ASSUME Plan!PlanAssumption PROVE Plan!Spec => []Plan!PlanHolds
<1>1. PlanInv => Plan!PlanHolds
  BY PlanKept
<1> QED
  BY <1>1, PlanInvariance, PTL
===============================================================================
