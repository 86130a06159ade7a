------------------------------- MODULE Traverse -------------------------------
(***************************************************************************)
(* A run with a traverse step and a step after it (internal/runner/        *)
(* traverse.go, runner.go segmentMembers).  Parents, sourced or brought in *)
(* by an earlier leg, are dispatched one per session, several at once; each*)
(* child RECORD is related to its parent, joins the run at the traverse's  *)
(* state or coalesces with a record that is there already; a parent is     *)
(* finished when its session ends.  Only children go on.  A run breaks, is *)
(* killed between two writes and is resumed.                               *)
(***************************************************************************)
EXTENDS Integers, FiniteSets

CONSTANTS
  Nodes,      \* identities
  Parents,    \* those the source brings into the run
  Offers,     \* the children the adapter emits for each identity
  MaxStarts   \* bound: processes that execute the run, one after the other

TraverseAssumption ==
  /\ Parents \subseteq Nodes /\ MaxStarts \in Nat
  /\ Offers \in [Nodes -> SUBSET Nodes]

BEFORE == 0   \* sourced
HERE   == 1   \* the state of the traverse
NEXT   == 2   \* the state of the step after it

VARIABLES
  place,      \* run_records.state, -1 for no record
  segment,    \* identities with a traversed or coalesced event
  related,    \* relations: <<parent, child>>
  finished,   \* parents whose done event is written
  stops,      \* records with a fail verdict at the step after
  failed,     \* parents with a failed event
  phase,      \* the process: "dead", "traverse", "after"; "done" once it ended
  queue,      \* records it read as eligible and has not opened a session for
  emitting,   \* children a parent's session has still to emit
  open_at,    \* parents with a session
  starts,     \* processes so far
  \* history, for the properties
  dropped,    \* <<parent, child>>: refused, the parent's session went on
  absorbed,   \* parents a coalesce took past the traverse before their turn
  undone      \* <<parent, child>>: a coalesce moved the child back from the step after

tvars == <<place, segment, related, finished, failed, stops, phase, queue, emitting, open_at,
           starts, dropped, absorbed, undone>>

(* runStep's strict ordering: the previous step completed it.              *)
Eligible(prev, members) == {i \in members : place[i] = prev /\ i \notin stops}

Init ==
  /\ place = [i \in Nodes |-> IF i \in Parents THEN BEFORE ELSE -1]
  /\ segment = {} /\ related = {} /\ finished = {} /\ failed = {} /\ stops = {}
  /\ phase = "dead" /\ queue = {} /\ open_at = {}
  /\ emitting = [i \in Nodes |-> {}]
  /\ starts = 0
  /\ dropped = {} /\ absorbed = {} /\ undone = {}

Start ==
  /\ phase = "dead" /\ starts < MaxStarts
  /\ starts' = starts + 1
  /\ phase' = "traverse"
  /\ queue' = Eligible(BEFORE, Nodes)
  /\ UNCHANGED <<place, segment, related, finished, failed, stops, emitting, open_at, dropped,
                 absorbed, undone>>

(* One parent per session, the wire's parent attribution.                  *)
Open(p) ==
  /\ phase = "traverse" /\ p \in queue
  /\ queue' = queue \ {p}
  /\ open_at' = open_at \cup {p}
  /\ emitting' = [emitting EXCEPT ![p] = Offers[p]]
  /\ UNCHANGED <<place, segment, related, finished, failed, stops, phase, starts, dropped, absorbed,
                 undone>>

-----------------------------------------------------------------------------
(* applyTraverseRecord: the relation, then admitChild's two writes.  A cut *)
(* is a process killed after that many of them.                            *)

Gone ==
  /\ phase' = "dead" /\ queue' = {} /\ open_at' = {}
  /\ emitting' = [i \in Nodes |-> {}]

Emitted(p, c) ==
  /\ emitting' = [emitting EXCEPT ![p] = @ \ {c}]
  /\ UNCHANGED <<phase, queue, open_at>>

(* A record new to the run: run_records at the traverse, then the event.   *)
Join(p, c, cut) ==
  /\ c \in emitting[p] /\ place[c] = -1
  /\ related' = related \cup {<<p, c>>}
  /\ place' = IF cut >= 2 THEN [place EXCEPT ![c] = HERE] ELSE place
  /\ segment' = IF cut = 3 THEN segment \cup {c} ELSE segment
  /\ IF cut = 3 THEN Emitted(p, c) ELSE Gone
  /\ UNCHANGED <<finished, failed, stops, starts, dropped, absorbed, undone>>

(* The state a coalesced record is set to, wherever it stands.             *)
CoalescesTo(c) == HERE

(* A record of the run: the coalesced event, then its state.               *)
Coalesce(p, c, cut) ==
  /\ c \in emitting[p] /\ place[c] >= 0
  /\ related' = related \cup {<<p, c>>}
  /\ segment' = IF cut >= 2 THEN segment \cup {c} ELSE segment
  /\ place' = IF cut = 3 THEN [place EXCEPT ![c] = CoalescesTo(c)] ELSE place
  /\ undone' = IF cut = 3 /\ place[c] = NEXT THEN undone \cup {<<p, c>>} ELSE undone
  /\ absorbed' = IF cut = 3 /\ place[c] = BEFORE THEN absorbed \cup {c} ELSE absorbed
  /\ IF cut = 3 THEN Emitted(p, c) ELSE Gone
  /\ UNCHANGED <<finished, failed, stops, starts, dropped>>

(* failChild: the wrong type, no key, a refused field.                     *)
Drop(p, c) ==
  /\ c \in emitting[p]
  /\ dropped' = dropped \cup {<<p, c>>}
  /\ Emitted(p, c)
  /\ UNCHANGED <<place, segment, related, finished, failed, stops, starts, absorbed, undone>>

Emptied(p) == emitting[p] = {}

(* The session ended: the parent's done event, then its state.             *)
Finish(p, cut) ==
  /\ p \in open_at /\ Emptied(p)
  /\ finished' = finished \cup {p}
  /\ place' = IF cut = 2 THEN [place EXCEPT ![p] = HERE] ELSE place
  /\ IF cut = 2 THEN /\ open_at' = open_at \ {p}
                     /\ emitting' = [emitting EXCEPT ![p] = {}]
                     /\ UNCHANGED <<phase, queue>>
                ELSE Gone
  /\ UNCHANGED <<segment, related, failed, stops, starts, dropped, absorbed, undone>>

(* An ERROR or a crash of its session: the parent stays before the step.   *)
FailParent(p) ==
  /\ p \in open_at
  /\ failed' = failed \cup {p}
  /\ open_at' = open_at \ {p}
  /\ emitting' = [emitting EXCEPT ![p] = {}]
  /\ UNCHANGED <<place, segment, related, finished, stops, phase, queue, starts, dropped,
                 absorbed, undone>>

-----------------------------------------------------------------------------
(* Mutant of Segment: every record at the traverse's state goes on.        *)
SegmentOfAll == Nodes

(* segmentMembers: TraverseChildren.                                       *)
Segment == segment

After ==
  /\ phase = "traverse" /\ queue = {} /\ open_at = {}
  /\ phase' = "after"
  /\ queue' = Eligible(HERE, Segment)
  /\ UNCHANGED <<place, segment, related, finished, failed, stops, emitting, open_at, starts,
                 dropped, absorbed, undone>>

Advance(i) ==
  /\ phase = "after" /\ i \in queue
  /\ queue' = queue \ {i}
  /\ place' = [place EXCEPT ![i] = NEXT]
  /\ UNCHANGED <<segment, related, finished, failed, stops, phase, emitting, open_at, starts,
                 dropped, absorbed, undone>>

(* The step after is a filter that rejects the record.                     *)
Reject(i) ==
  /\ phase = "after" /\ i \in queue
  /\ queue' = queue \ {i}
  /\ stops' = stops \cup {i}
  /\ UNCHANGED <<place, segment, related, finished, failed, phase, emitting, open_at, starts,
                 dropped, absorbed, undone>>

(* Records that failed do not fail the run.                                *)
Done ==
  /\ phase = "after" /\ queue = {}
  /\ phase' = "done"
  /\ UNCHANGED <<place, segment, related, finished, failed, stops, queue, emitting, open_at,
                 starts, dropped, absorbed, undone>>

(* Killed, or a step broke: the run can be resumed.                        *)
Stop ==
  /\ phase \in {"traverse", "after"} /\ Gone
  /\ UNCHANGED <<place, segment, related, finished, failed, stops, starts, dropped, absorbed, undone>>

Next ==
  \/ Start \/ After \/ Done \/ Stop
  \/ \E p \in Nodes : Open(p) \/ FailParent(p) \/ (\E cut \in 1 .. 2 : Finish(p, cut))
  \/ \E p, c \in Nodes : Drop(p, c) \/ \E cut \in 1 .. 3 : Join(p, c, cut) \/ Coalesce(p, c, cut)
  \/ \E i \in Nodes : Advance(i) \/ Reject(i)

Spec == Init /\ [][Next]_tvars

-----------------------------------------------------------------------------
TypeOK ==
  /\ place \in [Nodes -> {-1, BEFORE, HERE, NEXT}]
  /\ segment \cup finished \cup failed \cup stops \cup queue \cup open_at \subseteq Nodes
  /\ related \cup dropped \cup undone \subseteq Nodes \X Nodes /\ absorbed \subseteq Nodes
  /\ phase \in {"dead", "traverse", "after", "done"}
  /\ emitting \in [Nodes -> SUBSET Nodes] /\ starts \in 0 .. MaxStarts

(* The leg after a traverse is its children and nobody else (SPEC.md:1031, *)
(* DECISIONS.md:4020), even when parents and children share a type, through *)
(* kills and resumes: who went on is related to a parent; every child of a *)
(* finished parent is there to go on; a sourced record past the traverse   *)
(* was finished there, or was taken past it, as somebody's child, before   *)
(* its own turn, and then nothing traverses it.                            *)
SegmentIsExact ==
  /\ \A i \in Nodes : (place[i] = NEXT \/ i \in stops) => \E p \in Nodes : <<p, i>> \in related
  /\ \A p \in finished : \A c \in Offers[p] : <<p, c>> \notin dropped =>
       c \in segment /\ place[c] >= HERE
  /\ \A i \in Parents : place[i] >= HERE => i \in finished \/ i \in absorbed

(* A record goes back to the traverse only when a resumed run dispatches a *)
(* parent again whose session failed before (DECISIONS.md:5674 has a       *)
(* coalesced record's state advancing): what it had completed is undone.   *)
OnlyRetriesUndo == \A e \in undone : e[1] \in failed /\ starts > 1

SegmentHolds == SegmentIsExact /\ OnlyRetriesUndo
=============================================================================
