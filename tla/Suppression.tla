------------------------------ MODULE Suppression ------------------------------
(***************************************************************************)
(* Deliver steps of several runs with suppress: and record: on one group:  *)
(* prepare reads the newest touched event before a send, the session sends,*)
(* advance appends a touched event after it.  Between the two the other    *)
(* runs go on, and a process may die.                                      *)
(***************************************************************************)
EXTENDS Integers, FiniteSets

CONSTANTS
  Senders,    \* deliver steps of runs that execute
  Contacts,   \* identities
  Window,     \* the suppression window, in ticks
  MaxClock    \* bound: ticks

SuppressionAssumption == Window \in Nat /\ MaxClock \in Nat

VARIABLES
  sender,     \* what each sender is doing
  clock,      \* now
  touched,    \* the times of the touched events of each contact
  \* history, for the property
  shots,      \* the times a send to each contact left
  unseen      \* contacts sent to while another send had not been recorded

spvars == <<sender, clock, touched, shots, unseen>>

Resting  == [pc |-> "idle", id |-> "none"]

Init ==
  /\ sender = [q \in Senders |-> Resting]
  /\ clock = 0
  /\ touched = [i \in Contacts |-> {}]
  /\ shots = [i \in Contacts |-> {}]
  /\ unseen = {}

Tick ==
  /\ clock < MaxClock
  /\ clock' = clock + 1
  /\ UNCHANGED <<sender, touched, shots, unseen>>

(* Mutant of Suppressed: the edge of the window sends.                     *)
SuppressedInside(i) == \E t \in touched[i] : clock - t < Window

(* suppress: !ok || age > SuppressWithin sends.                            *)
Suppressed(i) == \E t \in touched[i] : clock - t <= Window

(* prepare: not suppressed, so the record goes to a session.               *)
Prepare(q, i) ==
  /\ sender[q].pc = "idle" /\ ~Suppressed(i)
  /\ sender' = [sender EXCEPT ![q] = [pc |-> "send", id |-> i]]
  /\ unseen' = IF \E p \in Senders : sender[p].id = i THEN unseen \cup {i} ELSE unseen
  /\ UNCHANGED <<clock, touched, shots>>

Send(q) ==
  /\ sender[q].pc = "send"
  /\ shots' = [shots EXCEPT ![sender[q].id] = @ \cup {clock}]
  /\ sender' = [sender EXCEPT ![q].pc = "touch"]
  /\ UNCHANGED <<clock, touched, unseen>>

(* advance's AddGroupEvent(touched): it names the send a while after it.   *)
Touch(q) ==
  /\ sender[q].pc = "touch"
  /\ touched' = [touched EXCEPT ![sender[q].id] = @ \cup {clock}]
  /\ sender' = [sender EXCEPT ![q] = Resting]
  /\ UNCHANGED <<clock, shots, unseen>>

(* A kill or a failed session: a send that left may stay untouched.        *)
Drop(q) ==
  /\ sender[q].pc # "idle"
  /\ unseen' = unseen \cup {sender[q].id}
  /\ sender' = [sender EXCEPT ![q] = Resting]
  /\ UNCHANGED <<clock, touched, shots>>

Next == Tick \/ \E q \in Senders :
  (\E i \in Contacts : Prepare(q, i)) \/ Send(q) \/ Touch(q) \/ Drop(q)

Spec == Init /\ [][Next]_spvars

TypeOK ==
  /\ sender \in [Senders -> [pc : {"idle", "send", "touch"}, id : Contacts \cup {"none"}]]
  /\ clock \in 0 .. MaxClock
  /\ touched \in [Contacts -> SUBSET (0 .. clock)] /\ shots \in [Contacts -> SUBSET (0 .. clock)]
  /\ unseen \subseteq Contacts

(* No two sends to a member leave within the window (ADR-021), unless one  *)
(* was still unrecorded when the other was prepared, or was never recorded *)
(* at all: the window is closed by the event written after the send.       *)
WindowHolds == \A i \in Contacts \ unseen :
  \A s, t \in shots[i] : s < t => t - s > Window
=============================================================================
