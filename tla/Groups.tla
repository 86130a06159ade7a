-------------------------------- MODULE Groups -------------------------------
(***************************************************************************)
(* One group of the ledger, as internal/ledger/groups.go keeps it and as   *)
(* its writers use it at the same time: a run's handoff or terminus (get   *)
(* or create the group, read the membership, append an added event for who *)
(* is missing), gtme groups add and remove.  Every ledger call is one      *)
(* step: between two calls another process moves.                          *)
(***************************************************************************)
EXTENDS Integers, FiniteSets, SequencesExt

CONSTANTS
  Writers,    \* processes that edit the membership
  Members,    \* identities
  TypeOf,     \* the entity type of each
  Legacy,     \* who may be a member of a group older than types
  MaxTrail    \* bound: membership events

EntityTypes == {TypeOf[i] : i \in Members}
GroupsAssumption ==
  /\ EntityTypes \cap {"absent", "untyped"} = {}
  /\ Legacy \subseteq Members /\ IsFiniteSet(Legacy)
  /\ MaxTrail \in Nat /\ Cardinality(Legacy) <= MaxTrail

VARIABLES
  gtype,      \* groups.entity_type: "absent" (no group), "untyped", or a type
  trail,      \* its added and removed events, oldest first
  writer,     \* what each writer is doing
  \* history, for the properties
  mixed,      \* a type was set on a group that had members, or while one joined
  raced       \* members two writers edited at once

gvars == <<gtype, trail, writer, mixed, raced>>

(* The view group_members: the newest added or removed event is an added.  *)
NewestOf(i) == LET at == {n \in DOMAIN trail : trail[n].id = i}
               IN IF at = {} THEN "none" ELSE trail[CHOOSE n \in at : \A m \in at : m <= n].event
Membership == {i \in Members : NewestOf(i) = "added"}

Idle     == [pc |-> "idle", event |-> "none", type |-> "none", ids |-> {}, view |-> {}]
Editing(w, i) == writer[w].pc \in {"edit", "admit"} /\ i \in writer[w].ids

Init ==
  /\ gtype = "absent"
  /\ trail = <<>>
  /\ writer = [w \in Writers |-> Idle]
  /\ mixed = FALSE /\ raced = {}

Go(w, st) == writer' = [writer EXCEPT ![w] = st]

(* The group is older than ADR-054: untyped, its members of any type.      *)
Migrated(ids) ==
  /\ gtype = "absent" /\ trail = <<>> /\ ids # {}
  /\ \A w \in Writers : writer[w] = Idle
  /\ gtype' = "untyped"
  /\ trail' = SetToSeq({[id |-> i, event |-> "added"] : i \in ids})
  /\ UNCHANGED <<writer, mixed, raced>>

-----------------------------------------------------------------------------
(* Adding: a handoff, a terminus, gtme groups add.                         *)

(* EnsureGroup's GetGroup, for records of type t.  An existing group of    *)
(* another type refuses.                                                   *)
Ensure(w, t, ids) ==
  /\ writer[w].pc = "idle"
  /\ ids # {} /\ \A i \in ids : TypeOf[i] = t
  /\ gtype \in {"absent", "untyped", t}
  /\ Go(w, [pc |-> IF gtype = "absent" THEN "insert" ELSE "read",
            event |-> "added", type |-> t, ids |-> ids, view |-> {}])
  /\ UNCHANGED <<gtype, trail, mixed, raced>>

(* INSERT ... ON CONFLICT DO NOTHING, then the row read back: whoever      *)
(* lost the conflict goes on with a group whose type nobody compares.      *)
Insert(w) ==
  /\ writer[w].pc = "insert"
  /\ gtype' = IF gtype = "absent" THEN writer[w].type ELSE gtype
  /\ Go(w, [writer[w] EXCEPT !.pc = "read"])
  /\ UNCHANGED <<trail, mixed, raced>>

(* groups add NAME --type: SetGroupType, once, on an untyped group.        *)
SetType(w) ==
  /\ writer[w].pc = "read" /\ writer[w].event = "added"
  /\ gtype = "untyped"
  /\ gtype' = writer[w].type
  /\ mixed' = (mixed \/ (\E i \in Membership : TypeOf[i] # writer[w].type)
                     \/ \E v \in Writers : writer[v].pc = "admit")
  /\ UNCHANGED <<trail, writer, raced>>

(* Who the edit would change.                                              *)
Left(w) == IF writer[w].event = "added" THEN writer[w].ids \ Membership
                                        ELSE writer[w].ids \cap Membership

(* GroupMembership: what the edits that follow compare with.               *)
ReadMembers(w) ==
  /\ writer[w].pc = "read"
  /\ LET left == Left(w)
     IN Go(w, IF left = {} THEN Idle
              ELSE [writer[w] EXCEPT !.pc = "edit", !.ids = left, !.view = Membership])
  /\ UNCHANGED <<gtype, trail, mixed, raced>>

(* Mutant of Admits: the type was compared when the group was got.         *)
AdmitsAnybody(i) == TRUE

(* AddGroupEvent: a typed group admits members of its type only.           *)
Admits(i) == gtype = "untyped" \/ gtype = TypeOf[i]

(* AddGroupEvent's SELECT; a refusal ends the writer's command.            *)
CheckType(w, i) ==
  /\ writer[w].pc = "edit" /\ writer[w].event = "added" /\ i \in writer[w].ids
  /\ Go(w, IF Admits(i) THEN [writer[w] EXCEPT !.pc = "admit", !.view = {i}] ELSE Idle)
  /\ UNCHANGED <<gtype, trail, mixed, raced>>

Append1(w, i, event) ==
  /\ Len(trail) < MaxTrail
  /\ trail' = Append(trail, [id |-> i, event |-> event])
  /\ raced' = IF \E v \in Writers \ {w} : Editing(v, i) THEN raced \cup {i} ELSE raced
  /\ Go(w, IF writer[w].ids = {i} THEN Idle
           ELSE [writer[w] EXCEPT !.pc = "edit", !.ids = @ \ {i}, !.view = {}])
  /\ UNCHANGED <<gtype, mixed>>

AddMember(w, i) ==
  writer[w].pc = "admit" /\ i \in writer[w].view /\ Append1(w, i, "added")
RemoveMember(w, i) ==
  /\ writer[w].pc = "edit" /\ writer[w].event = "removed"
  /\ i \in writer[w].ids /\ Append1(w, i, "removed")

(* gtme groups remove: GetGroup, then the same edits.                      *)
StartRemove(w, ids) ==
  /\ writer[w].pc = "idle" /\ ids # {} /\ gtype # "absent"
  /\ Cardinality({TypeOf[i] : i \in ids}) = 1
  /\ \A i \in ids : gtype \in {"untyped", TypeOf[i]}
  /\ Go(w, [pc |-> "read", event |-> "removed", type |-> "none", ids |-> ids, view |-> {}])
  /\ UNCHANGED <<gtype, trail, mixed, raced>>

(* Killed, refused or an error: what it wrote stays.  (gtme groups add     *)
(* does compare the type of the group it read back.)                       *)
Abandon(w) ==
  /\ writer[w].pc # "idle"
  /\ Go(w, Idle)
  /\ UNCHANGED <<gtype, trail, mixed, raced>>

-----------------------------------------------------------------------------
Next ==
  \/ \E ids \in SUBSET Legacy : Migrated(ids)
  \/ \E w \in Writers :
       \/ \E t \in EntityTypes, ids \in SUBSET Members : Ensure(w, t, ids)
       \/ \E ids \in SUBSET Members : StartRemove(w, ids)
       \/ Insert(w) \/ SetType(w) \/ ReadMembers(w) \/ Abandon(w)
       \/ \E i \in Members : CheckType(w, i) \/ AddMember(w, i) \/ RemoveMember(w, i)

Spec == Init /\ [][Next]_gvars

-----------------------------------------------------------------------------
TypeOK ==
  /\ gtype \in {"absent", "untyped"} \cup EntityTypes
  /\ trail \in BoundedSeq([id : Members, event : {"added", "removed"}], MaxTrail)
  /\ writer \in [Writers -> [pc : {"idle", "insert", "read", "edit", "admit"},
                             event : {"none", "added", "removed"},
                             type : {"none"} \cup EntityTypes,
                             ids : SUBSET Members, view : SUBSET Members]]
  /\ mixed \in BOOLEAN /\ raced \subseteq Members

(* A typed group holds members of its type only (ADR-054), whatever        *)
(* creators of other types ran at once: EnsureGroup's loser goes on        *)
(* unchecked (groups.go:96-107) and AddGroupEvent alone stops it.  A group *)
(* older than types may have members of any when --type is set.            *)
Homogeneous == gtype \in EntityTypes /\ ~mixed =>
  \A i \in Membership : TypeOf[i] = gtype

(* The trail stays clean (runner.go:614, cli/groups.go:228): a member is   *)
(* not added again nor an outsider removed, unless two writers edited it   *)
(* at once, each on the membership it had read.                            *)
TrailAlternates == \A i \in Members \ raced : \A m, n \in DOMAIN trail :
  /\ m < n /\ trail[m].id = i /\ trail[n].id = i
  /\ \A l \in DOMAIN trail : m < l /\ l < n => trail[l].id # i
  => trail[m].event # trail[n].event

BookHolds == Homogeneous /\ TrailAlternates
=============================================================================
