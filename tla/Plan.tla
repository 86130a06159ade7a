--------------------------------- MODULE Plan ---------------------------------
(***************************************************************************)
(* What gtme plan accepts (internal/planner: ResolveStep, Build,           *)
(* CheckGroups; internal/pipeline: normalize) against what an armed run of *)
(* the accepted plan meets: the fields a record carries from step to step, *)
(* its type, leg by leg, and the groups that take it.                      *)
(*                                                                         *)
(* The author writes a step at a time and the walk judges it at once, as   *)
(* Build does; then one record is taken through the plan.  A step's text   *)
(* is reduced to the adapter it uses, the fields it names (uses:, of:,     *)
(* variables:, placeholders), the keys it sets, its gate and its group.    *)
(***************************************************************************)
EXTENDS Integers, Sequences, FiniteSets

CONSTANTS
  Types,      \* entity types
  Signals,    \* those that are found and traversed from, never delivered to
  Fields,     \* field names
  Uses,       \* what use: and source: group: may name
  Manifest,   \* of each: form, role, type, from, needs, branches, provides, open, native, dynamic
  Texts,      \* what an author writes: use, fields, declares, keys, group
  Terminus,   \* the pipeline's group:, "" for none
  Groups,     \* group names
  GroupTypes, \* the type of each before the run: "absent", "" (untyped) or a type
  MaxSteps    \* bound: steps, the source among them

NoType  == ""   \* entity-blind, or a group older than types
NoGroup == ""

(* Every manifest but a missing one declares a type or "*", and only a     *)
(* source is a group.                                                      *)
PlanAssumption ==
  /\ Signals \subseteq Types /\ Types \cap {NoType, "absent", "*"} = {} /\ MaxSteps \in Nat
  /\ DOMAIN Manifest = Uses
  /\ \A u \in Uses : LET m == Manifest[u] IN
       /\ m.needs \subseteq Fields /\ m.provides \subseteq Fields
       /\ m.form = "missing" \/ m.type \in Types \cup {"*"}
       /\ m.form = "group" => m.role = "source"
  /\ \A t \in Texts : /\ t.use \in Uses /\ t.fields \subseteq Fields /\ t.declares \subseteq Fields
                      /\ Manifest[t.use].form = "group" => t.group \in Groups
  /\ Terminus \in Groups \cup {NoGroup}
  /\ GroupTypes \in [Groups -> Types \cup {"absent", NoType}]

VARIABLES
  steps,      \* the resolved steps, the source first
  avail,      \* fields some earlier step of the leg provides
  wild,       \* plan.Wildcard: some earlier step's provides is open
  ptype,      \* the type of the current leg, "" when entity-blind
  leg,        \* its number
  stage,      \* "writing", "refused", "running", "over"
  \* the run of an accepted plan, one record at a time
  walked,     \* steps behind the record
  rtype,      \* its entity type
  has,        \* the fields it carries
  judged,     \* the steps that passed it with a verdict
  gtypes,     \* the groups, as the run creates them
  \* history, for the properties
  lacking,    \* a field a step missed on it, and where
  turned      \* a group that refused it, and for which type

pvars == <<steps, avail, wild, ptype, leg, stage,
           walked, rtype, has, judged, gtypes, lacking, turned>>

Init ==
  /\ steps = <<>> /\ avail = {} /\ wild = FALSE
  /\ ptype = NoType /\ leg = 0 /\ stage = "writing"
  /\ walked = 0 /\ rtype = NoType /\ has = {} /\ judged = {} /\ gtypes = GroupTypes
  /\ lacking = {} /\ turned = {}

-----------------------------------------------------------------------------
(* ResolveStep: a step's effective contract.                               *)

Man(t)         == Manifest[t.use]
IsSource       == steps = <<>>
Participant(t) == Man(t).form = "participant"
IsDeliver(t)   == Man(t).role = "deliver"
IsTraverse(t)  == Man(t).role = "traverse"
IsHandoff(t)   == Man(t).form = "handoff"
IsSQL(t)       == Man(t).form = "sql"
Unresolved(t)  == Man(t).form = "missing"

(* A handoff, a SQL step and an entity-agnostic manifest take the leg's    *)
(* type, a group source its group's.                                       *)
EntityType(t) ==
  IF Man(t).form = "group" THEN IF GroupTypes[t.group] = "absent" THEN NoType ELSE GroupTypes[t.group]
  ELSE IF Man(t).type = "*" THEN ptype ELSE Man(t).type
From(t) == IF IsSQL(t) THEN ptype ELSE Man(t).from

(* uses: replaces a participant's needs; variables: and of: join them; the *)
(* placeholders of a dynamic enrich step, the declared uses of a SQL step, *)
(* the variables of a handoff are all there is.                            *)
Required(t) ==
  IF (Participant(t) /\ t.fields # {}) \/ IsSQL(t) \/ IsHandoff(t)
       \/ (Man(t).dynamic /\ Man(t).role = "enrich")
    THEN t.fields
    ELSE Man(t).needs \cup (IF Man(t).dynamic THEN t.fields ELSE {})

(* A declaration replaces the manifest's shape; members of a group and the *)
(* children of sql/traverse are projected whole.                           *)
Provides(t) == IF t.declares # {} THEN t.declares ELSE Man(t).provides
Open(t)     == t.declares = {} /\ Man(t).open

(* The keys each kind of step reads: gateDeliverKeys, gateProvides, gateOf *)
(* and the checks around them refuse the rest.                             *)
Reads(t) ==
  CASE IsDeliver(t) -> {"record", "suppress", "idempotency", "on_missing"}
                         \cup (IF IsHandoff(t) \/ Man(t).dynamic THEN {"variables"} ELSE {})
                         \cup (IF Man(t).native THEN {"redeliver"} ELSE {})
    [] Participant(t) -> {"uses", "provides", "on_missing"}
                         \cup (IF Man(t).role = "filter" THEN {} ELSE {"of"})
    [] OTHER -> {}
(* ... which on these paths nobody looks at.                               *)
Unchecked(t) ==
  CASE Man(t).form = "group"  -> {"uses", "redeliver"}
    [] IsHandoff(t)           -> {"redeliver"}
    [] OTHER                  -> IF IsDeliver(t) THEN {} ELSE {"redeliver"}

ConfigProblem(t) ==
  \/ ~(t.keys \subseteq Reads(t) \cup Unchecked(t))
  \/ Man(t).role = "review" /\ ~({"provides", "of"} \subseteq t.keys)
  \/ IsHandoff(t) /\ t.group = NoGroup

(* Only the head is a source, and a source names its type and needs none.  *)
Misplaced(t) ==
  IF IsSource THEN Man(t).role # "source" \/ Man(t).needs # {} ELSE Man(t).role = "source"

-----------------------------------------------------------------------------
(* Build: the contract walk.                                               *)

(* A leg has one type; a traverse starts from it, and needs one.           *)
TypeProblem(t) ==
  ~IsSource /\ IF IsTraverse(t) THEN ptype = NoType \/ From(t) # ptype
                                ELSE ptype # NoType /\ EntityType(t) \notin {NoType, ptype}

(* Mutant of Known: a field stays available behind a traverse.             *)
KnownEverywhere(t) == UNION {Provides(steps[n].text) : n \in DOMAIN steps} \cup avail

(* The available set of the leg.                                           *)
Known(t) == avail

NeedsProblem(t) ==
  /\ ~IsSource /\ ~wild
  /\ \/ ~(Required(t) \subseteq Known(t))
     \/ Man(t).branches # {} /\ \A b \in Man(t).branches : ~(b \subseteq Known(t))

(* when: names an earlier step (normalize), of this leg, that judges.      *)
WhenProblem(w) ==
  w # 0 /\ (steps[w].leg # leg \/ Man(steps[w].text).role \notin {"filter", "none"})

(* The manifest's own type; "*" is no signal, whatever the leg is.          *)
SignalProblem(t) == IsDeliver(t) /\ Man(t).type \in Signals

Problem(t, w) ==
  \/ Unresolved(t) \/ ConfigProblem(t) \/ Misplaced(t) \/ TypeProblem(t)
  \/ NeedsProblem(t) \/ WhenProblem(w) \/ SignalProblem(t)

(* A traverse opens a leg of its output's type with what it provides.      *)
LegAfter(t) ==
  IF IsTraverse(t)
    THEN [type |-> EntityType(t), avail |-> Provides(t), leg |-> leg + 1]
    ELSE [type |-> IF IsSource THEN EntityType(t) ELSE ptype,
          avail |-> avail \cup Provides(t), leg |-> leg]

(* Build goes on behind a problem, to report them all in one pass; what it *)
(* then finds changes nothing: the plan is refused.                        *)
Refuse(t, w) ==
  /\ stage = "writing" /\ Len(steps) < MaxSteps
  /\ w <= Len(steps) /\ Problem(t, w)
  /\ stage' = "refused"
  /\ UNCHANGED <<steps, avail, wild, ptype, leg, walked, rtype, has, judged, gtypes,
                 lacking, turned>>

WriteStep(t, w) ==
  /\ stage = "writing" /\ Len(steps) < MaxSteps
  /\ w <= Len(steps) /\ ~Problem(t, w)
  /\ steps' = Append(steps, [text |-> t, when |-> w, leg |-> leg, type |-> EntityType(t),
                             opens |-> Open(t)])
  /\ LET next == LegAfter(t)
     IN ptype' = next.type /\ avail' = next.avail /\ leg' = next.leg
  /\ wild' = (wild \/ Open(t))
  /\ UNCHANGED <<stage, walked, rtype, has, judged, gtypes, lacking, turned>>

-----------------------------------------------------------------------------
(* CheckGroups: the source's group exists; the terminus and every handoff  *)
(* are checked against a group that has a type already.                    *)
Clashes(group, type) ==
  GroupTypes[group] \notin {"absent", NoType} /\ type \notin {NoType, GroupTypes[group]}
GroupProblem ==
  \/ \E n \in DOMAIN steps : Man(steps[n].text).form = "group"
       /\ GroupTypes[steps[n].text.group] = "absent"
  \/ Terminus # NoGroup /\ Clashes(Terminus, ptype)
  \/ \E n \in DOMAIN steps : IsHandoff(steps[n].text)
       /\ Clashes(steps[n].text.group, steps[n].type)

(* gtme run: planned, checked, armed.                                      *)
Submit ==
  /\ stage = "writing" /\ Len(steps) > 1
  /\ stage' = IF ~GroupProblem THEN "running" ELSE "refused"
  /\ UNCHANGED <<steps, avail, wild, ptype, leg, walked, rtype, has,
                 judged, gtypes, lacking, turned>>

-----------------------------------------------------------------------------
(* The run.                                                                *)

Frame == UNCHANGED <<steps, avail, wild, ptype, leg>>
At    == walked + 1
Here  == steps[At]

(* The source: an adapter's record, or a member of the group, of any type  *)
(* when the group has none.                                                *)
Sourced(type, fields) ==
  /\ stage = "running" /\ walked = 0
  /\ type = Here.type \/ (Here.type = NoType /\ type \in Types)
  /\ fields \subseteq (IF Here.opens THEN Fields ELSE Provides(Here.text))
  /\ walked' = 1 /\ rtype' = type /\ has' = fields
  /\ UNCHANGED <<stage, judged, gtypes, lacking, turned>> /\ Frame

(* EnsureGroup: created with the step's type, or refused for it.           *)
Takes(group, type) == gtypes[group] \in {"absent", NoType, type} \/ type = NoType
Join(group, type) ==
  /\ gtypes' = IF gtypes[group] = "absent" THEN [gtypes EXCEPT ![group] = type] ELSE gtypes
  /\ turned' = IF Takes(group, type) THEN turned ELSE turned \cup {<<group, type>>}

Arriving == stage = "running" /\ walked \in 1 .. Len(steps) - 1
Gated    == Here.when # 0 /\ Here.when \notin judged

(* A gate holds the record; a need it lacks fails it, or it is a withheld  *)
(* send, or a participant that works with what there is.                   *)
Missed ==
  /\ Arriving /\ ~Gated /\ ~(Required(Here.text) \subseteq has)
  /\ lacking' = lacking \cup {<<f, At>> : f \in Required(Here.text) \ has}
  /\ stage' = "over"
  /\ UNCHANGED <<walked, rtype, has, judged, gtypes, turned>> /\ Frame

Held == Arriving /\ Gated /\ stage' = "over"
        /\ UNCHANGED <<walked, rtype, has, judged, gtypes, lacking, turned>> /\ Frame

Ready(role) == Arriving /\ ~Gated /\ Required(Here.text) \subseteq has
               /\ Man(Here.text).role \in role

(* Some of what the step provides, every field being optional.             *)
Works(fields) ==
  /\ Ready({"enrich", "compose", "review"})
  /\ fields \subseteq (IF Here.opens THEN Fields ELSE Provides(Here.text))
  /\ has' = has \cup fields /\ walked' = At
  /\ UNCHANGED <<stage, rtype, judged, gtypes, lacking, turned>> /\ Frame

Judges(pass) ==
  /\ Ready({"filter"})
  /\ judged' = IF pass THEN judged \cup {At} ELSE judged
  /\ walked' = At
  /\ stage' = IF pass THEN stage ELSE "over"
  /\ UNCHANGED <<rtype, has, gtypes, lacking, turned>> /\ Frame

(* A child of the record: what the adapter emitted, or an identity whole.  *)
Traverses(fields) ==
  /\ Ready({"traverse"})
  /\ fields \subseteq (IF Here.opens THEN Fields ELSE Provides(Here.text))
  /\ rtype' = Here.type /\ has' = fields /\ judged' = {} /\ walked' = At
  /\ UNCHANGED <<stage, gtypes, lacking, turned>> /\ Frame

(* A send, then its touch in the pipeline's own scope; a handoff joins.    *)
Delivers(group) ==
  /\ Ready({"deliver"})
  /\ group = (IF IsHandoff(Here.text) THEN Here.text.group ELSE "touched")
  /\ Join(group, Here.type)
  /\ walked' = At
  /\ stage' = IF Takes(group, Here.type) THEN stage ELSE "over"
  /\ UNCHANGED <<rtype, has, judged, lacking>> /\ Frame

(* The terminus takes the type of the last leg.                            *)
Ends ==
  /\ stage = "running" /\ walked = Len(steps)
  /\ stage' = "over"
  /\ IF Terminus = NoGroup THEN UNCHANGED <<gtypes, turned>> ELSE Join(Terminus, ptype)
  /\ UNCHANGED <<walked, rtype, has, judged, lacking>> /\ Frame

Next ==
  \/ \E t \in Texts, w \in 0 .. MaxSteps : WriteStep(t, w) \/ Refuse(t, w)
  \/ Submit \/ Missed \/ Held \/ Ends
  \/ \E type \in Types, fields \in SUBSET Fields : Sourced(type, fields)
  \/ \E fields \in SUBSET Fields : Works(fields) \/ Traverses(fields)
  \/ \E pass \in BOOLEAN : Judges(pass)
  \/ \E group \in Groups : Delivers(group)

Spec == Init /\ [][Next]_pvars

-----------------------------------------------------------------------------
TypeOK ==
  /\ stage \in {"writing", "refused", "running", "over"}
  /\ Len(steps) <= MaxSteps /\ walked \in 0 .. Len(steps) /\ judged \subseteq DOMAIN steps
  /\ avail \subseteq Fields /\ has \subseteq Fields /\ wild \in BOOLEAN
  /\ ptype \in Types \cup {NoType} /\ rtype \in Types \cup {NoType} /\ leg \in 0 .. Len(steps)
  /\ gtypes \in [Groups -> Types \cup {"absent", NoType}]
  /\ lacking \subseteq Fields \X (1 .. MaxSteps) /\ turned \subseteq Groups \X Types

(* The leg of step n, up to it, and what its steps promise.                *)
Before(n)   == {m \in 1 .. n - 1 : steps[m].leg = steps[n].leg}
Opening(n)  == {m \in 1 .. n - 1 : steps[m].leg = steps[n].leg - 1 /\ IsTraverse(steps[m].text)
                                     /\ \A k \in m + 1 .. n - 1 : steps[k].leg = steps[n].leg}
Writers(n)  == Before(n) \cup Opening(n)

(* A field a record misses at a step of an accepted plan is one that some  *)
(* step of its own leg, or the traverse that opened it, promised and left  *)
(* out (planner.go:453): nothing is spent to find out that nobody writes   *)
(* it.  Waived where any earlier step is open, were it in another leg: a   *)
(* traverse resets the available set, and leaves plan.Wildcard as it is.   *)
NeedsHaveAWriter == \A e \in lacking :
  \/ \E m \in Writers(e[2]) : e[1] \in Provides(steps[m].text)
  \/ \E m \in 1 .. e[2] - 1 : steps[m].opens

(* Every step of an accepted plan meets records of the type it was         *)
(* validated for, leg after leg, unless the pipeline is entity-blind       *)
(* (planner.go:418).                                                       *)
TypesHold == stage = "running" /\ walked \in 1 .. Len(steps) - 1 =>
  LET m == Man(Here.text)
  IN steps[1].type # NoType =>
       IF m.role = "traverse" THEN m.form = "sql" \/ m.from = rtype
                              ELSE m.type \in {"*", rtype}

(* What an accepted plan promised of types and fields holds when it runs.  *)
PlanHolds == NeedsHaveAWriter /\ TypesHold

(* planner.go:2: the contracts are validated before anything is spent.  No *)
(* group turns away what an accepted plan brings it (SPEC.md:1035: a       *)
(* deliver step may sit in any leg).                                       *)
GroupsAdmit == turned = {}
=============================================================================
