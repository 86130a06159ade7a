----------------------------- MODULE Instantly ------------------------------
(***************************************************************************)
(* instantly/add-to-campaign (internal/adapters/instantly) behind a        *)
(* deliver step: every session begins with a preflight that reads the      *)
(* campaign and holds it against the step's variables; then each record    *)
(* becomes a lead, is acknowledged, and is read again to attest what       *)
(* Instantly stored of it.                                                 *)
(*                                                                         *)
(* A text is the set of the merge fields in it: custom variables by their  *)
(* names, the tags of a lead's own fields ({{firstName}}) by the field. A  *)
(* value of a lead is the ledger field it was taken from. Instantly, the   *)
(* people who edit the campaign and the network are external.              *)
(***************************************************************************)
EXTENDS Integers, Sequences, FiniteSets

CONSTANTS
  Records,     \* the records of the step
  Values,      \* Values[r][field]: "text", "number" or "blank"
  Mappings,    \* what variables: may say: functions from targets to ledger fields
  LeadField,   \* LeadField[target]: the field of the lead it fills, or Custom
  StepIndex,   \* StepIndex[target]: the N of a name <x>_step_N, or 0
  CheckedTags, \* lead fields whose tag preflight looks for; job_title is none
  Campaigns,   \* [status, steps]: what the campaign may be; a step is its variants
  Rooms,       \* leads the workspace may have room for
  MaxSessions, \* bound: sessions of the step
  MaxLost,     \* bound: answers lost
  MaxEdits     \* bound: edits of the campaign

VARIABLES
  mapping,  \* the step's variables:
  checks,   \* preflight is not switched off
  skip,     \* skip_if_in_campaign
  campaign, \* as it is now
  room,     \* leads the workspace still takes
  leads,    \* the campaign's leads: [of, sent, stored, under]
  phase,    \* of the step
  seen,     \* the campaign as the session's preflight read it
  at,       \* the record being sent and what was made of it
  acked,    \* records acknowledged
  attested, \* attested[r]: the verdict about its lead
  sessions, lost, edits \* counted

instantlyVars == <<mapping, checks, skip, campaign, room, leads, phase, seen, at, acked,
                   attested, sessions, lost, edits>>

Custom == "custom"
Nothing == <<>>
Unread == [status |-> "unread", steps |-> Nothing]
Nobody == [record |-> "none", sent |-> Nothing, lead |-> 0]

\* What may be read of a campaign: a step of it is a variant or more, a
\* variant the texts' merge fields.
Readable(statuses) == [status : statuses, steps : Seq(Seq(SUBSET STRING))]

InstantlyAssumption ==
  /\ "none" \notin Records /\ Custom \notin CheckedTags
  /\ \A m \in Mappings : DOMAIN m \subseteq DOMAIN LeadField \cap DOMAIN StepIndex
  /\ \A r \in Records : \A m \in Mappings : \A t \in DOMAIN m : m[t] \in DOMAIN Values[r]
  /\ \A t \in DOMAIN StepIndex : StepIndex[t] \in Nat
  /\ Campaigns \subseteq Readable({"active", "paused"})
  /\ {MaxSessions, MaxLost, MaxEdits} \cup Rooms \subseteq Nat

Init ==
  /\ mapping \in Mappings /\ checks \in BOOLEAN /\ skip \in BOOLEAN
  /\ campaign \in Campaigns /\ room \in Rooms
  /\ \E before \in {{}} \cup {{r} : r \in Records} :
       leads = [i \in 1..Cardinality(before) |->
         [of |-> CHOOSE r \in before : TRUE, sent |-> Nothing, stored |-> Nothing, under |-> Unread]]
  /\ phase = "planned" /\ seen = Unread /\ at = Nobody
  /\ acked = {} /\ attested = [r \in Records |-> "none"]
  /\ sessions = 0 /\ lost = 0 /\ edits = 0

-----------------------------------------------------------------------------
(* The mapping and the campaign.                                           *)
Slot(t) == IF LeadField[t] = Custom THEN t ELSE LeadField[t]
Fills(f) == \E t \in DOMAIN mapping : LeadField[t] = f
Customs == {t \in DOMAIN mapping : LeadField[t] = Custom}

\* parseConfig: one lead field, one target.
OneTargetEach == \A t, u \in DOMAIN mapping : Slot(t) = Slot(u) => t = u

\* resolveVariables and holdMissing: the runner sends whoever has a value
\* that is not blank for every target; a number is such a value.
Dealt == {r \in Records : \A t \in DOMAIN mapping : Values[r][mapping[t]] # "blank"}

\* addLead takes the text values only. Of two targets of one lead field the
\* order of a map decides.
Bodies(r) ==
  LET said == {t \in DOMAIN mapping : Values[r][mapping[t]] = "text"} IN
  {body \in [{Slot(t) : t \in said} -> {mapping[t] : t \in said}] :
     \A s \in DOMAIN body : \E t \in said : Slot(t) = s /\ body[s] = mapping[t]}

Carries(text, x) == x \in text
InStep(c, n, x)  == \E v \in DOMAIN c.steps[n] : Carries(c.steps[n][v], x)
Referenced(c, x) == \E n \in DOMAIN c.steps : InStep(c, n, x)

\* A step's own copy is missing from one of its variants.
VariantLacks(c, t) ==
  LET n == StepIndex[t] IN
  /\ n \in DOMAIN c.steps /\ Len(c.steps[n]) > 1
  /\ \E v \in DOMAIN c.steps[n] : ~Carries(c.steps[n][v], t)

\* The readable facts that block; an unreadable sequence has no steps.
Blocked(c) ==
  \/ c.status = "paused"
  \/ /\ c.steps # Nothing
     /\ \/ \E t \in DOMAIN mapping : StepIndex[t] > Len(c.steps)
        \/ \E t \in Customs : ~Referenced(c, t) \/ VariantLacks(c, t)
        \/ \E f \in CheckedTags : Referenced(c, f) /\ ~Fills(f)

Unreadable(c) == c.status = "unread" \/ c.steps = Nothing

\* Mutant of Verdict: what could not be read comes first.
VerdictUnread(c) ==
  IF Unreadable(c) THEN "inconclusive" ELSE IF Blocked(c) THEN "blocked" ELSE "ok"

\* preflight: a block stands, whatever else could not be read.
Verdict(c) ==
  IF Blocked(c) THEN "blocked" ELSE IF Unreadable(c) THEN "inconclusive" ELSE "ok"

\* getCampaign: the answer carries the campaign, parts of it, or is none.
Readings ==
  {campaign, [campaign EXCEPT !.status = "unread"], [campaign EXCEPT !.steps = Nothing], Unread}

-----------------------------------------------------------------------------
\* The step's first session is the preflight's; a mapping the adapter cannot
\* honour is refused at OPEN, with preflight or without.
Preflight ==
  /\ phase = "planned" /\ sessions < MaxSessions
  /\ sessions' = sessions + 1
  /\ IF ~OneTargetEach
     THEN phase' = "refused" /\ seen' = Unread
     ELSE IF checks
     THEN \E c \in Readings :
            /\ seen' = c
            /\ phase' = IF Verdict(c) = "blocked" THEN "blocked" ELSE "sending"
     ELSE phase' = "sending" /\ seen' = Unread
  /\ UNCHANGED <<mapping, checks, skip, campaign, room, leads, at, acked, attested, lost, edits>>

Known(r) == {i \in DOMAIN leads : leads[i].of = r}
Asked == at.record \in Records

\* addLead: a record is taken up, its request built.
TakeUp(r) ==
  /\ phase = "sending" /\ ~Asked /\ r \in Dealt \ acked
  /\ \E body \in Bodies(r) : at' = [record |-> r, sent |-> body, lead |-> 0]
  /\ UNCHANGED <<mapping, checks, skip, campaign, room, leads, phase, seen, acked, attested,
                 sessions, lost, edits>>

\* Instantly takes the lead, whole or without one value, unless it is to
\* skip one the campaign has. The answer names the lead or does not.
Answered(lead) ==
  /\ acked' = acked \cup {at.record} /\ at' = [at EXCEPT !.lead = lead]
  /\ UNCHANGED <<phase, lost>>

\* The answer is lost: httpx sends the request again, or gives up, which
\* ends the session.
Lost ==
  /\ lost < MaxLost /\ lost' = lost + 1
  /\ \/ UNCHANGED <<phase, at>>
     \/ phase' = "failed" /\ at' = Nobody
  /\ UNCHANGED acked

Post ==
  /\ phase = "sending" /\ Asked /\ at.record \notin acked
  /\ IF skip /\ Known(at.record) # {}
     THEN /\ UNCHANGED <<leads, room>>
          /\ Lost \/ \E lead \in Known(at.record) \cup {0} : Answered(lead)
     ELSE /\ room > 0 /\ room' = room - 1
          /\ \E gone \in {{}} \cup {{s} : s \in DOMAIN at.sent} :
               leads' = Append(leads, [of |-> at.record, sent |-> at.sent, under |-> seen,
                 stored |-> [s \in DOMAIN at.sent \ gone |-> at.sent[s]]])
          /\ Lost \/ \E lead \in {Len(leads) + 1, 0} : Answered(lead)
  /\ UNCHANGED <<mapping, checks, skip, campaign, seen, attested, sessions, edits>>

\* The workspace is full: ERROR fail_run, and the session exits.
LeadLimit ==
  /\ phase = "sending" /\ Asked /\ at.record \notin acked
  /\ room = 0 /\ ~(skip /\ Known(at.record) # {})
  /\ phase' = "stopped" /\ at' = Nobody
  /\ UNCHANGED <<mapping, checks, skip, campaign, room, leads, seen, acked, attested, sessions,
                 lost, edits>>

\* compareLead: what the read carries, slot by slot.
Compare(lead, readable) ==
  IF \E s \in DOMAIN at.sent \cap readable :
       s \notin DOMAIN lead.stored \/ lead.stored[s] # at.sent[s]
    THEN "contradicted"
  ELSE IF DOMAIN at.sent \subseteq readable THEN "confirmed" ELSE "inconclusive"

\* attest: no id to read, the read fails, or it carries some of the fields.
Attest ==
  /\ phase = "sending" /\ Asked /\ at.record \in acked
  /\ \E verdict \in {"inconclusive"} \cup
         (IF at.lead = 0 THEN {}
          ELSE {Compare(leads[at.lead], readable) : readable \in SUBSET DOMAIN at.sent}) :
       attested' = [attested EXCEPT ![at.record] = verdict]
  /\ at' = Nobody
  /\ UNCHANGED <<mapping, checks, skip, campaign, room, leads, phase, seen, acked, sessions,
                 lost, edits>>

\* The step is over; a resume runs it again, from the preflight on.
Over ==
  /\ phase = "sending" /\ ~Asked /\ Dealt \subseteq acked /\ phase' = "done"
  /\ UNCHANGED <<mapping, checks, skip, campaign, room, leads, seen, at, acked, attested,
                 sessions, lost, edits>>

Resume ==
  /\ phase \in {"blocked", "failed", "stopped"} /\ phase' = "planned"
  /\ UNCHANGED <<mapping, checks, skip, campaign, room, leads, seen, at, acked, attested,
                 sessions, lost, edits>>

\* Only a preflight reads the campaign: an edit is made before one.
Edit ==
  /\ phase = "planned" /\ edits < MaxEdits /\ edits' = edits + 1
  /\ \E c \in Campaigns \ {campaign} : campaign' = c
  /\ UNCHANGED <<mapping, checks, skip, room, leads, phase, seen, at, acked, attested, sessions,
                 lost>>

Next ==
  \/ Preflight \/ Post \/ LeadLimit \/ Attest \/ Over \/ Resume \/ Edit
  \/ \E r \in Records : TakeUp(r)

Spec == Init /\ [][Next]_instantlyVars

-----------------------------------------------------------------------------
(* Properties.                                                             *)

TypeOK ==
  /\ mapping \in Mappings /\ {checks, skip} \subseteq BOOLEAN /\ campaign \in Campaigns
  /\ room \in Nat /\ at.record \in Records \cup {"none"} /\ at.lead \in 0..Len(leads)
  /\ phase \in {"planned", "refused", "blocked", "sending", "failed", "stopped", "done"}
  /\ acked \subseteq Records /\ sessions \in 0..MaxSessions
  /\ attested \in [Records -> {"none", "confirmed", "contradicted", "inconclusive"}]

\* The copy of step n is in an email of another step, and step n has one
\* text: preflight lets it pass (SPEC.md:2231 says no variant lacks it).
Elsewhere(c, t) == Len(c.steps[StepIndex[t]]) = 1 /\ Referenced(c, t)

\* A value that is no text is held to be there and is not sent
\* (http.go:112, step.go:696).
NotText(r, x) == \E t \in DOMAIN mapping : Slot(t) = x /\ Values[r][mapping[t]] # "text"

\* instantly.go:311: nobody is mailed an email with a hole in it. A lead is
\* added only to a campaign that, as far as its session's preflight could
\* read it, was active, and in which every email's merge fields, those of the
\* lead's own fields and those the step maps, are in the lead, and every
\* variable has its place: a step's copy in each text of that step.
NoHoles ==
  \A i \in DOMAIN leads :
    LET lead == leads[i] IN
    /\ lead.under.status # "paused"
    /\ \A n \in DOMAIN lead.under.steps : \A v \in DOMAIN lead.under.steps[n] :
         \A x \in lead.under.steps[n][v] \cap (CheckedTags \cup Customs) :
           x \in DOMAIN lead.sent \/ NotText(lead.of, x)
    /\ lead.under.steps # Nothing =>
         \A t \in Customs :
           IF StepIndex[t] = 0 THEN Referenced(lead.under, t)
           ELSE /\ StepIndex[t] <= Len(lead.under.steps)
                /\ \/ Elsewhere(lead.under, t)
                   \/ \A v \in DOMAIN lead.under.steps[StepIndex[t]] :
                        t \in lead.under.steps[StepIndex[t]][v]

\* A lead holds the value of each of the step's targets.
HoldsAll(r, lead) == \A t \in DOMAIN mapping :
  \/ NotText(r, Slot(t))
  \/ Slot(t) \in DOMAIN lead.stored /\ lead.stored[Slot(t)] = mapping[t]

\* instantly.go:240: a confirmed record has a lead that holds the value of
\* each of the step's targets; a contradicted one has a lead that does not.
AttestIsTrue ==
  \A r \in Records :
    /\ attested[r] = "confirmed" => \E i \in Known(r) : HoldsAll(r, leads[i])
    /\ attested[r] = "contradicted" => \E i \in Known(r) : ~HoldsAll(r, leads[i])

\* http.go:46: one lead for an email the campaign is to have once, and
\* otherwise one for each request that was sent; none without a lead.
OneLeadEach ==
  /\ \A r \in acked : Known(r) # {}
  /\ \A r \in Records :
       Cardinality({i \in Known(r) : DOMAIN leads[i].sent # {}})
         <= (IF skip THEN 1 ELSE 1 + lost)

InstantlyHolds == NoHoles /\ AttestIsTrue /\ OneLeadEach
=============================================================================
