------------------------------ MODULE Identity ------------------------------
(***************************************************************************)
(* Who a record is (internal/ledger/identities.go): identities of one      *)
(* entity type, the key each is stored under, the aliases of the keys it   *)
(* was known by, and what a deliver step makes of the key when it has no   *)
(* idempotency: of its own.                                                *)
(*                                                                         *)
(* A record is the set of keys derivable from its fields, at most one per  *)
(* tier (internal/registry/keys.go, Candidates).  Every operation of the   *)
(* ledger here is one transaction.                                         *)
(***************************************************************************)
EXTENDS Naturals, FiniteSets

CONSTANTS
  Ids,      \* identities the ledger has room for
  Keys,     \* derivable identity keys
  Tiers,    \* how many tiers the type's file lists
  Strength, \* the tier of each key: the higher, the stronger
  NONE      \* no identity, no key

IdentityAssumption ==
  /\ Tiers \in Nat
  /\ Strength \in [Keys -> 1..Tiers]
  /\ NONE \notin Ids \cup Keys

VARIABLES
  live,      \* identities.identity_key, NONE where there is no such row
  alias,     \* identity_aliases
  delivered, \* keys with a deliveries row at the one destination
  \* history, for the properties
  sent,      \* requests sent for each identity: none, one, 2 for more
  rekeyed,   \* identities whose key has changed
  strays     \* identities created for a key an enriched one should have gained

vars == <<live, alias, delivered, sent, rekeyed, strays>>

Init ==
  /\ live  = [i \in Ids |-> NONE]
  /\ alias = [k \in Keys |-> NONE]
  /\ delivered = {}
  /\ sent = [i \in Ids |-> 0]
  /\ rekeyed = {}
  /\ strays  = {}

(* Candidates: the keys a record may carry, none twice in a tier.          *)
Candidates == {S \in (SUBSET Keys) \ {{}} :
                 \A j, k \in S : Strength[j] = Strength[k] => j = k}

Strongest(S) == CHOOSE k \in S : \A j \in S : Strength[j] <= Strength[k]

Known == {i \in Ids : live[i] # NONE}

(* findIdentity: the identity stored under the key.                        *)
StoredUnder(k) == {i \in Ids : live[i] = k}

(* Mutant of Resolve: the aliases alone are asked.                         *)
ResolveAlias(k) == alias[k]

(* resolveKey: a live key is preferred to an alias left behind.            *)
Resolve(k) == IF \E i \in Ids : live[i] = k THEN CHOOSE i \in Ids : live[i] = k
                                            ELSE alias[k]

Resolving(S) == {k \in S : Resolve(k) # NONE}

(* addAliases: INSERT OR IGNORE, an alias never points elsewhere.          *)
AddAliases(i, K) ==
  alias' = [k \in Keys |-> IF k \in K /\ alias[k] = NONE THEN i ELSE alias[k]]

-----------------------------------------------------------------------------
(* UpsertIdentity.                                                         *)

(* No candidate resolves: a new identity under the strongest key.          *)
Create(S, i) ==
  /\ Resolving(S) = {}
  /\ i \notin Known
  /\ live' = [live EXCEPT ![i] = Strongest(S)]
  /\ AddAliases(i, S \ {Strongest(S)})
  /\ UNCHANGED rekeyed

(* The candidate that matched, and the identity it matched.                *)
Match(S) == Strongest(Resolving(S))
Found(S) == Resolve(Match(S))

(* The record brings no key stronger than the one it matched by, or the    *)
(* identity has it already, or another identity has (which the code tests  *)
(* and which never happens: the strongest key is the first one looked up). *)
Settled(S) ==
  \/ Strength[Match(S)] >= Strength[Strongest(S)]
  \/ StoredUnder(Strongest(S)) # {}

Keep(S) ==
  /\ Resolving(S) # {}
  /\ Settled(S)
  /\ UNCHANGED <<live, alias, rekeyed>>

(* Mutant of Upgrade: the vacated key is not aliased.                      *)
UpgradeForgets(S) ==
  LET i == Found(S) IN
  /\ Resolving(S) # {}
  /\ ~Settled(S)
  /\ live' = [live EXCEPT ![i] = Strongest(S)]
  /\ UNCHANGED alias
  /\ rekeyed' = rekeyed \cup {i}

(* The stored key gives way to the record's strongest; the vacated key and *)
(* the record's other keys become aliases.                                 *)
Upgrade(S) ==
  LET i == Found(S) IN
  /\ Resolving(S) # {}
  /\ ~Settled(S)
  /\ live' = [live EXCEPT ![i] = Strongest(S)]
  /\ AddAliases(i, {live[i]} \cup (S \ {Strongest(S)}))
  /\ rekeyed' = rekeyed \cup {i}

(* A source, a traverse or a reference field brings a record.              *)
UpsertIdentity(S) ==
  /\ Keep(S) \/ Upgrade(S) \/ \E i \in Ids : Create(S, i)
  /\ UNCHANGED <<delivered, sent, strays>>

(* EnsureIdentity: the adapter names the key and the fields say nothing.   *)
EnsureIdentity(k) ==
  /\ Resolve(k) = NONE
  /\ \E i \in Ids \ Known : live' = [live EXCEPT ![i] = k]
  /\ UNCHANGED <<alias, delivered, sent, rekeyed, strays>>

(* applyRecord and the answer of a participant step: the fields written    *)
(* for a known identity are upserted by themselves, and what that returns  *)
(* is dropped.                                                             *)
Enrich(i, S) ==
  /\ i \in Known
  /\ \/ (Keep(S) \/ Upgrade(S)) /\ UNCHANGED strays
     \/ \E j \in Ids : /\ Create(S, j)
                      /\ strays' = IF Strength[Strongest(S)] > Strength[live[i]]
                                     THEN strays \cup {j} ELSE strays
  /\ UNCHANGED <<delivered, sent>>

(* Mutant of Deliver: the deliveries table is not asked.                   *)
DeliverBlind(i) ==
  /\ i \in Known
  /\ delivered' = delivered \cup {live[i]}
  /\ sent' = [sent EXCEPT ![i] = IF @ = 0 THEN 1 ELSE 2]
  /\ UNCHANGED <<live, alias, rekeyed, strays>>

(* A deliver step without idempotency: sends what has no row under the     *)
(* identity key of the moment (idempotencyKey, DeliveredState).            *)
Deliver(i) ==
  /\ i \in Known
  /\ live[i] \notin delivered
  /\ delivered' = delivered \cup {live[i]}
  /\ sent' = [sent EXCEPT ![i] = IF @ = 0 THEN 1 ELSE 2]
  /\ UNCHANGED <<live, alias, rekeyed, strays>>

Next ==
  \/ \E S \in Candidates : UpsertIdentity(S) \/ \E i \in Ids : Enrich(i, S)
  \/ \E k \in Keys : EnsureIdentity(k)
  \/ \E i \in Ids : Deliver(i)

Spec == Init /\ [][Next]_vars

-----------------------------------------------------------------------------
(* Properties.                                                             *)

(* Types, and identities UNIQUE(entity_type, identity_key): no two are     *)
(* stored under one key.                                                   *)
TypeOK ==
  /\ live  \in [Ids -> Keys \cup {NONE}]
  /\ alias \in [Keys -> Ids \cup {NONE}]
  /\ delivered \subseteq Keys
  /\ sent \in [Ids -> 0..2]
  /\ rekeyed \subseteq Ids /\ strays \subseteq Ids
  /\ \A i, j \in Known : live[i] = live[j] => i = j
  /\ \A k \in Keys : alias[k] # NONE => alias[k] \in Known

(* 0002_identity_aliases.sql: a key that led to an identity never leads    *)
(* nowhere again, so no later record under it becomes a duplicate; and it  *)
(* leads to another identity only when that one had claimed it as an alias *)
(* while it was still the first one's live key.                            *)
KnownKeysStand ==
  [][\A k \in Keys : Resolve(k) # NONE =>
       Resolve(k)' \in {Resolve(k), alias[k]} \ {NONE}]_vars

(* step.go, idempotencyKey: as long as its key stands, an identity is sent *)
(* to a destination at most once, however often the pipeline is run.       *)
OnceWhileKeyed == \A i \in Ids \ rekeyed : sent[i] <= 1

(* SPEC.md, deliver idempotency: the same record into the same campaign    *)
(* can never double-add.                                                   *)
NeverDoubleAdds == \A i \in Ids : sent[i] <= 1

(* identity-keys.md: an identity falls to a weaker tier until an           *)
(* enrichment writes the stronger key; SPEC.md: it is updated in place,    *)
(* never duplicated.                                                       *)
EnrichmentAddsNobody == strays = {}
=============================================================================
