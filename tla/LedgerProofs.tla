------------------------------ MODULE LedgerProofs -----------------------------
(***************************************************************************)
(* Proofs about two tables of the ledger that share no state: identities   *)
(* and their aliases (Identity), and one group (Groups), each for any      *)
(* values of its constants.  A key leads to one identity and goes on doing *)
(* so, an identity whose key stands is sent once; a typed group holds one  *)
(* type and its trail stays clean.  Variables have the names MCParts gives *)
(* them.                                                                   *)
(***************************************************************************)
EXTENDS Integers, Sequences, NaturalsInduction, WellFoundedInduction,
        FiniteSetTheorems, SequenceTheorems, TLAPS

CONSTANTS
  \* Identity
  Ids, Keys, Tiers, Strength, NONE,
  \* Groups
  Writers, Members, TypeOf, Legacy, MaxTrail

VARIABLES
  \* Identity
  live, alias, delivered, requests, rekeyed, strays,
  \* Groups
  gtype, trail, writer, mixed, raced

Identity == INSTANCE Identity WITH sent <- requests
Groups   == INSTANCE Groups

-----------------------------------------------------------------------------
(* Identity.                                                               *)

(* An identity that was sent and whose key stands has its row under it.    *)
SentHasRow == \A i \in Ids \ rekeyed : requests[i] # 0 => live[i] \in delivered

IdentityInv == Identity!TypeOK /\ Identity!OnceWhileKeyed /\ SentHasRow

(* A nonempty set of keys has a strongest one: there are only so many      *)
(* tiers.                                                                  *)
Before == OpToRel(<, Nat)

LEMMA StrongestIs ==
  ASSUME Identity!IdentityAssumption, NEW S \in SUBSET Keys, S # {}
  PROVE  Identity!Strongest(S) \in S
        /\ \A j \in S : Strength[j] <= Strength[Identity!Strongest(S)]
<1> DEFINE Rank(k) == Tiers - Strength[k]
           Ranks   == {Rank(k) : k \in S}
<1>1. Tiers \in Nat /\ \A k \in S : Strength[k] \in 1..Tiers
  BY DEF Identity!IdentityAssumption
<1>2. \A k \in S : Rank(k) \in Nat
  BY <1>1
<1>3. Ranks \in SUBSET Nat /\ Ranks # {}
  BY <1>2
<1>4. IsWellFoundedOn(Before, Nat)
  BY NatLessThanWellFounded, Zenon DEF Before
<1> HIDE DEF Ranks
<1>5. PICK m \in Ranks : \A n \in Ranks : ~(<<n, m>> \in Before)
  BY <1>3, <1>4, WFMin, Zenon
<1>6. \A n \in Ranks : ~(n < m)
  <2>1. \A i, j \in Nat : i < j => <<i, j>> \in Before
    BY DEF Before, OpToRel
  <2> QED
    BY <1>3, <1>5, <2>1
<1>7. PICK k \in S : m = Rank(k)
  BY <1>5 DEF Ranks
<1>8. \A j \in S : Strength[j] <= Strength[k]
  <2> SUFFICES ASSUME NEW j \in S PROVE Strength[j] <= Strength[k]
    OBVIOUS
  <2>1. Rank(j) \in Ranks
    BY DEF Ranks
  <2>2. ~(Rank(j) < Rank(k))
    BY <1>6, <1>7, <2>1
  <2> QED
    BY <1>1, <2>2
<1> HIDE DEF Rank
<1> QED
  BY <1>8 DEF Identity!Strongest

(* What a key leads to: the identity stored under it, else its alias.      *)
LEMMA ResolveIs ==
  ASSUME Identity!IdentityAssumption, Identity!TypeOK, NEW k \in Keys
  PROVE  /\ \A i \in Ids : live[i] = k => Identity!Resolve(k) = i
         /\ (\A i \in Ids : live[i] # k) => Identity!Resolve(k) = alias[k]
         /\ Identity!Resolve(k) \in Identity!Known \cup {NONE}
<1> USE DEF Identity!IdentityAssumption, Identity!TypeOK, Identity!Known
<1>1. ASSUME NEW i \in Ids, live[i] = k
      PROVE  Identity!Resolve(k) = i
  <2>1. \A j \in Ids : live[j] = k => j = i
    BY <1>1
  <2> QED
    BY <1>1, <2>1 DEF Identity!Resolve
<1>2. ASSUME \A i \in Ids : live[i] # k
      PROVE  Identity!Resolve(k) = alias[k]
  BY <1>2 DEF Identity!Resolve
<1>3. Identity!Resolve(k) \in Identity!Known \cup {NONE}
  <2>1. CASE \E i \in Ids : live[i] = k
    BY <2>1, <1>1
  <2>2. CASE \A i \in Ids : live[i] # k
    BY <2>2, <1>2
  <2> QED
    BY <2>1, <2>2
<1> QED
  BY <1>1, <1>2, <1>3

(* The same, after a step.                                                 *)
LEMMA ResolveIsThen ==
  ASSUME Identity!IdentityAssumption, Identity!TypeOK', NEW k \in Keys
  PROVE  /\ \A i \in Ids : live'[i] = k => Identity!Resolve(k)' = i
         /\ (\A i \in Ids : live'[i] # k) => Identity!Resolve(k)' = alias'[k]
<1> USE DEF Identity!IdentityAssumption, Identity!TypeOK, Identity!Known
<1>1. ASSUME NEW i \in Ids, live'[i] = k
      PROVE  Identity!Resolve(k)' = i
  <2>1. \A j \in Ids : live'[j] = k => j = i
    BY <1>1
  <2> QED
    BY <1>1, <2>1 DEF Identity!Resolve
<1>2. ASSUME \A i \in Ids : live'[i] # k
      PROVE  Identity!Resolve(k)' = alias'[k]
  BY <1>2 DEF Identity!Resolve
<1> QED
  BY <1>1, <1>2

-----------------------------------------------------------------------------
(* What a step does to who is stored where.  A key is put in the place of  *)
(* none or of another; only the identity's own old key may be vacated, and *)
(* an alias, once there, stays.                                            *)
Rekeys(i, new) ==
  /\ Identity!Resolve(new) = NONE
  /\ live' = [live EXCEPT ![i] = new]

AliasesGrow(i) ==
  /\ alias' \in [Keys -> Ids \cup {NONE}]
  /\ \A k \in Keys : alias'[k] = alias[k] \/ (alias[k] = NONE /\ alias'[k] = i)

(* Somebody new under a key that led nowhere.                              *)
Arrives(i, new) ==
  /\ i \in Ids \ Identity!Known /\ new \in Keys
  /\ Rekeys(i, new) /\ AliasesGrow(i)
  /\ rekeyed' = rekeyed

(* Somebody known under a key that led nowhere, his old one an alias.      *)
Moves(i, new) ==
  /\ i \in Identity!Known /\ new \in Keys
  /\ Rekeys(i, new) /\ AliasesGrow(i)
  /\ alias'[live[i]] # NONE
  /\ rekeyed' = rekeyed \cup {i}

Stays == UNCHANGED <<live, alias, rekeyed>>

(* AddAliases only adds.                                                   *)
LEMMA Adds ==
  ASSUME Identity!IdentityAssumption, Identity!TypeOK, NEW i \in Ids, NEW K,
        Identity!AddAliases(i, K)
  PROVE  AliasesGrow(i) /\ \A k \in K \cap Keys : alias'[k] # NONE
BY DEF Identity!IdentityAssumption, Identity!TypeOK, Identity!AddAliases, AliasesGrow

LEMMA CreateArrives ==
  ASSUME Identity!IdentityAssumption, Identity!TypeOK, NEW S \in Identity!Candidates,
        NEW i \in Ids, Identity!Create(S, i)
  PROVE  Arrives(i, Identity!Strongest(S))
<1>1. S \in SUBSET Keys /\ S # {}
  BY DEF Identity!Candidates
<1>2. Identity!Strongest(S) \in S
  BY <1>1, StrongestIs
<1>3. Identity!Resolve(Identity!Strongest(S)) = NONE
  BY <1>2 DEF Identity!Create, Identity!Resolving
<1>4. AliasesGrow(i)
  BY Adds DEF Identity!Create
<1> QED
  BY <1>1, <1>2, <1>3, <1>4 DEF Identity!Create, Arrives, Rekeys, Identity!Known

LEMMA UpgradeMoves ==
  ASSUME Identity!IdentityAssumption, Identity!TypeOK, NEW S \in Identity!Candidates,
        Identity!Upgrade(S)
  PROVE  Identity!Found(S) \in Ids /\ Moves(Identity!Found(S), Identity!Strongest(S))
<1>1. S \in SUBSET Keys /\ S # {} /\ Identity!Resolving(S) \in SUBSET S
      /\ Identity!Resolving(S) # {}
  BY DEF Identity!Candidates, Identity!Resolving, Identity!Upgrade
<1>2. /\ Identity!Strongest(S) \in S
      /\ Identity!Match(S) \in Identity!Resolving(S)
      /\ \A k \in Identity!Resolving(S) : Strength[k] <= Strength[Identity!Match(S)]
  BY <1>1, StrongestIs DEF Identity!Match
<1>3. Identity!Resolve(Identity!Strongest(S)) = NONE
  <2> SUFFICES ASSUME Identity!Strongest(S) \in Identity!Resolving(S) PROVE FALSE
    BY <1>2 DEF Identity!Resolving
  <2>1. Strength[Identity!Strongest(S)] <= Strength[Identity!Match(S)]
    BY <1>2
  <2>2. Strength[Identity!Strongest(S)] \in Nat /\ Strength[Identity!Match(S)] \in Nat
    BY <1>1, <1>2 DEF Identity!IdentityAssumption
  <2> QED
    BY <2>1, <2>2 DEF Identity!Upgrade, Identity!Settled
<1>4. Identity!Found(S) \in Identity!Known
  <2>1. Identity!Match(S) \in Keys /\ Identity!Resolve(Identity!Match(S)) # NONE
    BY <1>1, <1>2 DEF Identity!Resolving
  <2> QED
    BY <2>1, ResolveIs DEF Identity!Found
<1>5. live[Identity!Found(S)] \in Keys /\ Identity!Found(S) \in Ids
  BY <1>4 DEF Identity!Known, Identity!TypeOK
<1>6. AliasesGrow(Identity!Found(S)) /\ alias'[live[Identity!Found(S)]] # NONE
  BY <1>5, Adds DEF Identity!Upgrade
<1> QED
  BY <1>1, <1>2, <1>3, <1>4, <1>5, <1>6 DEF Identity!Upgrade, Moves, Rekeys

(* Every step is one of these: somebody arrives, moves, or is sent.        *)
Sends(i) ==
  /\ i \in Identity!Known /\ live[i] \notin delivered
  /\ delivered' = delivered \cup {live[i]}
  /\ requests' = [requests EXCEPT ![i] = IF @ = 0 THEN 1 ELSE 2]
  /\ strays' = strays

LEMMA Steps ==
  ASSUME Identity!IdentityAssumption, Identity!TypeOK, [Identity!Next]_(Identity!vars)
  PROVE  \/ /\ \/ Stays
               \/ \E i \in Ids, new \in Keys : Arrives(i, new) \/ Moves(i, new)
            /\ UNCHANGED <<delivered, requests>>
            /\ strays' \in SUBSET Ids
         \/ Stays /\ \E i \in Ids : Sends(i)
<1> DEFINE Upserts == Stays \/ \E i \in Ids, new \in Keys : Arrives(i, new) \/ Moves(i, new)
<1>1. strays \in SUBSET Ids
  BY DEF Identity!TypeOK
<1>2. ASSUME NEW S \in Identity!Candidates
      PROVE  /\ Identity!Strongest(S) \in Keys
             /\ Identity!Keep(S) => Upserts
             /\ Identity!Upgrade(S) => Upserts
             /\ \A i \in Ids : Identity!Create(S, i) => Upserts
  <2>1. Identity!Strongest(S) \in Keys
    BY StrongestIs DEF Identity!Candidates
  <2>2. Identity!Keep(S) => Upserts
    BY DEF Identity!Keep, Stays
  <2>3. Identity!Upgrade(S) => Upserts
    BY <2>1, UpgradeMoves
  <2>4. \A i \in Ids : Identity!Create(S, i) => Upserts
    BY <2>1, CreateArrives
  <2> QED
    BY <2>1, <2>2, <2>3, <2>4
<1> HIDE DEF Upserts
<1>3. ASSUME NEW S \in Identity!Candidates, Identity!UpsertIdentity(S)
      PROVE  Upserts /\ UNCHANGED <<delivered, requests, strays>>
  BY <1>2, <1>3 DEF Identity!UpsertIdentity
<1>4. ASSUME NEW S \in Identity!Candidates, NEW i \in Ids, Identity!Enrich(i, S)
      PROVE  Upserts /\ UNCHANGED <<delivered, requests>> /\ strays' \in SUBSET Ids
  BY <1>1, <1>2, <1>4 DEF Identity!Enrich
<1>5. ASSUME NEW k \in Keys, Identity!EnsureIdentity(k)
      PROVE  Upserts /\ UNCHANGED <<delivered, requests, strays>>
  <2>1. PICK i \in Ids \ Identity!Known : live' = [live EXCEPT ![i] = k]
    BY <1>5 DEF Identity!EnsureIdentity
  <2>2. Arrives(i, k)
    BY <1>5, <2>1 DEF Identity!EnsureIdentity, Arrives, Rekeys, AliasesGrow, Identity!TypeOK
  <2> QED
    BY <1>5, <2>2 DEF Identity!EnsureIdentity, Upserts
<1>6. ASSUME NEW i \in Ids, Identity!Deliver(i)
      PROVE  Stays /\ Sends(i)
  BY <1>6 DEF Identity!Deliver, Stays, Sends
<1>7. ASSUME UNCHANGED Identity!vars
      PROVE  Upserts /\ UNCHANGED <<delivered, requests, strays>>
  BY <1>7 DEF Identity!vars, Upserts, Stays
<1> QED
  BY <1>1, <1>3, <1>4, <1>5, <1>6, <1>7 DEF Identity!Next, Upserts

-----------------------------------------------------------------------------
(* The types, and what a step makes of a known key.                        *)

(* Whoever is stored under a key gives it up only to take one nobody has,  *)
(* so keys stay unique.                                                    *)
LEMMA StoredStays ==
  ASSUME Identity!IdentityAssumption, Identity!TypeOK, NEW i \in Ids, NEW new \in Keys,
         Arrives(i, new) \/ Moves(i, new)
  PROVE  /\ live' \in [Ids -> Keys \cup {NONE}]
         /\ live'[i] = new /\ \A j \in Ids \ {i} : live'[j] = live[j] /\ live[j] # new
         /\ alias[new] = NONE /\ live[i] # new
         /\ AliasesGrow(i)
<1>1. Identity!Resolve(new) = NONE /\ live' = [live EXCEPT ![i] = new] /\ AliasesGrow(i)
  BY DEF Arrives, Moves, Rekeys
<1>2. \A j \in Ids : live[j] # new
  BY <1>1, ResolveIs DEF Identity!IdentityAssumption
<1>3. alias[new] = NONE
  BY <1>1, <1>2, ResolveIs
<1> QED
  BY <1>1, <1>2, <1>3 DEF Identity!TypeOK

LEMMA TypesStand ==
  ASSUME Identity!IdentityAssumption, Identity!TypeOK, [Identity!Next]_(Identity!vars)
  PROVE  Identity!TypeOK'
<1> USE DEF Identity!IdentityAssumption, Identity!TypeOK, Identity!Known
<1>1. ASSUME Stays, delivered' \in SUBSET Keys, requests' \in [Ids -> 0..2],
      strays' \in SUBSET Ids
      PROVE  Identity!TypeOK'
  BY <1>1 DEF Stays
<1>2. ASSUME NEW i \in Ids, NEW new \in Keys, Arrives(i, new) \/ Moves(i, new),
             UNCHANGED <<delivered, requests>>, strays' \in SUBSET Ids
      PROVE  Identity!TypeOK'
  <2>1. /\ live' \in [Ids -> Keys \cup {NONE}]
        /\ live'[i] = new /\ \A j \in Ids \ {i} : live'[j] = live[j] /\ live[j] # new
        /\ AliasesGrow(i)
    BY <1>2, StoredStays
  <2>2. rekeyed' \subseteq Ids
    BY <1>2 DEF Arrives, Moves
  <2>3. \A j, l \in Identity!Known' : live'[j] = live'[l] => j = l
    BY <2>1
  <2>4. \A k \in Keys : alias'[k] # NONE => alias'[k] \in Identity!Known'
    BY <2>1 DEF AliasesGrow
  <2> QED
    BY <1>2, <2>1, <2>2, <2>3, <2>4 DEF AliasesGrow
<1>3. ASSUME NEW i \in Ids, Sends(i)
      PROVE  delivered' \in SUBSET Keys /\ requests' \in [Ids -> 0..2] /\ strays' \in SUBSET Ids
  BY <1>3 DEF Sends
<1> QED
  BY <1>1, <1>2, <1>3, Steps

(* No step makes a known key lead nowhere, or elsewhere than to its alias. *)
LEMMA KeysStand ==
  ASSUME Identity!IdentityAssumption, Identity!TypeOK, Identity!TypeOK',
        [Identity!Next]_(Identity!vars),
         NEW k \in Keys, Identity!Resolve(k) # NONE
  PROVE  Identity!Resolve(k)' \in {Identity!Resolve(k), alias[k]} \ {NONE}
<1>1. CASE Stays
  <2>1. CASE \E i \in Ids : live[i] = k
    BY <1>1, <2>1, ResolveIs, ResolveIsThen DEF Stays
  <2>2. CASE \A i \in Ids : live[i] # k
    BY <1>1, <2>2, ResolveIs, ResolveIsThen DEF Stays
  <2> QED
    BY <2>1, <2>2
<1>2. ASSUME NEW i \in Ids, NEW new \in Keys, Arrives(i, new) \/ Moves(i, new)
      PROVE  Identity!Resolve(k)' \in {Identity!Resolve(k), alias[k]} \ {NONE}
  <2>1. /\ live'[i] = new /\ \A j \in Ids \ {i} : live'[j] = live[j] /\ live[j] # new
        /\ alias[new] = NONE /\ AliasesGrow(i)
    BY <1>2, StoredStays
  <2>2. k # new
    BY <1>2, <2>1 DEF Arrives, Moves, Rekeys
  <2>3. CASE \E j \in Ids \ {i} : live[j] = k
    BY <2>1, <2>3, ResolveIs, ResolveIsThen DEF Identity!IdentityAssumption
  <2>4. CASE live[i] = k
    <3>1. Identity!Resolve(k) = i /\ Moves(i, new)
      BY <1>2, <2>4, ResolveIs DEF Arrives, Identity!Known, Identity!IdentityAssumption
    <3>2. \A j \in Ids : live'[j] # k
      BY <2>1, <2>2, <2>4, ResolveIs, <3>1
    <3>3. Identity!Resolve(k)' = alias'[k] /\ alias'[k] # NONE
      BY <2>4, <3>1, <3>2, ResolveIsThen DEF Moves
    <3> QED
      BY <2>1, <3>1, <3>3 DEF AliasesGrow
  <2>5. CASE \A j \in Ids : live[j] # k
    <3>1. Identity!Resolve(k) = alias[k]
      BY <2>5, ResolveIs
    <3>2. \A j \in Ids : live'[j] # k
      BY <2>1, <2>2, <2>5
    <3> QED
      BY <2>1, <3>1, <3>2, ResolveIsThen DEF AliasesGrow
  <2> QED
    BY <2>3, <2>4, <2>5
<1> QED
  BY <1>1, <1>2, Steps

-----------------------------------------------------------------------------
(* What is sent once.                                                      *)
LEMMA SentOnce ==
  ASSUME Identity!IdentityAssumption, IdentityInv, [Identity!Next]_(Identity!vars)
  PROVE  Identity!OnceWhileKeyed' /\ SentHasRow'
<1> USE DEF Identity!IdentityAssumption, IdentityInv, Identity!TypeOK,
      Identity!OnceWhileKeyed, SentHasRow
<1>1. ASSUME Stays, UNCHANGED <<delivered, requests>>
      PROVE  Identity!OnceWhileKeyed' /\ SentHasRow'
  BY <1>1 DEF Stays
<1>2. ASSUME NEW i \in Ids, NEW new \in Keys, Moves(i, new), UNCHANGED <<delivered, requests>>
      PROVE  Identity!OnceWhileKeyed' /\ SentHasRow'
  BY <1>2 DEF Moves, Rekeys
<1>3. ASSUME NEW i \in Ids, NEW new \in Keys, Arrives(i, new), UNCHANGED <<delivered, requests>>
      PROVE  Identity!OnceWhileKeyed' /\ SentHasRow'
  BY <1>3 DEF Arrives, Rekeys, Identity!Known
<1>4. ASSUME Stays, NEW i \in Ids, Sends(i)
      PROVE  Identity!OnceWhileKeyed' /\ SentHasRow'
  BY <1>4 DEF Stays, Sends
<1> QED
  BY <1>1, <1>2, <1>3, <1>4, Steps

-----------------------------------------------------------------------------
LEMMA IdentityInit == ASSUME Identity!IdentityAssumption, Identity!Init PROVE IdentityInv
BY DEF Identity!IdentityAssumption, Identity!Init, IdentityInv, Identity!TypeOK,
      Identity!Known, Identity!OnceWhileKeyed, SentHasRow

LEMMA IdentityNext == ASSUME Identity!IdentityAssumption, IdentityInv,
      [Identity!Next]_(Identity!vars) PROVE IdentityInv'
BY TypesStand, SentOnce DEF IdentityInv

(* The inductive invariant: the types, and what an identity was sent while *)
(* its key stood.                                                          *)
THEOREM IdentityInvariance == ASSUME Identity!IdentityAssumption PROVE Identity!Spec
      => []IdentityInv
<1>1. Identity!Init => IdentityInv
  BY IdentityInit
<1>2. IdentityInv /\ [Identity!Next]_(Identity!vars) => IdentityInv'
  BY IdentityNext
<1> QED
  BY <1>1, <1>2, PTL DEF Identity!Spec

(* For any identities, keys and tiers no two identities are stored under   *)
(* one key, and every alias leads to somebody (identities.go).             *)
THEOREM IdentityTypeCorrect == ASSUME Identity!IdentityAssumption PROVE Identity!Spec
      => []Identity!TypeOK
<1>1. IdentityInv => Identity!TypeOK
  BY DEF IdentityInv
<1> QED
  BY <1>1, IdentityInvariance, PTL

(* For any identities, keys and tiers an identity whose key stands is sent *)
(* at most once (step.go, idempotencyKey).                                 *)
THEOREM SentWhileKeyed == ASSUME Identity!IdentityAssumption PROVE Identity!Spec
      => []Identity!OnceWhileKeyed
<1>1. IdentityInv => Identity!OnceWhileKeyed
  BY DEF IdentityInv
<1> QED
  BY <1>1, IdentityInvariance, PTL

(* For any identities, keys and tiers a key that led to an identity leads  *)
(* to it, or to whom it was an alias of, for ever (identities.go).         *)
THEOREM KeysNeverStray == ASSUME Identity!IdentityAssumption PROVE Identity!Spec
      => Identity!KnownKeysStand
<1>1. IdentityInv /\ IdentityInv' /\ [Identity!Next]_(Identity!vars) =>
        [\A k \in Keys : Identity!Resolve(k) # NONE =>
           Identity!Resolve(k)' \in {Identity!Resolve(k), alias[k]} \ {NONE}]_(Identity!vars)
  BY KeysStand DEF IdentityInv
<1> QED
  BY <1>1, IdentityInvariance, PTL DEF Identity!Spec, Identity!KnownKeysStand

-----------------------------------------------------------------------------
(* Groups.                                                                 *)

Entry == [id : Members, event : {"added", "removed"}]

(* A group that is not there has no events and no writer past its insert.  *)
AbsentIsEmpty == gtype = "absent" =>
  trail = <<>> /\ \A w \in Writers : writer[w].pc \in {"idle", "insert"}

(* Who a writer at work works for, and to which end.                       *)
Purpose == \A w \in Writers :
  /\ writer[w].pc # "idle" => writer[w].event \in {"added", "removed"}
  /\ writer[w].pc \in {"insert", "admit"} => writer[w].event = "added"
  /\ writer[w].pc # "idle" /\ writer[w].event = "added" => writer[w].type \in Groups!EntityTypes
  /\ writer[w].pc = "admit" => writer[w].view \subseteq writer[w].ids

(* Who was admitted is of the group's type still.                          *)
AdmittedFits == gtype \in Groups!EntityTypes /\ ~mixed =>
  \A w \in Writers : writer[w].pc = "admit" => \A i \in writer[w].view : TypeOf[i] = gtype

(* What a writer read of a member it edits alone is still so.              *)
ViewStands == \A w \in Writers, i \in Members \ raced : Groups!Editing(w, i) =>
  (writer[w].event = "added" <=> i \notin Groups!Membership)

GroupsInv == /\ Groups!TypeOK /\ AbsentIsEmpty /\ Purpose /\ AdmittedFits /\ ViewStands
        /\ Groups!Homogeneous /\ Groups!TrailAlternates

-----------------------------------------------------------------------------
(* The trail.                                                              *)
LEMMA TrailShape ==
  ASSUME NEW t, NEW n \in Nat
  PROVE  t \in Groups!BoundedSeq(Entry, n) <=> t \in Seq(Entry) /\ Len(t) <= n
<1>1. ASSUME t \in Groups!BoundedSeq(Entry, n)
      PROVE  t \in Seq(Entry) /\ Len(t) <= n
  <2>1. PICK m \in 0..n : t \in [1..m -> Entry]
    BY <1>1 DEF Groups!BoundedSeq, Groups!SeqOf
  <2> QED
    BY <2>1
<1>2. ASSUME t \in Seq(Entry), Len(t) <= n
      PROVE  t \in Groups!BoundedSeq(Entry, n)
  <2>1. Len(t) \in 0..n /\ t \in [1..Len(t) -> Entry]
    BY <1>2
  <2> QED
    BY <2>1 DEF Groups!BoundedSeq, Groups!SeqOf
<1> QED
  BY <1>1, <1>2

(* Of the places of a member there is a last one.                          *)
LEMMA Latest ==
  ASSUME NEW n \in Nat, NEW at \in SUBSET (1 .. n), at # {}
  PROVE  \E l \in at : \A m \in at : m <= l
<1> DEFINE Back == {n - m : m \in at}
<1>1. Back \in SUBSET Nat /\ Back # {}
  <2>1. \A m \in at : n - m \in Nat
    OBVIOUS
  <2> QED
    BY <2>1
<1>2. IsWellFoundedOn(Before, Nat)
  BY NatLessThanWellFounded, Zenon DEF Before
<1> HIDE DEF Back
<1>3. PICK b \in Back : \A c \in Back : ~(<<c, b>> \in Before)
  BY <1>1, <1>2, WFMin, Zenon
<1>4. \A c \in Back : ~(c < b)
  <2>1. \A i, j \in Nat : i < j => <<i, j>> \in Before
    BY DEF Before, OpToRel
  <2> QED
    BY <1>1, <1>3, <2>1
<1>5. PICK l \in at : b = n - l
  BY <1>3 DEF Back
<1>6. ASSUME NEW m \in at PROVE m <= l
  <2>1. n - m \in Back
    BY DEF Back
  <2> QED
    BY <1>4, <1>5, <2>1
<1> QED
  BY <1>6

(* An event appended is the newest of its member and of nobody else.       *)
LEMMA NewestAppended ==
  ASSUME trail \in Seq(Entry), NEW i \in Members, NEW e \in {"added", "removed"},
         trail' = Append(trail, [id |-> i, event |-> e])
  PROVE  /\ Groups!NewestOf(i)' = e
         /\ \A j \in Members \ {i} : Groups!NewestOf(j)' = Groups!NewestOf(j)
<1>1. /\ DOMAIN trail' = 1 .. Len(trail) + 1 /\ DOMAIN trail = 1 .. Len(trail)
      /\ Len(trail) \in Nat
      /\ \A n \in DOMAIN trail : trail'[n] = trail[n]
      /\ trail'[Len(trail) + 1] = [id |-> i, event |-> e]
  OBVIOUS
<1>2. Groups!NewestOf(i)' = e
  <2> DEFINE at == {n \in DOMAIN trail' : trail'[n].id = i}
             last == Len(trail) + 1
  <2>1. last \in at /\ \A m \in at : m <= last
    BY <1>1
  <2>2. \A n \in at : (\A m \in at : m <= n) => n = last
    BY <1>1, <2>1
  <2>3. (CHOOSE n \in at : \A m \in at : m <= n) = last
    <3> HIDE DEF at, last
    <3> QED
      BY <2>1, <2>2
  <2>4. Groups!NewestOf(i)' = IF at = {} THEN "none"
                       ELSE trail'[CHOOSE n \in at : \A m \in at : m <= n].event
    BY DEF Groups!NewestOf
  <2> HIDE DEF at
  <2> QED
    BY <1>1, <2>1, <2>3, <2>4
<1>3. ASSUME NEW j \in Members \ {i} PROVE Groups!NewestOf(j)' = Groups!NewestOf(j)
  <2> DEFINE at   == {n \in DOMAIN trail : trail[n].id = j}
             then == {n \in DOMAIN trail' : trail'[n].id = j}
  <2>1. then = at /\ at \in SUBSET (1 .. Len(trail))
    BY <1>1
  <2>2. /\ Groups!NewestOf(j)' = IF then = {} THEN "none"
                          ELSE trail'[CHOOSE n \in then : \A m \in then : m <= n].event
        /\ Groups!NewestOf(j) = IF at = {} THEN "none"
                         ELSE trail[CHOOSE n \in at : \A m \in at : m <= n].event
    BY DEF Groups!NewestOf
  <2>3. at # {} => (CHOOSE n \in at : \A m \in at : m <= n) \in DOMAIN trail
    <3> HIDE DEF at
    <3> QED
      BY <1>1, <2>1, Latest
  <2> HIDE DEF at, then
  <2> QED
    BY <1>1, <2>1, <2>2, <2>3
<1> QED
  BY <1>2, <1>3

LEMMA MembersAppended ==
  ASSUME trail \in Seq(Entry), NEW i \in Members, NEW e \in {"added", "removed"},
         trail' = Append(trail, [id |-> i, event |-> e])
  PROVE  Groups!Membership' = IF e = "added" THEN Groups!Membership \cup {i}
        ELSE Groups!Membership \ {i}
BY NewestAppended DEF Groups!Membership

(* The newest event of a member is the one at its last place.              *)
LEMMA NewestAt ==
  ASSUME trail \in Seq(Entry), NEW i \in Members, NEW m \in DOMAIN trail, trail[m].id = i,
         \A l \in DOMAIN trail : m < l => trail[l].id # i
  PROVE  Groups!NewestOf(i) = trail[m].event
<1> DEFINE at == {n \in DOMAIN trail : trail[n].id = i}
<1>1. DOMAIN trail \subseteq Nat
  OBVIOUS
<1>2. m \in at /\ (\A l \in at : l <= m) /\ \A n \in at : (\A l \in at : l <= n) => n = m
  BY <1>1
<1>3. Groups!NewestOf(i) = IF at = {} THEN "none"
      ELSE trail[CHOOSE n \in at : \A l \in at : l <= n].event
  BY DEF Groups!NewestOf
<1> HIDE DEF at
<1> QED
  BY <1>2, <1>3

-----------------------------------------------------------------------------
(* The writers.                                                            *)
State == [pc : {"idle", "insert", "read", "edit", "admit"}, event : {"none", "added", "removed"},
          type : {"none"} \cup Groups!EntityTypes, ids : SUBSET Members, view : SUBSET Members]

(* What a state of a writer must be for the invariant to hold of it.       *)
Sound(st) ==
  /\ st \in State
  /\ gtype = "absent" => st.pc \in {"idle", "insert"}
  /\ st.pc # "idle" => st.event \in {"added", "removed"}
  /\ st.pc \in {"insert", "admit"} => st.event = "added"
  /\ st.pc # "idle" /\ st.event = "added" => st.type \in Groups!EntityTypes
  /\ st.pc = "admit" => st.view \subseteq st.ids
  /\ st.pc = "admit" /\ gtype \in Groups!EntityTypes /\ ~mixed
     => \A i \in st.view : TypeOf[i] = gtype
  /\ st.pc \in {"edit", "admit"} =>
       \A i \in st.ids \ raced : st.event = "added" <=> i \notin Groups!Membership

LEMMA WritersSound ==
  ASSUME Groups!TypeOK
  PROVE  AbsentIsEmpty /\ Purpose /\ AdmittedFits /\ ViewStands
           <=> (gtype = "absent" => trail = <<>>) /\ \A w \in Writers : Sound(writer[w])
<1>1. \A w \in Writers : writer[w] \in State
  BY DEF Groups!TypeOK, State
<1>2. \A w \in Writers : writer[w].ids \subseteq Members
  BY <1>1 DEF State
<1> QED
  BY <1>1, <1>2 DEF AbsentIsEmpty, Purpose, AdmittedFits, ViewStands, Groups!Editing, Sound

LEMMA WritersSoundThen ==
  ASSUME \A w \in Writers : Sound(writer[w])', gtype' = "absent" => trail' = <<>>
  PROVE  AbsentIsEmpty' /\ Purpose' /\ AdmittedFits' /\ ViewStands'
<1>1. \A w \in Writers : writer'[w] \in State
  BY DEF Sound
<1>2. \A w \in Writers : writer'[w].ids \subseteq Members
  BY <1>1 DEF State
<1> QED
  BY <1>1, <1>2 DEF AbsentIsEmpty, Purpose, AdmittedFits, ViewStands, Groups!Editing, Sound

(* A writer that goes from one sound state to another disturbs nothing.    *)
LEMMA GoStep ==
  ASSUME GroupsInv, NEW w \in Writers, NEW st, Sound(st), Groups!Go(w, st),
         UNCHANGED <<gtype, trail, mixed, raced>>
  PROVE  GroupsInv'
<1>1. \A v \in Writers : writer'[v] = IF v = w THEN st ELSE writer[v]
  BY DEF Groups!Go, GroupsInv, Groups!TypeOK
<1>2. Groups!TypeOK'
  BY DEF Groups!Go, GroupsInv, Groups!TypeOK, Sound, State
<1>3. Groups!Membership' = Groups!Membership
  BY DEF Groups!Membership, Groups!NewestOf
<1>4. \A v \in Writers : Sound(writer[v])
  BY WritersSound DEF GroupsInv
<1>5. \A v \in Writers : Sound(writer[v])'
  BY <1>1, <1>3, <1>4 DEF Sound
<1>6. gtype' = "absent" => trail' = <<>>
  BY DEF GroupsInv, AbsentIsEmpty
<1>7. AbsentIsEmpty' /\ Purpose' /\ AdmittedFits' /\ ViewStands'
  BY <1>5, <1>6, WritersSoundThen
<1>8. Groups!Homogeneous' /\ Groups!TrailAlternates'
  BY <1>3 DEF GroupsInv, Groups!Homogeneous, Groups!TrailAlternates
<1> QED
  BY <1>2, <1>7, <1>8 DEF GroupsInv

LEMMA IdleSound == ASSUME Groups!GroupsAssumption PROVE Sound(Groups!Idle)
BY DEF Sound, Groups!Idle, State

(* What an event appended by a writer does.                                *)
LEMMA AppendStep ==
  ASSUME Groups!GroupsAssumption, GroupsInv, NEW w \in Writers, NEW i \in Members,
         Groups!Editing(w, i), writer[w].event \in {"added", "removed"},
         writer[w].event = "added" /\ gtype \in Groups!EntityTypes /\ ~mixed => TypeOf[i] = gtype,
         Groups!Append1(w, i, writer[w].event)
  PROVE  GroupsInv'
<1> DEFINE e    == writer[w].event
<1>1. /\ trail \in Seq(Entry) /\ Len(trail) <= MaxTrail /\ MaxTrail \in Nat
      /\ \A v \in Writers : writer[v] \in State
  BY TrailShape DEF GroupsInv, Groups!TypeOK, Groups!GroupsAssumption, Entry, State
<1>2. /\ Len(trail) < MaxTrail /\ trail' = Append(trail, [id |-> i, event |-> e])
      /\ UNCHANGED <<gtype, mixed>>
      /\ raced \subseteq raced' /\ raced' \subseteq raced \cup {i}
      /\ \A v \in Writers \ {w} : Groups!Editing(v, i) => i \in raced'
  BY DEF Groups!Append1
<1>3. PICK next : /\ writer' = [writer EXCEPT ![w] = next]
                  /\ next = IF writer[w].ids = {i} THEN Groups!Idle
                            ELSE [writer[w] EXCEPT !.pc = "edit", !.ids = @ \ {i}, !.view = {}]
  BY DEF Groups!Append1, Groups!Go
<1>4. \A v \in Writers : writer'[v] = IF v = w THEN next ELSE writer[v]
  BY <1>3 DEF GroupsInv, Groups!TypeOK
<1>5. Groups!Membership' = IF e = "added" THEN Groups!Membership \cup {i}
      ELSE Groups!Membership \ {i}
  BY <1>1, <1>2, MembersAppended
<1>6. \A v \in Writers : Sound(writer[v])
  BY WritersSound DEF GroupsInv
<1>7. gtype # "absent"
  BY <1>6 DEF Sound, Groups!Editing
<1>8. \A v \in Writers : Sound(writer[v])'
  <2>1. Sound(next)'
    <3>1. CASE writer[w].ids = {i}
      BY <1>3, <3>1, IdleSound DEF Sound, Groups!Idle
    <3>2. CASE writer[w].ids # {i}
      <4>1. /\ next = [writer[w] EXCEPT !.pc = "edit", !.ids = @ \ {i}, !.view = {}]
            /\ next \in State /\ next.pc = "edit" /\ next.event = e
            /\ next.type = writer[w].type /\ next.ids = writer[w].ids \ {i}
        BY <1>1, <1>3, <3>2 DEF State
      <4>2. writer[w].pc \in {"edit", "admit"}
        BY DEF Groups!Editing
      <4> QED
        BY <1>1, <1>2, <1>5, <1>6, <1>7, <4>1, <4>2 DEF Sound
    <3> QED
      BY <3>1, <3>2
  <2>2. ASSUME NEW v \in Writers \ {w} PROVE Sound(writer[v])'
    <3>1. writer'[v] = writer[v] /\ writer[v] \in State /\ Sound(writer[v])
      BY <1>1, <1>4, <1>6
    <3>2. writer[v].pc \in {"edit", "admit"} => \A j \in writer[v].ids \ raced' :
            writer[v].event = "added" <=> j \notin Groups!Membership'
      BY <1>2, <1>5, <3>1 DEF Sound, Groups!Editing
    <3> QED
      BY <1>2, <3>1, <3>2 DEF Sound
  <2> QED
    BY <1>4, <2>1, <2>2
<1>9. AbsentIsEmpty' /\ Purpose' /\ AdmittedFits' /\ ViewStands'
  BY <1>2, <1>7, <1>8, WritersSoundThen
<1>10. Groups!TypeOK'
  <2>1. trail' \in Seq(Entry) /\ Len(trail') <= MaxTrail
    BY <1>1, <1>2 DEF Entry
  <2>2. trail' \in Groups!BoundedSeq(Entry, MaxTrail)
    BY <1>1, <2>1, TrailShape
  <2>3. \A v \in Writers : writer'[v] \in State
    BY <1>8 DEF Sound
  <2>4. writer' \in [Writers -> State]
    BY <1>3, <2>3 DEF GroupsInv, Groups!TypeOK
  <2> QED
    BY <1>2, <2>2, <2>4 DEF GroupsInv, Groups!TypeOK, Entry, State
<1>11. Groups!Homogeneous'
  BY <1>2, <1>5 DEF GroupsInv, Groups!Homogeneous, Groups!Membership
<1>12. Groups!TrailAlternates'
  <2> SUFFICES ASSUME NEW j \in Members \ raced', NEW m \in DOMAIN trail',
        NEW n \in DOMAIN trail',
                      m < n, trail'[m].id = j, trail'[n].id = j,
                      \A l \in DOMAIN trail' : m < l /\ l < n => trail'[l].id # j
               PROVE  trail'[m].event # trail'[n].event
    BY DEF Groups!TrailAlternates
  <2>1. /\ DOMAIN trail' = 1 .. Len(trail) + 1 /\ DOMAIN trail = 1 .. Len(trail)
        /\ Len(trail) \in Nat
        /\ \A l \in DOMAIN trail : trail'[l] = trail[l]
        /\ trail'[Len(trail) + 1] = [id |-> i, event |-> e]
    BY <1>1, <1>2
  <2>2. m \in DOMAIN trail /\ j \in Members \ raced
    BY <1>2, <2>1
  <2>3. CASE n \in DOMAIN trail
    BY <2>1, <2>2, <2>3 DEF GroupsInv, Groups!TrailAlternates
  <2>4. CASE n = Len(trail) + 1
    <3>1. j = i /\ trail'[n].event = e
      BY <2>1, <2>4
    <3>2. trail[m].id = i /\ \A l \in DOMAIN trail : m < l => trail[l].id # i
      BY <2>1, <2>2, <2>4, <3>1
    <3>3. Groups!NewestOf(i) = trail[m].event
      BY <1>1, <2>2, <3>2, NewestAt
    <3>4. e = "added" <=> i \notin Groups!Membership
      BY <1>6, <2>2, <3>1 DEF Sound, Groups!Editing
    <3>5. trail[m].event \in {"added", "removed"}
      <4>1. trail[m] \in Entry
        BY <1>1, <2>2
      <4> QED
        BY <4>1 DEF Entry
    <3> QED
      BY <2>1, <2>2, <3>1, <3>3, <3>4, <3>5 DEF Groups!Membership
  <2> QED
    BY <2>1, <2>3, <2>4
<1> QED
  BY <1>9, <1>10, <1>11, <1>12 DEF GroupsInv

(* A group that gets its type: a new one is empty, and an old one that had *)
(* members, or somebody about to join, is mixed.                           *)
LEMMA TypeStep ==
  ASSUME Groups!GroupsAssumption, GroupsInv, NEW w \in Writers, Groups!Insert(w)
        \/ Groups!SetType(w)
  PROVE  GroupsInv'
<1>1. \A v \in Writers : Sound(writer[v])
  BY WritersSound DEF GroupsInv
<1>2. writer[w].type \in Groups!EntityTypes /\ writer[w].pc \in {"insert", "read"}
  BY <1>1 DEF Groups!Insert, Groups!SetType, Sound
<1>3. /\ UNCHANGED <<trail, raced>> /\ gtype' \in {gtype, writer[w].type} /\ gtype' # "absent"
      /\ mixed => mixed'
  BY <1>1, <1>2 DEF Groups!Insert, Groups!SetType, GroupsInv, Groups!TypeOK,
        Groups!GroupsAssumption
<1>4. Groups!Membership' = Groups!Membership
  BY <1>3 DEF Groups!Membership, Groups!NewestOf
<1>5. gtype' # gtype => \/ trail = <<>> /\ \A v \in Writers : writer[v].pc # "admit"
                        \/ mixed'
                        \/ /\ \A i \in Groups!Membership : TypeOf[i] = gtype'
                           /\ \A v \in Writers : writer[v].pc # "admit"
  BY DEF Groups!Insert, Groups!SetType, GroupsInv, AbsentIsEmpty
<1>6. \A v \in Writers : writer'[v] = writer[v] \/
                         (v = w /\ writer'[v] = [writer[w] EXCEPT !.pc = "read"])
  BY DEF Groups!Insert, Groups!SetType, Groups!Go, GroupsInv, Groups!TypeOK
<1>7. Groups!TypeOK'
  <2>1. gtype' \in {"absent", "untyped"} \cup Groups!EntityTypes /\ mixed' \in BOOLEAN
    BY <1>2, <1>3 DEF Groups!Insert, Groups!SetType, GroupsInv, Groups!TypeOK
  <2>2. writer' = writer \/ writer' = [writer EXCEPT ![w] = [writer[w] EXCEPT !.pc = "read"]]
    BY DEF Groups!Insert, Groups!SetType, Groups!Go
  <2>3. writer' \in [Writers -> [pc : {"idle", "insert", "read", "edit", "admit"},
                               event : {"none", "added", "removed"},
                               type : {"none"} \cup Groups!EntityTypes,
                               ids : SUBSET Members, view : SUBSET Members]]
    BY <2>2 DEF GroupsInv, Groups!TypeOK
  <2> QED
    BY <1>3, <2>1, <2>3 DEF GroupsInv, Groups!TypeOK
<1>8. \A v \in Writers : Sound(writer[v])'
  <2> SUFFICES ASSUME NEW v \in Writers PROVE Sound(writer[v])'
    OBVIOUS
  <2>1. writer[v] \in State
    BY <1>1 DEF Sound
  <2>2. CASE writer'[v] = writer[v]
    <3>1. writer[v].pc = "admit" /\ gtype' \in Groups!EntityTypes /\ ~mixed' =>
            \A i \in writer[v].view : TypeOf[i] = gtype'
      BY <1>1, <1>3, <1>5 DEF Sound
    <3> QED
      BY <1>1, <1>3, <1>4, <2>2, <3>1 DEF Sound
  <2>3. CASE v = w /\ writer'[v] = [writer[w] EXCEPT !.pc = "read"]
    <3>1. /\ writer'[v] \in State /\ writer'[v].pc = "read"
          /\ writer'[v].event = writer[w].event /\ writer'[v].type = writer[w].type
      BY <2>1, <2>3 DEF State
    <3> QED
      BY <1>1, <1>2, <1>3, <3>1 DEF Sound
  <2> QED
    BY <1>6, <2>2, <2>3
<1>9. AbsentIsEmpty' /\ Purpose' /\ AdmittedFits' /\ ViewStands'
  BY <1>3, <1>8, WritersSoundThen
<1>10. Groups!Homogeneous'
  <2>1. trail = <<>> => Groups!Membership = {}
    BY DEF Groups!Membership, Groups!NewestOf
  <2> QED
    BY <1>3, <1>4, <1>5, <2>1 DEF GroupsInv, Groups!Homogeneous
<1>11. Groups!TrailAlternates'
  BY <1>3 DEF GroupsInv, Groups!TrailAlternates
<1> QED
  BY <1>7, <1>9, <1>10, <1>11 DEF GroupsInv

(* A group older than types has one event for each member.                 *)
(* What Groups counts is what the theorems about finite sets count.        *)
LEMMA MembersCounted ==
  ASSUME NEW S
  PROVE  (Groups!IsFiniteSet(S) <=> IsFiniteSet(S)) /\ Groups!Cardinality(S) = Cardinality(S)
<1>1. Groups!IsFiniteSet(S) <=> IsFiniteSet(S)
  BY DEF Groups!IsFiniteSet, IsFiniteSet
<1>2. Groups!Cardinality(S) = Cardinality(S)
  BY Zenon DEF Groups!Cardinality, Cardinality
<1> QED
  BY <1>1, <1>2

LEMMA MigratedStep ==
  ASSUME Groups!GroupsAssumption, GroupsInv, NEW ids \in SUBSET Legacy, Groups!Migrated(ids)
  PROVE  GroupsInv'
<1> DEFINE events == {[id |-> i, event |-> "added"] : i \in ids}
           n      == Cardinality(events)
<1>1. IsFiniteSet(ids) /\ Cardinality(ids) <= MaxTrail /\ Cardinality(ids) \in Nat
      /\ MaxTrail \in Nat
  BY MembersCounted, FS_Subset, FS_CardinalityType DEF Groups!GroupsAssumption
<1>2. IsFiniteSet(events) /\ n \in Nat /\ n <= MaxTrail
  <2> DEFINE f == [i \in ids |-> [id |-> i, event |-> "added"]]
  <2>1. f \in Surjection(ids, events)
    BY DEF Surjection
  <2>2. IsFiniteSet(events) /\ n <= Cardinality(ids)
    BY <1>1, <2>1, FS_Surjection
  <2> QED
    BY <1>1, <2>2, FS_CardinalityType
<1>3. trail' \in [1 .. n -> events] /\ \A a, b \in 1 .. n : trail'[a] = trail'[b] => a = b
  <2>1. ExistsBijection(1 .. n, events)
    BY <1>2, FS_CardinalityType
  <2>2. PICK g \in [1 .. n -> events] : Groups!IsInjective(g)
    BY <2>1 DEF ExistsBijection, Bijection, Injection, Groups!IsInjective, IsInjective
  <2>3. trail' = CHOOSE h \in [1 .. n -> events] : Groups!IsInjective(h)
    <3>1. trail' = CHOOSE h \in [1 .. Groups!Cardinality(events) -> events] : Groups!IsInjective(h)
      BY Zenon DEF Groups!Migrated, Groups!SetToSeq
    <3>2. Groups!Cardinality(events) = n
      BY MembersCounted
    <3> QED
      BY <3>1, <3>2, Zenon
  <2>4. trail' \in [1 .. n -> events] /\ Groups!IsInjective(trail')
    BY <2>2, <2>3
  <2> QED
    BY <2>4 DEF Groups!IsInjective
<1>4. events \subseteq Entry /\ \A e, d \in events : e.id = d.id => e = d
  BY DEF Entry, Groups!GroupsAssumption
<1> HIDE DEF events, n
<1>5. trail' \in Seq(Entry) /\ Len(trail') <= MaxTrail /\ DOMAIN trail' = 1 .. n
  <2>1. trail' \in [1 .. n -> Entry]
    BY <1>3, <1>4
  <2> QED
    BY <1>2, <2>1
<1>6. gtype' = "untyped" /\ UNCHANGED <<writer, mixed, raced>>
      /\ \A w \in Writers : writer[w] = Groups!Idle
  BY DEF Groups!Migrated
<1>7. Groups!TypeOK'
  <2>1. trail' \in Groups!BoundedSeq(Entry, MaxTrail)
    BY <1>1, <1>5, TrailShape
  <2> QED
    BY <1>6, <2>1 DEF GroupsInv, Groups!TypeOK, Entry
<1>8. AbsentIsEmpty' /\ Purpose' /\ AdmittedFits' /\ ViewStands'
  BY <1>6 DEF AbsentIsEmpty, Purpose, AdmittedFits, ViewStands, Groups!Editing, Groups!Idle
<1>9. Groups!Homogeneous'
  BY <1>6 DEF Groups!Homogeneous, Groups!GroupsAssumption
<1>10. Groups!TrailAlternates'
  <2>1. \A a, b \in DOMAIN trail' : trail'[a].id = trail'[b].id => a = b
    BY <1>3, <1>4, <1>5
  <2> QED
    BY <1>2, <1>5, <2>1 DEF Groups!TrailAlternates
<1> QED
  BY <1>7, <1>8, <1>9, <1>10 DEF GroupsInv

-----------------------------------------------------------------------------
LEMMA GroupsInit == ASSUME Groups!GroupsAssumption, Groups!Init PROVE GroupsInv
<1>1. Groups!TypeOK
  <2>1. MaxTrail \in Nat /\ trail = <<>>
    BY DEF Groups!Init, Groups!GroupsAssumption
  <2>2. <<>> \in Seq(Entry) /\ Len(<<>>) <= MaxTrail
    BY <2>1
  <2>3. trail \in Groups!BoundedSeq(Entry, MaxTrail)
    BY <2>1, <2>2, TrailShape
  <2> QED
    BY <2>3 DEF Groups!Init, Groups!TypeOK, Groups!Idle, Entry
<1>2. AbsentIsEmpty /\ Purpose /\ AdmittedFits /\ ViewStands
  BY DEF Groups!Init, Groups!Idle, AbsentIsEmpty, Purpose, AdmittedFits, ViewStands,
        Groups!Editing
<1>3. Groups!Homogeneous /\ Groups!TrailAlternates
  BY DEF Groups!Init, Groups!Homogeneous, Groups!TrailAlternates, Groups!GroupsAssumption
<1> QED
  BY <1>1, <1>2, <1>3 DEF GroupsInv

LEMMA GroupsNext == ASSUME Groups!GroupsAssumption, GroupsInv,
      [Groups!Next]_(Groups!gvars) PROVE GroupsInv'
<1>0. \A w \in Writers : Sound(writer[w]) /\ writer[w] \in State
  BY WritersSound DEF GroupsInv, Sound
<1>1. ASSUME NEW ids \in SUBSET Legacy, Groups!Migrated(ids) PROVE GroupsInv'
  BY <1>1, MigratedStep
<1>2. ASSUME NEW w \in Writers, NEW t \in Groups!EntityTypes, NEW ids \in SUBSET Members,
      Groups!Ensure(w, t, ids)
      PROVE  GroupsInv'
  <2>1. PICK st : /\ st = [pc |-> IF gtype = "absent" THEN "insert" ELSE "read",
                           event |-> "added", type |-> t, ids |-> ids, view |-> {}]
                  /\ Groups!Go(w, st) /\ UNCHANGED <<gtype, trail, mixed, raced>>
    BY <1>2 DEF Groups!Ensure
  <2>2. Sound(st)
    BY <2>1 DEF Sound, State
  <2> QED
    BY <2>1, <2>2, GoStep
<1>3. ASSUME NEW w \in Writers, NEW ids \in SUBSET Members, Groups!StartRemove(w, ids)
      PROVE GroupsInv'
  <2>1. PICK st : /\ st = [pc |-> "read", event |-> "removed", type |-> "none", ids |-> ids,
                           view |-> {}]
                  /\ Groups!Go(w, st) /\ UNCHANGED <<gtype, trail, mixed, raced>>
    BY <1>3 DEF Groups!StartRemove
  <2>2. Sound(st)
    BY <1>3, <2>1 DEF Sound, State, Groups!StartRemove
  <2> QED
    BY <2>1, <2>2, GoStep
<1>4. ASSUME NEW w \in Writers, Groups!Insert(w) \/ Groups!SetType(w) PROVE GroupsInv'
  BY <1>4, TypeStep
<1>5. ASSUME NEW w \in Writers, Groups!ReadMembers(w) PROVE GroupsInv'
  <2>1. PICK st : /\ st = IF Groups!Left(w) = {} THEN Groups!Idle
                          ELSE [writer[w] EXCEPT !.pc = "edit", !.ids = Groups!Left(w),
                                                 !.view = Groups!Membership]
                  /\ Groups!Go(w, st) /\ UNCHANGED <<gtype, trail, mixed, raced>>
    BY <1>5 DEF Groups!ReadMembers
  <2>2. writer[w].pc = "read" /\ gtype # "absent"
    BY <1>0, <1>5 DEF Groups!ReadMembers, Sound
  <2>3. CASE Groups!Left(w) = {}
    BY <2>1, <2>3, IdleSound, GoStep
  <2>4. CASE Groups!Left(w) # {}
    <3>1. Groups!Left(w) \in SUBSET Members /\ Groups!Membership \in SUBSET Members
      BY <1>0 DEF Groups!Left, Groups!Membership, State
    <3>2. /\ st \in State /\ st.pc = "edit" /\ st.ids = Groups!Left(w)
          /\ st.event = writer[w].event /\ st.type = writer[w].type
      BY <1>0, <2>1, <2>4, <3>1 DEF State
    <3>3. \A i \in Groups!Left(w) : writer[w].event = "added" <=> i \notin Groups!Membership
      BY DEF Groups!Left
    <3>4. Sound(st)
      BY <1>0, <2>2, <3>2, <3>3 DEF Sound
    <3> QED
      BY <2>1, <3>4, GoStep
  <2> QED
    BY <2>3, <2>4
<1>6. ASSUME NEW w \in Writers, Groups!Abandon(w) PROVE GroupsInv'
  BY <1>6, IdleSound, GoStep DEF Groups!Abandon
<1>7. ASSUME NEW w \in Writers, NEW i \in Members, Groups!CheckType(w, i) PROVE GroupsInv'
  <2>1. PICK st : /\ st = IF Groups!Admits(i) THEN [writer[w] EXCEPT !.pc = "admit", !.view = {i}]
                          ELSE Groups!Idle
                  /\ Groups!Go(w, st) /\ UNCHANGED <<gtype, trail, mixed, raced>>
    BY <1>7 DEF Groups!CheckType
  <2>2. CASE ~Groups!Admits(i)
    BY <2>1, <2>2, IdleSound, GoStep
  <2>3. CASE Groups!Admits(i)
    <3>1. /\ st \in State /\ st.pc = "admit" /\ st.view = {i} /\ st.ids = writer[w].ids
          /\ st.event = writer[w].event /\ st.type = writer[w].type
      BY <1>0, <2>1, <2>3 DEF State
    <3>2. Sound(st)
      BY <1>0, <1>7, <2>3, <3>1 DEF Sound, Groups!CheckType, Groups!Admits,
            Groups!GroupsAssumption
    <3> QED
      BY <2>1, <3>2, GoStep
  <2> QED
    BY <2>2, <2>3
<1>8. ASSUME NEW w \in Writers, NEW i \in Members, Groups!AddMember(w, i) PROVE GroupsInv'
  <2>1. /\ writer[w].pc = "admit" /\ writer[w].event = "added" /\ Groups!Editing(w, i)
        /\ gtype \in Groups!EntityTypes /\ ~mixed => TypeOf[i] = gtype
    BY <1>0, <1>8 DEF Groups!AddMember, Sound, Groups!Editing
  <2> QED
    BY <1>8, <2>1, AppendStep DEF Groups!AddMember
<1>9. ASSUME NEW w \in Writers, NEW i \in Members, Groups!RemoveMember(w, i) PROVE GroupsInv'
  BY <1>9, AppendStep DEF Groups!RemoveMember, Groups!Editing
<1>10. ASSUME UNCHANGED Groups!gvars PROVE GroupsInv'
  <2>1. Groups!Membership' = Groups!Membership
    BY <1>10 DEF Groups!gvars, Groups!Membership, Groups!NewestOf
  <2> QED
    BY <1>10, <2>1 DEF Groups!gvars, GroupsInv, Groups!TypeOK, AbsentIsEmpty, Purpose,
          AdmittedFits, ViewStands,
                       Groups!Editing, Groups!Homogeneous, Groups!TrailAlternates
<1> QED
  BY <1>1, <1>2, <1>3, <1>4, <1>5, <1>6, <1>7, <1>8, <1>9, <1>10 DEF Groups!Next

(* The inductive invariant.                                                *)
THEOREM GroupsInvariance == ASSUME Groups!GroupsAssumption PROVE Groups!Spec => []GroupsInv
<1>1. Groups!Init => GroupsInv
  BY GroupsInit
<1>2. GroupsInv /\ [Groups!Next]_(Groups!gvars) => GroupsInv'
  BY GroupsNext
<1> QED
  BY <1>1, <1>2, PTL DEF Groups!Spec

(* For any writers, members and types a typed group holds members of its   *)
(* type only, unless it was mixed before it had one, and nobody is added   *)
(* twice or removed twice in a row but by two writers at once (groups.go). *)
THEOREM BookIsKept == ASSUME Groups!GroupsAssumption PROVE Groups!Spec => []Groups!BookHolds
<1>1. GroupsInv => Groups!BookHolds
  BY DEF GroupsInv, Groups!BookHolds
<1> QED
  BY <1>1, GroupsInvariance, PTL
===============================================================================
