------------------------------- MODULE Types -------------------------------
(***************************************************************************)
(* The type files of a machine (internal/registry): what the binary embeds *)
(* and what discovery finds, folded one file at a time into a registry     *)
(* that must not depend on the order the directories are read in; the copy *)
(* `gtme adapters verify` makes of it with the files a fetched binding     *)
(* ships; and the two readings of a type's identity tiers, by the planner  *)
(* from field names (Coverage) and by the run from a record's values       *)
(* (Candidates).                                                           *)
(*                                                                         *)
(* A document is [valid, entity, kind, fields, identity, again]: whether   *)
(* the schema accepts it, the entity_type it declares, its kind, its       *)
(* fields' rules and references, its tiers, and a field it declares twice. *)
(* A tier is [field, hash]; a hash is a sequence of components, each the   *)
(* sequence of its alternatives, and an alternative is [names, ruled]:     *)
(* fields joined as they are, or one field under its own rule.             *)
(***************************************************************************)
EXTENDS Integers, Sequences, FiniteSets

CONSTANTS
  Names,       \* the names a type file may have
  Embedded,    \* the documents the binary embeds, by name
  Documents,   \* the contents a discovered file may have
  MaxFiles     \* bound: files discovered, and files a binding ships

VARIABLES
  found,       \* the files discovered, in the order they were read
  byEntity,    \* Registry.byEntity: the document a name stands for, or NoType
  problems,    \* Registry.problems: the names that cannot resolve
  shipped,     \* the files of the binding being verified, as far as read
  bound        \* WithBindingDir's copy, [byEntity, problems], or NoCopy

typesVars == <<found, byEntity, problems, shipped, bound>>

NoType == [valid |-> FALSE, entity |-> "none"]
NoCopy == [byEntity |-> <<>>, problems |-> {}]
NoField == "no field"
Unreadable == [valid |-> FALSE, entity |-> "unreadable"]

\* The rules whose values are public identifiers (identity.KeyRules).
KeyRules == {"email", "domain", "linkedin_url", "handle", "url"}
Rules == KeyRules \cup {"none", "trim", "lower"}

-----------------------------------------------------------------------------
(* One document.                                                           *)

SetOf(s) == {s[i] : i \in DOMAIN s}

\* The fields a hash tier reads, over its components and alternatives.
TierFields(tier) ==
  IF tier.field # NoField THEN {tier.field}
  ELSE UNION {SetOf(alt.names) : alt \in UNION {SetOf(tier.hash[i]) : i \in DOMAIN tier.hash}}

\* checkIdentity: a field tier names a field under a key rule, a hash tier
\* fields of the file, and a signal has no hash tier.
SoundTier(doc, tier) ==
  /\ TierFields(tier) \subseteq DOMAIN doc.fields
  /\ tier.field # NoField => doc.fields[tier.field].rule \in KeyRules
  /\ tier.field = NoField => doc.kind # "signal"

\* ParseType: every reason but the schema for which a file is no type.
Parses(doc) ==
  /\ doc.valid
  /\ \A f \in DOMAIN doc.fields : doc.fields[f].rule \in Rules
  /\ doc.again = NoField
  /\ \A i \in DOMAIN doc.identity : SoundTier(doc, doc.identity[i])
  /\ \A f \in DOMAIN doc.fields : doc.fields[f].reference \subseteq DOMAIN doc.fields

\* What the schema asks besides: a hash tier has a component.
Shaped(doc) ==
  /\ NoField \notin DOMAIN doc.fields
  /\ \A i \in DOMAIN doc.identity : LET tier == doc.identity[i] IN
       tier.field = NoField => 1 \in DOMAIN tier.hash

TypesAssumption ==
  /\ DOMAIN Embedded \subseteq Names /\ MaxFiles \in Nat
  /\ \A n \in DOMAIN Embedded : Parses(Embedded[n]) /\ Embedded[n].entity = n
  /\ \A doc \in Documents \cup SetOf(Embedded) : doc.valid => Shaped(doc)

-----------------------------------------------------------------------------
(* The registry: a record [byEntity, problems].                            *)

With(r, n, doc) == [r EXCEPT !.byEntity[n] = doc]
Problem(r, n) == [r EXCEPT !.problems = @ \cup {n}]

\* Mutant of Add: the first file of a name wins.
AddFirstWins(r, f) ==
  LET existing == r.byEntity[f.name] IN
  IF f.name \in DOMAIN Embedded THEN r
  ELSE IF f.doc = Unreadable THEN Problem(r, f.name)
  ELSE IF ~Parses(f.doc) \/ f.doc.entity # f.name
       THEN With(Problem(r, f.name), f.name, NoType)
  ELSE IF f.name \in r.problems \/ existing # NoType THEN r
  ELSE With(r, f.name, f.doc)

\* add: an embedded name is reserved; a file that cannot be read leaves what
\* stands and makes the name a problem; a file that is no type, or is named
\* after another, or disagrees, takes the type away with it.
Add(r, f) ==
  LET existing == r.byEntity[f.name] IN
  IF f.name \in DOMAIN Embedded THEN r
  ELSE IF f.doc = Unreadable THEN Problem(r, f.name)
  ELSE IF ~Parses(f.doc) \/ f.doc.entity # f.name
       THEN With(Problem(r, f.name), f.name, NoType)
  ELSE IF f.name \in r.problems \/ existing = f.doc THEN r
  ELSE IF existing # NoType THEN With(Problem(r, f.name), f.name, NoType)
  ELSE With(r, f.name, f.doc)

Registry == [byEntity |-> byEntity, problems |-> problems]

\* Resolve: a problem first, then the type.
Resolves(r, n) == n \notin r.problems /\ r.byEntity[n] # NoType

\* Known, which ValidateName asks: problems are not looked at.
Known(r, n) == r.byEntity[n] # NoType

\* ValidateName: a canonical name of the type, where the type is known.
Canonical(r, n, field) == Known(r, n) => field \in DOMAIN r.byEntity[n].fields

-----------------------------------------------------------------------------
(* The identity tiers, read twice. A value is "none" (absent), "blank",    *)
(* "bad" (its field's key rule rejects it) or "good".                      *)

RuleValue(doc, f, v) ==
  v = "good" \/ (v = "bad" /\ doc.fields[f].rule \notin KeyRules)

\* componentValue: an alternative yields a value or nothing.
Yields(doc, alt, rec) ==
  \A f \in SetOf(alt.names) :
    IF alt.ruled THEN RuleValue(doc, f, rec[f]) ELSE rec[f] \in {"good", "bad"}

\* tierValue: a hash needs its first component, the others give what they have.
TierValue(doc, tier, rec) ==
  IF tier.field # NoField THEN rec[tier.field] = "good"
  ELSE \E alt \in SetOf(tier.hash[1]) : Yields(doc, alt, rec)

\* Candidates: the tiers that yield a key, whose order is the tiers' own.
Candidates(doc, rec) == {i \in DOMAIN doc.identity : TierValue(doc, doc.identity[i], rec)}

\* Coverage: strong by a field tier, weak by the first component of a hash.
Strong(doc, have) == \E i \in DOMAIN doc.identity : doc.identity[i].field \in have
Weak(doc, have) ==
  \E i \in DOMAIN doc.identity :
    /\ doc.identity[i].field = NoField
    /\ \E alt \in SetOf(doc.identity[i].hash[1]) : SetOf(alt.names) \subseteq have

\* Contract, for a source or a traverse whose provides are listed: the type
\* resolves, the names are canonical, and a tier is covered.
Contract(r, n, provides) ==
  /\ Resolves(r, n)
  /\ \A f \in provides : Canonical(r, n, f)
  /\ provides # {} => Strong(r.byEntity[n], provides) \/ Weak(r.byEntity[n], provides)

-----------------------------------------------------------------------------
(* The process: load, discover, and a verify of a fetched directory.       *)

File == [name : Names, doc : Documents \cup {Unreadable}]

Init ==
  /\ found = <<>> /\ shipped = <<>> /\ bound = NoCopy /\ problems = {}
  /\ byEntity = [n \in Names |-> IF n \in DOMAIN Embedded THEN Embedded[n] ELSE NoType]

\* discover: the next file of the home directory or of a binding's.
Discover ==
  \E f \in File :
    /\ bound = NoCopy /\ Len(found) < MaxFiles
    /\ found' = Append(found, f)
    /\ byEntity' = Add(Registry, f).byEntity
    /\ problems' = Add(Registry, f).problems
    /\ UNCHANGED <<shipped, bound>>

\* WithBindingDir: a copy, and the files the directory ships folded into it.
Bind ==
  /\ bound = NoCopy /\ bound' = Registry
  /\ UNCHANGED <<found, byEntity, problems, shipped>>

Ship ==
  \E f \in File :
    /\ bound # NoCopy /\ Len(shipped) < MaxFiles
    /\ shipped' = Append(shipped, f)
    /\ bound' = Add(bound, f)
    /\ UNCHANGED <<found, byEntity, problems>>

Next == Discover \/ Bind \/ Ship

Spec == Init /\ [][Next]_typesVars

-----------------------------------------------------------------------------
(* Properties.                                                             *)

\* What the specification of types asks of the files of one name: embedded,
\* or at least one, all readable, sound, named right and of one content.
Stands(files, n) ==
  LET docs == {files[i].doc : i \in {j \in DOMAIN files : files[j].name = n}} IN
  \/ n \in DOMAIN Embedded
  \/ /\ Cardinality(docs) = 1 /\ Unreadable \notin docs
     /\ \A doc \in docs : Parses(doc) /\ doc.entity = n

TypeOK ==
  /\ found \in Seq(File) /\ shipped \in Seq(File) /\ problems \subseteq Names
  /\ byEntity \in [Names -> Documents \cup SetOf(Embedded) \cup {NoType}]
  /\ bound # NoCopy => DOMAIN bound.byEntity = Names /\ bound.problems \subseteq Names

\* Whatever files lie where and in whatever order they are read, a name
\* resolves exactly if its files agree on one sound type, in the registry a
\* run loads and in the copy a fetched binding is verified against; an
\* embedded type is never redefined; and a name that resolves no longer is
\* one the planner still takes for known, unless a file could not be read.
Agreement(r, files) ==
  /\ \A n \in Names : Resolves(r, n) <=> Stands(files, n)
  /\ \A n \in DOMAIN Embedded : r.byEntity[n] = Embedded[n]
  /\ \A n \in Names : Known(r, n) =>
       Resolves(r, n) \/ \E i \in DOMAIN files : files[i] = [name |-> n, doc |-> Unreadable]

\* The planner and the run read one list of tiers: a source whose contract
\* is accepted can emit a record that gets a key, and one whose contract is
\* refused for want of a key path never could.
KeysAgree(r) ==
  \A n \in {m \in Names : Resolves(r, m)} :
    LET doc == r.byEntity[n]
        Values == {"none", "blank", "bad", "good"}
        Given(have) == {rec \in [DOMAIN doc.fields -> Values] :
                          \A f \in DOMAIN rec : f \notin have => rec[f] = "none"}
    IN \A have \in (SUBSET DOMAIN doc.fields) \ {{}} :
         Contract(r, n, have) <=> \E rec \in Given(have) : Candidates(doc, rec) # {}

RegistryHolds ==
  /\ Agreement(Registry, found)
  /\ KeysAgree(Registry)
  /\ bound # NoCopy => Agreement(bound, found \o shipped)
=============================================================================
