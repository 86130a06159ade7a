----------------------------- MODULE PartsProofs ------------------------------
(***************************************************************************)
(* What the run of MCParts checks of a part whose own module has proofs    *)
(* follows from them: a behaviour of MCParts moves the part as its module  *)
(* says, or leaves it alone.                                               *)
(***************************************************************************)
EXTENDS MCParts, TLAPS

(* The pool moves while it is the part; its invariant is carried along.    *)
PoolInv == part = "dispatch" => Dispatch!IInv

LEMMA PoolInvariance == Spec => []PoolInv
<1>1. Init => PoolInv
  BY PartsAssumptions, Dispatch!InitIInv DEF Init, PoolInv
<1>2. PoolInv /\ [Next]_vars => PoolInv'
  <2> SUFFICES ASSUME PoolInv, [Next]_vars, part' = "dispatch" PROVE Dispatch!IInv'
    BY DEF PoolInv
  <2>1. part = "dispatch" /\ Dispatch!IInv
    BY DEF PoolInv, Next, vars
  <2>2. [Dispatch!Next]_(Dispatch!vars)
    BY <2>1 DEF Next, vars, dispatchVars, Dispatch!vars
  <2> QED
    BY PartsAssumptions, <2>1, <2>2, Dispatch!NextIInv
<1> QED
  BY <1>1, <1>2, PTL DEF Spec

(* What a step reports of its chunks is what became of them (step.go,      *)
(* dispatch).                                                              *)
THEOREM PoolIsAccounted == Spec => []PoolAccounts
<1>1. PoolInv => PoolAccounts
  BY PartsAssumptions, Dispatch!IInvAccounts DEF PoolInv, PoolAccounts
<1> QED
  BY <1>1, PoolInvariance, PTL

-----------------------------------------------------------------------------
(* The identities stand while another part moves.                          *)
LEMMA IdentitySteps == [Next]_vars => [Ledger!Identity!Next]_(Ledger!Identity!vars)
BY DEF Next, vars, identityVars, Ledger!Identity!vars

LEMMA IdentityInvariance == Spec => []Ledger!IdentityInv
<1>1. Init => Ledger!IdentityInv
  BY PartsAssumptions, Ledger!IdentityInit DEF Init
<1>2. Ledger!IdentityInv /\ [Next]_vars => Ledger!IdentityInv'
  BY PartsAssumptions, IdentitySteps, Ledger!IdentityNext
<1> QED
  BY <1>1, <1>2, PTL DEF Spec

(* An identity whose key stands is sent at most once (step.go,             *)
(* idempotencyKey).                                                        *)
THEOREM IdentityIsSentOnce == Spec => []OnceWhileKeyed
<1>1. Ledger!IdentityInv => OnceWhileKeyed
  BY DEF Ledger!IdentityInv, OnceWhileKeyed
<1> QED
  BY <1>1, IdentityInvariance, PTL

(* A key that led to an identity never leads nowhere (identities.go).      *)
THEOREM KeysStandForEver == Spec => KnownKeysStand
<1>1. Ledger!IdentityInv /\ Ledger!IdentityInv' /\ [Next]_vars =>
        [\A k \in {"email1", "email2", "slug", "hash"} : Ledger!Identity!Resolve(k) # "none" =>
           Ledger!Identity!Resolve(k)' \in {Ledger!Identity!Resolve(k), alias[k]}
                                            \ {"none"}]_(Ledger!Identity!vars)
  BY PartsAssumptions, IdentitySteps, Ledger!KeysStand DEF Ledger!IdentityInv
<1> QED
  BY <1>1, IdentityInvariance, PTL DEF Spec, KnownKeysStand, Ledger!Identity!KnownKeysStand

-----------------------------------------------------------------------------
(* The groups stand while another part moves.                              *)
LEMMA GroupsInvariance == Spec => []Ledger!GroupsInv
<1>1. Init => Ledger!GroupsInv
  BY PartsAssumptions, Ledger!GroupsInit DEF Init
<1>2. [Next]_vars => [Ledger!Groups!Next]_(Ledger!Groups!gvars)
  BY DEF Next, vars, groupsVars, Ledger!Groups!gvars
<1>3. Ledger!GroupsInv /\ [Next]_vars => Ledger!GroupsInv'
  BY PartsAssumptions, <1>2, Ledger!GroupsNext
<1> QED
  BY <1>1, <1>3, PTL DEF Spec

(* A typed group holds one type, and its trail stays clean (groups.go).    *)
THEOREM BookIsKept == Spec => []BookHolds
<1>1. Ledger!GroupsInv => BookHolds
  BY DEF Ledger!GroupsInv, Ledger!Groups!BookHolds, BookHolds
<1> QED
  BY <1>1, GroupsInvariance, PTL

(* So do the window of suppress:, a traverse, an installation, a file, the *)
(* judgment cache, the registry, a bundle, a step's receipt, a campaign, a *)
(* step that asks the ledger or a model, the source, a plan, a binding and *)
(* the pipes of a session.                                                 *)
LEMMA MachineSteps ==
  [Next]_vars => /\ [Proved!Suppression!Next]_(Proved!Suppression!spvars)
                 /\ [Proved!Traverse!Next]_(Proved!Traverse!tvars)
                 /\ [Proved!Install!Next]_(Proved!Install!installVars)
                 /\ [Proved!CsvFile!Next]_(Proved!CsvFile!csvVars)
                 /\ [Proved!Judgment!Next]_(Proved!Judgment!jvars)
                 /\ [Proved!TypeFiles!Next]_(Proved!TypeFiles!typesVars)
                 /\ [Proved!Bundle!Next]_(Proved!Bundle!bundleVars)
                 /\ [Step!Receipt!Next]_(Step!Receipt!rvars)
                 /\ [Step!Instantly!Next]_(Step!Instantly!instantlyVars)
                 /\ [Step!SqlStep!Next]_(Step!SqlStep!sqlVars)
                 /\ [Step!Intake!Next]_(Step!Intake!intakeVars)
                 /\ [Step!AiSteps!Next]_(Step!AiSteps!vars)
                 /\ [Proved!Plan!Next]_(Proved!Plan!pvars)
                 /\ [Step!Fetch!Next]_(Step!Fetch!vars)
                 /\ [Step!Wire!Next]_(Step!Wire!wvars)
<1>1. [Next]_vars => /\ [Proved!Suppression!Next]_(Proved!Suppression!spvars)
                     /\ [Proved!Traverse!Next]_(Proved!Traverse!tvars)
                     /\ [Proved!Install!Next]_(Proved!Install!installVars)
                     /\ [Proved!CsvFile!Next]_(Proved!CsvFile!csvVars)
                     /\ [Proved!Judgment!Next]_(Proved!Judgment!jvars)
  BY DEF Next, vars, suppressVars, traverseVars, installVars, csvVars, judgmentVars,
         Proved!Suppression!spvars, Proved!Traverse!tvars, Proved!Install!installVars,
         Proved!CsvFile!csvVars, Proved!Judgment!jvars
<1>2. [Next]_vars => /\ [Proved!TypeFiles!Next]_(Proved!TypeFiles!typesVars)
                     /\ [Proved!Bundle!Next]_(Proved!Bundle!bundleVars)
  BY DEF Next, vars, typesVars, bundleVars, Proved!TypeFiles!typesVars, Proved!Bundle!bundleVars
<1>3. [Next]_vars => /\ [Step!Receipt!Next]_(Step!Receipt!rvars)
                     /\ [Step!Instantly!Next]_(Step!Instantly!instantlyVars)
  BY DEF Next, vars, receiptVars, instantlyVars, Step!Receipt!rvars, Step!Instantly!instantlyVars
<1>4. [Next]_vars => /\ [Step!SqlStep!Next]_(Step!SqlStep!sqlVars)
                     /\ [Step!Intake!Next]_(Step!Intake!intakeVars)
                     /\ [Step!AiSteps!Next]_(Step!AiSteps!vars)
  BY DEF Next, vars, sqlVars, intakeVars, aiVars, Step!SqlStep!sqlVars, Step!Intake!intakeVars,
         Step!AiSteps!vars
<1>5. [Next]_vars => [Proved!Plan!Next]_(Proved!Plan!pvars)
  BY DEF Next, vars, planVars, Proved!Plan!pvars
<1>6. [Next]_vars => [Step!Fetch!Next]_(Step!Fetch!vars)
  BY DEF Next, vars, fetchVars, Step!Fetch!vars
<1>7. [Next]_vars => [Step!Wire!Next]_(Step!Wire!wvars)
  BY DEF Next, vars, wireVars, Step!Wire!wvars, Step!Wire!sendVars, Step!Wire!adapterVars,
         Step!Wire!readVars
<1> QED
  BY <1>1, <1>2, <1>3, <1>4, <1>5, <1>6, <1>7

LEMMA MachineInvariance ==
  Spec => [](/\ Proved!SuppressionInv /\ Proved!TraverseInv
             /\ Proved!InstallInv /\ Proved!FileInv /\ Proved!JudgmentInv
             /\ Proved!TypesInv /\ Proved!BundleInv /\ Proved!Bundle!TypeOK
             /\ Step!ReceiptInv /\ Step!InstantlyInv
             /\ Step!SqlInv /\ Step!IntakeInv /\ Step!AiInv
             /\ Proved!PlanInv /\ Step!FetchInv /\ Step!WireInv)
<1>1. Init => /\ Proved!SuppressionInv /\ Proved!TraverseInv
              /\ Proved!InstallInv /\ Proved!FileInv /\ Proved!JudgmentInv
              /\ Proved!TypesInv /\ Proved!BundleInv /\ Proved!Bundle!TypeOK
              /\ Step!ReceiptInv /\ Step!InstantlyInv
              /\ Step!SqlInv /\ Step!IntakeInv /\ Step!AiInv
              /\ Proved!PlanInv /\ Step!FetchInv /\ Step!WireInv
  <2> SUFFICES ASSUME Init PROVE /\ Proved!SuppressionInv /\ Proved!TraverseInv
                                 /\ Proved!InstallInv /\ Proved!FileInv /\ Proved!JudgmentInv
                                 /\ Proved!TypesInv /\ Proved!BundleInv /\ Proved!Bundle!TypeOK
                                 /\ Step!ReceiptInv /\ Step!InstantlyInv
                                 /\ Step!SqlInv /\ Step!IntakeInv /\ Step!AiInv
                                 /\ Proved!PlanInv /\ Step!FetchInv /\ Step!WireInv
    OBVIOUS
  <2>1. /\ Proved!SuppressionInv /\ Proved!TraverseInv
        /\ Proved!InstallInv /\ Proved!FileInv /\ Proved!JudgmentInv
    BY PartsAssumptions, Proved!SuppressionInit, Proved!TraverseInit, Proved!InstallInit,
       Proved!FileInit, Proved!JudgmentInit DEF Init
  <2>2. Proved!TypesInv /\ Proved!BundleInv
    BY PartsAssumptions, Proved!TypesInit, Proved!BundleInit DEF Init
  <2>3. Step!ReceiptInv /\ Step!InstantlyInv
    BY PartsAssumptions, Step!ReceiptInit, Step!InstantlyInit DEF Init
  <2>4. Step!SqlInv /\ Step!IntakeInv /\ Step!AiInv
    BY PartsAssumptions, Step!SqlInit, Step!IntakeInit, Step!AiInit DEF Init
  <2>5. Proved!PlanInv
    BY PartsAssumptions, Proved!PlanInit DEF Init
  <2>6. Step!FetchInv
    BY PartsAssumptions, Step!FetchInit DEF Init
  <2>7. Step!WireInv
    BY PartsAssumptions, Step!WireInit DEF Init
  <2>8. Proved!Bundle!TypeOK
    BY PartsAssumptions, Proved!BundleTypesInit DEF Init
  <2> QED
    BY <2>1, <2>2, <2>3, <2>4, <2>5, <2>6, <2>7, <2>8
<1>2. Proved!SuppressionInv /\ [Next]_vars => Proved!SuppressionInv'
  BY PartsAssumptions, MachineSteps, Proved!SuppressionNext
<1>3. Proved!TraverseInv /\ [Next]_vars => Proved!TraverseInv'
  BY PartsAssumptions, MachineSteps, Proved!TraverseNext
<1>4. Proved!InstallInv /\ [Next]_vars => Proved!InstallInv'
  BY PartsAssumptions, MachineSteps, Proved!InstallNext
<1>5. Proved!FileInv /\ [Next]_vars => Proved!FileInv'
  BY PartsAssumptions, MachineSteps, Proved!FileNext
<1>6. Proved!JudgmentInv /\ [Next]_vars => Proved!JudgmentInv'
  BY PartsAssumptions, MachineSteps, Proved!JudgmentNext
<1>7. Step!ReceiptInv /\ [Next]_vars => Step!ReceiptInv'
  BY PartsAssumptions, MachineSteps, Step!ReceiptNext
<1>8. Step!InstantlyInv /\ [Next]_vars => Step!InstantlyInv'
  BY PartsAssumptions, MachineSteps, Step!InstantlyNext
<1>9. Proved!TypesInv /\ [Next]_vars => Proved!TypesInv'
  BY PartsAssumptions, MachineSteps, Proved!TypesNext
<1>10. Proved!BundleInv /\ [Next]_vars => Proved!BundleInv'
  BY PartsAssumptions, MachineSteps, Proved!BundleNext
<1>11. Step!SqlInv /\ [Next]_vars => Step!SqlInv'
  BY PartsAssumptions, MachineSteps, Step!SqlNext
<1>12. Step!IntakeInv /\ [Next]_vars => Step!IntakeInv'
  BY PartsAssumptions, MachineSteps, Step!IntakeNext
<1>13. Step!AiInv /\ [Next]_vars => Step!AiInv'
  BY PartsAssumptions, MachineSteps, Step!AiNext
<1>14. Proved!PlanInv /\ [Next]_vars => Proved!PlanInv'
  BY PartsAssumptions, MachineSteps, Proved!PlanNext
<1>15. Step!FetchInv /\ [Next]_vars => Step!FetchInv'
  BY PartsAssumptions, MachineSteps, Step!FetchNext
<1>16. Step!WireInv /\ [Next]_vars => Step!WireInv'
  BY PartsAssumptions, MachineSteps, Step!WireNext
<1>17. Proved!BundleInv /\ Proved!Bundle!TypeOK /\ [Next]_vars => Proved!Bundle!TypeOK'
  BY PartsAssumptions, MachineSteps, Proved!BundleTypesNext
<1> QED
  BY <1>1, <1>2, <1>3, <1>4, <1>5, <1>6, <1>7, <1>8, <1>9, <1>10, <1>11, <1>12, <1>13, <1>14,
     <1>15, <1>16, <1>17, PTL DEF Spec

(* No two sends to a contact leave within the window, unless one was not   *)
(* seen by the other (step.go, ADR-021).                                   *)
THEOREM WindowIsKept == Spec => []WindowHolds
<1>1. Proved!SuppressionInv => WindowHolds
  BY DEF Proved!SuppressionInv, WindowHolds
<1> QED
  BY <1>1, MachineInvariance, PTL

(* The leg after a traverse is exactly the children of the leg before, and *)
(* only a retried parent is undone (traverse.go).                          *)
THEOREM SegmentIsKept == Spec => []SegmentHolds
<1>1. Proved!TraverseInv => SegmentHolds
  BY Proved!TraverseHolds DEF SegmentHolds
<1> QED
  BY <1>1, MachineInvariance, PTL

(* A pinned directory holds its pinned version only, and an adapter is     *)
(* there whole or not at all (adapterinstall).                             *)
THEOREM InstallIsKept == Spec => []InstallHolds
<1>1. Proved!InstallInv => InstallHolds
  BY Proved!InstalledHolds DEF InstallHolds
<1> QED
  BY <1>1, MachineInvariance, PTL

(* A row acknowledged is in the file, once, or was written over by another *)
(* process; a row denied is not there, unless another process came between *)
(* or its size could not be read again; the header comes first, unless its *)
(* own write failed (csvdeliver.go:176).                                   *)
THEOREM FileIsKept == Spec => []FileHolds
<1>1. Proved!FileInv => FileHolds
  BY Proved!FileKept DEF FileHolds
<1> QED
  BY <1>1, MachineInvariance, PTL

(* What is reused was answered, to that question about those facts, and    *)
(* the draft that leaves a compose is about them (judgment.go).            *)
THEOREM ReuseIsSound == Spec => []JudgmentIsReused
<1>1. Proved!JudgmentInv => JudgmentIsReused
  BY DEF Proved!JudgmentInv, JudgmentIsReused
<1> QED
  BY <1>1, MachineInvariance, PTL

(* An enrich adapter that wrote a field is not called, and paid, again     *)
(* within the window (step.go, cacheSkip).                                 *)
THEOREM PaidOnce == Spec => []PaidOncePerWindow
<1>1. Proved!JudgmentInv => PaidOncePerWindow
  BY DEF Proved!JudgmentInv, PaidOncePerWindow
<1> QED
  BY <1>1, MachineInvariance, PTL

(* A step's counters and the line gtme runs rebuilds from its events say   *)
(* the same, and that line has each record where the ledger has it         *)
(* (mirror.go, ADR-064).                                                   *)
THEOREM ReceiptIsTrue == Spec => []ReceiptHolds
<1>1. Step!ReceiptInv => ReceiptHolds
  BY PartsAssumptions, Step!ReceiptKept DEF ReceiptHolds
<1> QED
  BY <1>1, MachineInvariance, PTL

(* Nobody is mailed an email with a hole in it, what is attested is what   *)
(* Instantly stored, and a record is no more leads than were asked for     *)
(* (instantly.go, http.go).                                                *)
THEOREM CampaignIsKept == Spec => []InstantlyHolds
<1>1. Step!InstantlyInv => InstantlyHolds
  BY PartsAssumptions, Step!InstantlyKept DEF InstantlyHolds
<1> QED
  BY <1>1, MachineInvariance, PTL

(* A record goes past a step only as its newest judgment says, and a       *)
(* parent is finished only when every child its answer named is in the     *)
(* run (sqlstep.go, traverse.go).                                         *)
THEOREM JudgmentsStand == Spec => []SqlHolds
<1>1. Step!SqlInv => SqlHolds
  BY DEF Step!SqlInv, Step!SqlStep!SqlHolds, SqlHolds
<1> QED
  BY <1>1, MachineInvariance, PTL

(* When the steps of a run begin nobody of a whole session of its source   *)
(* is missing, each record is related as it says, the done event counts    *)
(* the records brought in, and a limit is kept (runner.go, runSource).     *)
THEOREM IntakeIsWhole == Spec => []IntakeHolds
<1>1. Step!IntakeInv => IntakeHolds
  BY PartsAssumptions, Step!IntakeKept DEF IntakeHolds
<1> QED
  BY <1>1, MachineInvariance, PTL

(* However a batch is halved, retried or collected, a record is answered   *)
(* once, by what the model said of it, and what the receipt says was       *)
(* spent is what the model charged, but for what is named (aisteps.go).    *)
THEOREM ModelIsPaid == Spec => []AnswersArePaid
<1>1. Step!AiInv => AnswersArePaid
  BY PartsAssumptions, Step!AiKept DEF AnswersArePaid
<1> QED
  BY <1>1, MachineInvariance, PTL

(* A name resolves exactly if its files agree on one sound type, in        *)
(* whatever order they were read, and the planner and the run read the     *)
(* same tiers of keys (registry.go, keys.go).                              *)
THEOREM RegistryIsSound == Spec => []RegistryHolds
<1>1. Proved!TypesInv => RegistryHolds
  BY PartsAssumptions, Proved!TypesKept DEF RegistryHolds
<1> QED
  BY <1>1, MachineInvariance, PTL

(* What runs on the second machine is what was frozen on the first, as far *)
(* as the manifest that travelled lists it so, and a bundle is refused     *)
(* only for what was lost or changed or what it does not carry (bundle.go). *)
THEOREM BundleIsKept == Spec => []BundleHolds
<1>1. Proved!BundleInv => BundleHolds
  BY PartsAssumptions, Proved!BundleKept DEF BundleHolds
<1> QED
  BY <1>1, MachineInvariance, PTL

(* A record is taken on through an accepted plan only as a type its step   *)
(* takes, and a field a step missed was promised before it by a step of    *)
(* the same leg, the traverse that opened it or one whose provides is      *)
(* open (planner.go, Build and ResolveStep).                               *)
THEOREM PlanIsKept == Spec => []PlanHolds
<1>1. Proved!PlanInv => PlanHolds
  BY PartsAssumptions, Proved!PlanKept DEF PlanHolds
<1> QED
  BY <1>1, MachineInvariance, PTL

(* A record a binding was given is answered once, by a word its error      *)
(* rules justify, and everything its pages hold within the limits is       *)
(* brought in, in order, once (engine.go, httpx.go).                        *)
THEOREM FetchIsKept == Spec => []FetchHolds
<1>1. Step!FetchInv => FetchHolds
  BY PartsAssumptions, Step!FetchKept DEF FetchHolds
<1> QED
  BY <1>1, MachineInvariance, PTL

(* A session of an adapter that is over ended well only if the adapter did *)
(* and every line it wrote was taken for a message (session.go).           *)
THEOREM SessionIsTruthful == Spec => []Step!Wire!EndsTruthfully
<1>1. Step!WireInv => Step!Wire!EndsTruthfully
  BY Step!WireKept
<1> QED
  BY <1>1, MachineInvariance, PTL

-----------------------------------------------------------------------------
(* The runs of a pipeline stand while another part moves.                  *)
LEMMA LifeInvariance == Spec => []Life!IInv
<1>1. Init => Life!IInv
  BY PartsAssumptions, Life!InitIInv DEF Init
<1>2. [Next]_vars => [Life!Next]_(Life!vars)
  BY DEF Next, vars, lifeVars, Life!vars, Life!ledger, Life!process, Life!history
<1>3. Life!IInv /\ [Next]_vars => Life!IInv'
  BY PartsAssumptions, <1>2, Life!NextIInv
<1> QED
  BY <1>1, <1>3, PTL DEF Spec

(* Every part is type correct, whatever its code does in whatever order.   *)
THEOREM TypesAreKept == Spec => []TypeOK
<1>1. Ledger!IdentityInv => Ledger!Identity!TypeOK
  BY DEF Ledger!IdentityInv
<1>2. Ledger!GroupsInv => Ledger!Groups!TypeOK
  BY DEF Ledger!GroupsInv
<1>3. PoolInv => (part = "dispatch" => Dispatch!TypeOK)
  BY DEF PoolInv, Dispatch!IInv
<1>4. Life!IInv => Life!TypeOK
  BY DEF Life!IInv
<1>5. /\ Proved!SuppressionInv => Proved!Suppression!TypeOK
      /\ Proved!TraverseInv => Proved!Traverse!TypeOK
  BY DEF Proved!SuppressionInv, Proved!TraverseInv
<1>6. /\ Proved!InstallInv => Proved!Install!TypeOK
      /\ Proved!FileInv => Proved!CsvFile!TypeOK
  BY DEF Proved!InstallInv, Proved!FileInv
<1>7. /\ Proved!JudgmentInv => Proved!Judgment!TypeOK
      /\ Proved!PlanInv => Proved!Plan!TypeOK
  BY DEF Proved!JudgmentInv, Proved!PlanInv, Proved!PlanTyped
<1>8. Proved!TypesInv => Proved!TypeFiles!TypeOK
  BY PartsAssumptions, Proved!TypesTyped
<1>9. /\ Step!ReceiptInv => Step!Receipt!TypeOK
      /\ Step!InstantlyInv => Step!Instantly!TypeOK
  BY DEF Step!ReceiptInv, Step!InstantlyInv
<1>10. /\ Step!SqlInv => Step!SqlStep!TypeOK
       /\ Step!IntakeInv => Step!Intake!TypeOK
  BY DEF Step!SqlInv, Step!IntakeInv, Step!IntakeTyped
<1>11. /\ Step!AiInv => Step!AiSteps!TypeOK
       /\ Step!FetchInv => Step!Fetch!TypeOK
       /\ Step!WireInv => Step!Wire!TypeOK
  BY DEF Step!AiInv, Step!FetchInv, Step!WireInv
<1>12. /\ Ledger!IdentityInv /\ Ledger!GroupsInv /\ PoolInv /\ Life!IInv
       /\ Proved!SuppressionInv /\ Proved!TraverseInv /\ Proved!InstallInv /\ Proved!FileInv
       /\ Proved!JudgmentInv /\ Proved!PlanInv /\ Proved!TypesInv /\ Proved!Bundle!TypeOK
       /\ Step!ReceiptInv /\ Step!InstantlyInv /\ Step!SqlInv /\ Step!IntakeInv
       /\ Step!AiInv /\ Step!FetchInv /\ Step!WireInv
       => TypeOK
  BY <1>1, <1>2, <1>3, <1>4, <1>5, <1>6, <1>7, <1>8, <1>9, <1>10, <1>11 DEF TypeOK
<1> QED
  BY <1>12, IdentityInvariance, GroupsInvariance, PoolInvariance, LifeInvariance,
     MachineInvariance, PTL
===============================================================================
