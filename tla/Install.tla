------------------------------ MODULE Install ------------------------------
(***************************************************************************)
(* `gtme adapters add` and `update` of one adapter on one machine          *)
(* (internal/cli/adapters.go, adapters_process.go, internal/adapterinstall)*)
(* down to the writes on disk, with a kill or a failed write between any   *)
(* two. A binding is written into its directory in place, or staged in     *)
(* <dir>.update and renamed; a process adapter always goes through         *)
(* swapInto. The publisher moves the branch and, later or never, the row   *)
(* of the registry index.                                                  *)
(*                                                                         *)
(* A tree is a function from file names to the version whose content the   *)
(* file has, 0 for none; Absent is a directory that is not there. A pin    *)
(* (.source.json) is the version it records: its commit and its hash.      *)
(***************************************************************************)
EXTENDS Integers, Sequences, FiniteSets

CONSTANTS
  Kinds,       \* the kinds of adapter: {"binding", "process"} or one of them
  Files,       \* file names, "doc" (binding.yaml or manifest.json) among them
  Content,     \* Content[v][f]: the content of file f in version v, 0 if it has none
  Sound,       \* the versions whose verify succeeds by themselves
  MaxKills     \* bound: commands killed or failed half-way

VARIABLES
  kind,        \* what the index lists the adapter as, and what it is
  head,        \* the newest version published
  row,         \* the version the index row names, or 0: unreachable, skipped, no row
  disk,        \* [slot -> [tree, pin]] of the directories an install may touch
  verb,        \* the command that runs: "none", "add" or "update"
  pc,          \* what it does next
  fetched,     \* the version in its temporary directory
  todo,        \* the files it has still to copy or remove
  kills,       \* commands killed or failed half-way
  verified,    \* history: the versions that passed verify and the hash check
  torn,        \* history: a write in the adapter's own directory was cut short
  mixed        \* history: a version was staged over what an earlier attempt left

installVars == <<kind, head, row, disk, verb, pc, fetched, todo, kills, verified, torn, mixed>>
command == <<verb, pc, fetched, todo>>

Versions == DOMAIN Content
NoPin == 0
Absent == [tree |-> [f \in Files |-> 0], pin |-> NoPin, there |-> FALSE]
Slots == {"dest", "update", "staging", "old"}

InstallAssumption ==
  /\ "doc" \in Files /\ MaxKills \in Nat /\ Sound \subseteq Versions
  /\ Content \in Seq([Files -> Nat]) /\ Content # <<>>
  /\ Kinds \subseteq {"binding", "process"} /\ \A v \in Versions : Content[v]["doc"] > 0

Tree(v) == [f \in Files |-> Content[v][f]]
FilesOf(v) == {f \in Files : Content[v][f] > 0}
Has(slot, f) == disk[slot].there /\ disk[slot].tree[f] > 0
dest == disk["dest"]

Init ==
  /\ kind \in Kinds /\ head = 1 /\ row \in {0, 1}
  /\ disk = [s \in Slots |-> Absent]
  /\ verb = "none" /\ pc = "idle" /\ fetched = 0 /\ todo = {}
  /\ kills = 0 /\ verified = {} /\ torn = FALSE /\ mixed = FALSE

-----------------------------------------------------------------------------
(* The publisher.                                                          *)

Publish ==
  /\ head + 1 \in Versions /\ head' = head + 1
  /\ UNCHANGED <<kind, row, disk, command, kills, verified, torn, mixed>>

\* The row is republished, or cannot be read from where the command runs.
Reindex ==
  /\ row' \in {0, head} \ {row}
  /\ UNCHANGED <<kind, head, disk, command, kills, verified, torn, mixed>>

-----------------------------------------------------------------------------
(* What is found installed.                                                *)

\* installedAdapterDir and ReadSource: a document to know it by, and a pin.
Installed == Has("dest", "doc")
Updatable == Installed /\ dest.pin # NoPin

\* registry.discover reads the types of every directory that holds a
\* binding.yaml, a staged one included; WithBindingDir adds the fetched ones.
Discovered == {s \in Slots : kind = "binding" /\ Has(s, "doc") /\ Has(s, "types")}
TypesAgree(v) ==
  LET contents == {disk[s].tree["types"] : s \in Discovered}
                    \cup {Content[v]["types"] : t \in {"types"} \cap FilesOf(v)}
  IN Cardinality(contents) <= 1

Verifies(v) == v \in Sound /\ ("types" \in Files => TypesAgree(v))

\* A file that carries the version's hash is what the index row reviewed.
HashAgrees(v) == row = 0 \/ Tree(row) = Tree(v)

-----------------------------------------------------------------------------
(* A command, up to its first write.                                       *)

\* addOne, resolveAddRef: a process adapter is the release its row names; a
\* binding the branch as it is now, its row's commit, or any other.
Reference == IF kind = "process" THEN {row} \ {0} ELSE 1..head

\* The archive, unpacked into a temporary directory or not at all.
Fetch ==
  /\ pc = "idle" /\ verb' \in {"add", "update"}
  /\ verb' = "update" => Updatable
  /\ fetched' \in Reference
  /\ pc' = "verify"
  /\ UNCHANGED <<kind, head, row, disk, todo, kills, verified, torn, mixed>>

Done == verb' = "none" /\ pc' = "idle" /\ fetched' = 0 /\ todo' = {}

\* fetchAndVerify's second half: verify, the hash against a row read after
\* the commit was resolved; add refuses a directory that exists, update a
\* pin that would not move.
Refuses ==
  \/ ~Verifies(fetched)
  \/ kind = "binding" /\ ~HashAgrees(fetched)
  \/ verb = "add" /\ dest.there
  \/ verb = "update" /\ fetched = dest.pin

Refuse ==
  /\ pc = "verify" /\ Refuses /\ Done
  /\ UNCHANGED <<kind, head, row, disk, kills, verified, torn, mixed>>

\* Where the tree is copied to.
Target == IF kind = "process" THEN "staging" ELSE IF verb = "add" THEN "dest" ELSE "update"

\* Mutant of Clears: nobody clears.
ClearsNothing == FALSE

\* swapInto clears what an earlier attempt left; update copies over it.
Clears == kind = "process"

Accept ==
  /\ pc = "verify" /\ ~Refuses
  /\ verified' = verified \cup {fetched}
  /\ mixed' = (mixed \/ (Target = "update" /\ disk["update"].there))
  /\ disk' = [s \in Slots |->
       CASE s = Target -> [(IF Clears THEN Absent ELSE disk[s]) EXCEPT !.there = TRUE]
         [] s = "old" /\ Clears -> Absent
         [] OTHER -> disk[s]]
  /\ pc' = "copy" /\ todo' = FilesOf(fetched)
  /\ UNCHANGED <<kind, head, row, verb, fetched, kills, torn>>

-----------------------------------------------------------------------------
(* The writes.                                                             *)

\* installTree: one file after the other.
Copy ==
  /\ pc = "copy"
  /\ \E f \in todo :
       /\ disk' = [disk EXCEPT ![Target].tree[f] = Content[fetched][f]]
       /\ todo' = todo \ {f}
  /\ UNCHANGED <<kind, head, row, verb, pc, fetched, kills, verified, torn, mixed>>

\* WriteSource beside the copied tree; add of a binding is done with it.
WritePin ==
  /\ pc = "copy" /\ todo = {}
  /\ disk' = [disk EXCEPT ![Target].pin = fetched]
  /\ IF Target = "dest" THEN Done
     ELSE /\ pc' = IF kind = "process" THEN "aside" ELSE "remove"
          /\ todo' = {f \in Files : dest.tree[f] > 0} \cup {"pin", "dir"}
          /\ UNCHANGED <<verb, fetched>>
  /\ UNCHANGED <<kind, head, row, kills, verified, torn, mixed>>

\* update: RemoveAll of the old directory, file by file, the directory last.
Remove ==
  /\ pc = "remove"
  /\ \E f \in todo :
       /\ f = "dir" => todo = {"dir"}
       /\ disk' = [disk EXCEPT !["dest"] =
            IF f = "dir" THEN Absent ELSE IF f = "pin" THEN [@ EXCEPT !.pin = NoPin]
            ELSE [@ EXCEPT !.tree[f] = 0]]
       /\ todo' = todo \ {f}
  /\ pc' = IF todo' = {} THEN "rename" ELSE pc
  /\ UNCHANGED <<kind, head, row, verb, fetched, kills, verified, torn, mixed>>

\* swapInto: the old directory aside, if there is one.
Aside ==
  /\ pc = "aside"
  /\ disk' = IF dest.there THEN [disk EXCEPT !["old"] = dest, !["dest"] = Absent] ELSE disk
  /\ pc' = "rename" /\ todo' = {}
  /\ UNCHANGED <<kind, head, row, verb, fetched, kills, verified, torn, mixed>>

Rename ==
  /\ pc = "rename"
  /\ disk' = [disk EXCEPT !["dest"] = disk[Target], ![Target] = Absent, !["old"] = Absent]
  /\ Done
  /\ UNCHANGED <<kind, head, row, kills, verified, torn, mixed>>

-----------------------------------------------------------------------------
(* What cuts a command short.                                              *)

InDest == pc = "remove" \/ (pc = "copy" /\ Target = "dest")

\* SIGKILL, a power cut, or a Ctrl-C: everything stays where it is.
Kill ==
  /\ pc # "idle" /\ kills < MaxKills /\ kills' = kills + 1
  /\ torn' = (torn \/ InDest)
  /\ Done
  /\ UNCHANGED <<kind, head, row, disk, verified, mixed>>

\* A write fails. What is staged is removed, but not by update's installTree;
\* a failed last rename puts the old process adapter back, and leaves the
\* staged binding, its own directory gone.
Fail ==
  LET cleans == kind = "process" \/ pc = "remove" \/ (pc = "copy" /\ todo = {} /\ verb = "update") IN
  /\ pc \in {"copy", "remove", "aside", "rename"} /\ kills < MaxKills /\ kills' = kills + 1
  /\ torn' = (torn \/ InDest)
  /\ disk' = [s \in Slots |->
       CASE s = Target /\ cleans /\ Target # "dest" -> Absent
         [] s = "dest" /\ kind = "process" /\ pc = "rename" -> disk["old"]
         [] s = "old" /\ kind = "process" /\ pc = "rename" -> Absent
         [] OTHER -> disk[s]]
  /\ Done
  /\ UNCHANGED <<kind, head, row, verified, mixed>>

Next ==
  \/ Publish \/ Reindex \/ Fetch \/ Refuse \/ Accept
  \/ Copy \/ WritePin \/ Remove \/ Aside \/ Rename
  \/ Kill \/ Fail

Spec == Init /\ [][Next]_installVars

-----------------------------------------------------------------------------
(* Properties.                                                             *)

TypeOK ==
  /\ kind \in Kinds /\ head \in Versions /\ row \in {0} \cup Versions
  /\ disk \in [Slots -> [tree : [Files -> Nat], pin : {NoPin} \cup Versions, there : BOOLEAN]]
  /\ verb \in {"none", "add", "update"} /\ fetched \in {0} \cup Versions
  /\ pc \in {"idle", "verify", "copy", "remove", "aside", "rename"}
  /\ todo \subseteq Files \cup {"pin", "dir"} /\ kills \in 0..MaxKills
  /\ verified \subseteq Versions /\ {torn, mixed} \subseteq BOOLEAN

\* Nothing installs unverified, and the pin is what is there: a pinned
\* directory has no file that is not its pinned version's, and that version
\* was verified - but for the leftovers an update is staged over (mixed).
PinIsTrue ==
  \A s \in Slots : disk[s].pin # NoPin =>
    /\ disk[s].pin \in verified
    /\ ~mixed => \A f \in Files : disk[s].tree[f] \in {0, Content[disk[s].pin][f]}

\* Once a command is over, the adapter is there whole and under its pin, or
\* not at all, so that add or update can go on from it. Always so for a
\* process adapter, even while a command runs; for a binding unless a write
\* in its own directory was cut short (torn).
Whole == dest = Absent \/ (dest.there /\ dest.pin # NoPin /\ dest.tree = Tree(dest.pin))
WholeOrGone == (kind = "process" \/ (pc = "idle" /\ ~torn /\ ~mixed)) => Whole

InstallHolds == PinIsTrue /\ WholeOrGone
=============================================================================
