------------------------------- MODULE Bundle -------------------------------
(***************************************************************************)
(* A campaign bundle from `gtme freeze --bundle` on one machine to         *)
(* `gtme run` on another (internal/bundle, cli/freeze.go, adapters.Resolve *)
(* under BundleDir). The run being frozen keeps a snapshot of its pipeline *)
(* with the template texts in it; the bindings are those installed when it *)
(* is frozen. The files are written in no order, the manifest among them,  *)
(* and the write may be cut short; on the way a file may be changed or     *)
(* lost, its line in the manifest with it; the machine that runs the       *)
(* bundle has adapters of its own.                                         *)
(*                                                                         *)
(* A pipeline is a sequence of steps [id, use, base, text]: base and text  *)
(* of the step's template file, or NoFile. A file is [name, body], and a    *)
(* body what the properties tell apart: the binding and its version, a     *)
(* text, the template names of the document, the lines of the manifest; a  *)
(* hash is the body it stands for.                                         *)
(***************************************************************************)
EXTENDS Integers, Sequences, FiniteSets

CONSTANTS
  Pipelines,   \* the pipelines there are
  KindOf,      \* KindOf[use]: "binding", "shipped" (a built-in binding), "process", "builtin", "runner"
  Flat(_),     \* flatten: the directory of an adapter id, its slashes turned to dashes
  Named(_, _), \* the name under templates/ for a base, prefixed by a step id or by none
  ShipsType,   \* the bindings whose contract needs a type file they ship
  Versions,    \* versions of adapters, and of the gtme binary
  MaxUpdates   \* bound: adapters updated on the first machine

VARIABLES
  pipeline,    \* the snapshot of the run being frozen
  here,        \* the version of each adapter on the first machine
  there,       \* the same on the second, 0 where it is not installed
  files,       \* what Write has put together and the manifest lists
  todo,        \* what it has still to write
  folder,      \* the bundle's folder
  pc,          \* "run", "write", "moved", "loaded", "planned", "refused"
  resolved,    \* the version each step runs with on the second machine, 0 for none
  texts,       \* the template each step runs with there
  updates,     \* counted
  frozen       \* history: here, when the bundle was put together

bundleVars == <<pipeline, here, there, files, todo, folder, pc, resolved, texts, updates, frozen>>

Uses == DOMAIN KindOf
NoFile == "no file"
NoId == ""
Steps == DOMAIN pipeline
Travels(use) == KindOf[use] \in {"binding", "shipped"}

BundleAssumption ==
  /\ ShipsType \subseteq {u \in Uses : KindOf[u] = "binding"}
  /\ \A p \in Pipelines : p \in Seq([id : STRING, use : Uses, base : STRING, text : STRING])
  /\ Versions \subseteq Nat \ {0} /\ 1 \in Versions /\ MaxUpdates \in Nat
  \* Templates, bindings, the document and the manifest lie apart.
  /\ \A p \in Pipelines : \A i \in DOMAIN p : \A id \in {p[i].id, NoId} :
       Named(id, p[i].base) \notin {Flat(u) : u \in Uses} \cup {"pipeline.yaml", "manifest.json"}
  /\ \A u \in Uses : Flat(u) \notin {"pipeline.yaml", "manifest.json"}

\* What a machine may have of the pipeline's adapters.
Machines ==
  {m \in [Uses -> Versions \cup {0}] : \A u \in Uses :
     /\ KindOf[u] = "runner" \/ (\A i \in Steps : pipeline[i].use # u) => m[u] = 1
     /\ m[u] = 0 => KindOf[u] \in {"binding", "process"}}

Init ==
  /\ pipeline \in Pipelines
  /\ here = [u \in Uses |-> 1] /\ there = here
  /\ files = {} /\ todo = {} /\ folder = {} /\ pc = "run"
  /\ resolved = <<>> /\ texts = <<>> /\ updates = 0 /\ frozen = here

-----------------------------------------------------------------------------
(* Freezing.                                                               *)

\* Between the run and its freeze an adapter is updated.
Update ==
  /\ pc = "run" /\ updates < MaxUpdates /\ updates' = updates + 1
  /\ \E u \in Uses : Travels(u) /\ here[u] + 1 \in Versions /\ here' = [here EXCEPT ![u] = @ + 1]
  /\ UNCHANGED <<pipeline, there, files, todo, folder, pc, resolved, texts, frozen>>

\* packTemplates, step by step in the pipeline's order: a name that is taken
\* by another text is told apart by the step's id; whether that one is taken
\* too is not looked at. The files, and the name of each step.
Packed(steps) ==
  LET packed[i \in 0..Len(steps)] ==
        IF i = 0 THEN [files |-> {}, names |-> <<>>]
        ELSE LET before == packed[i - 1]
                 step == steps[i]
                 first == Named(NoId, step.base)
                 taken == \E f \in before.files : f.name = first /\ f.body # <<"text", step.text>>
                 name == IF taken THEN Named(step.id, step.base) ELSE first
             IN IF step.base = NoFile THEN [before EXCEPT !.names = Append(@, NoFile)]
                ELSE [files |-> {f \in before.files : f.name # name}
                                  \cup {[name |-> name, body |-> <<"text", step.text>>]},
                      names |-> Append(before.names, name)]
  IN packed[Len(steps)]

\* Write: every binding's files as Resolve finds them now, the last step of a
\* directory's name winning; bindingFiles leaves the types it ships behind.
Bindings ==
  LET used == {j \in Steps : Travels(pipeline[j].use)}
      last == {j \in used : \A k \in used : k > j => Flat(pipeline[k].use) # Flat(pipeline[j].use)}
  IN {[name |-> Flat(pipeline[j].use),
       body |-> <<"binding", pipeline[j].use, here[pipeline[j].use]>>] : j \in last}

\* The document names its templates; the manifest lists every file but itself.
Document == [name |-> "pipeline.yaml", body |-> <<"names", Packed(pipeline).names>>]
Contents == Packed(pipeline).files \cup Bindings \cup {Document}
Listing(lines) == [name |-> "manifest.json", body |-> <<"manifest", lines>>]
Manifest == Listing(Contents)

Freeze ==
  /\ pc = "run" /\ pc' = "write" /\ frozen' = here
  /\ files' = Contents \cup {Manifest}
  /\ todo' = files'
  /\ UNCHANGED <<pipeline, here, there, folder, resolved, texts, updates>>

WriteFile ==
  /\ pc = "write" /\ \E f \in todo : todo' = todo \ {f} /\ folder' = folder \cup {f}
  /\ UNCHANGED <<pipeline, here, there, files, pc, resolved, texts, updates, frozen>>

\* The folder travels as it is, even if the write was cut short.
Move ==
  /\ pc = "write" /\ pc' = "moved"
  /\ UNCHANGED <<pipeline, here, there, files, todo, folder, resolved, texts, updates, frozen>>

\* What a file may be changed to: a binding to another, a text to another
\* step's, the document to other of its templates, and what is parsed to
\* what cannot be.
Changed(f) ==
  LET templated == {i \in Steps : pipeline[i].base # NoFile}
      bodies == {<<"binding", u, v>> : u \in Uses, v \in Versions}
                  \cup {<<"text", pipeline[i].text>> : i \in Steps}
                  \cup {<<"names", [Document.body[2] EXCEPT ![i] = Document.body[2][j]]>> :
                          i, j \in templated}
      parsed == {b \in bodies : b[1] = f.body[1]}
      spoilt == IF f.body[1] = "text" THEN {} ELSE {<<"spoilt">>}
  IN {[name |-> f.name, body |-> b] : b \in (parsed \cup spoilt) \ {f.body}}

\* On the way a file is lost or changed, and its line in the manifest left as
\* it is, dropped or made to fit; or it is the manifest that is.
Spoil ==
  /\ pc = "moved" /\ folder = files
  /\ \/ \E f \in Contents : \E now \in {{f}, {}} \cup {{g} : g \in Changed(f)} :
          \E line \in {{f}, {}, now} :
            folder' = {g \in Contents : g.name # f.name} \cup now
                        \cup {Listing({g \in Contents : g.name # f.name} \cup line)}
     \/ \E now \in {{}, {[name |-> "manifest.json", body |-> <<"spoilt">>]}} :
          folder' = Contents \cup now
  /\ UNCHANGED <<pipeline, here, there, files, todo, pc, resolved, texts, updates, frozen>>

-----------------------------------------------------------------------------
(* The second machine.                                                     *)

Present(name) == \E f \in folder : f.name = name
Body(name) == (CHOOSE f \in folder : f.name = name).body

\* Load: the manifest, if it is there and can be read, and what it lists.
HasManifest == Present("manifest.json") /\ Body("manifest.json")[1] = "manifest"
Listed == Body("manifest.json")[2]

\* Mutant of Verified: a file that is not there is not missed.
VerifiedIfThere == HasManifest /\ \A f \in Listed : Present(f.name) => f \in folder

\* Load: each file the manifest lists, as it lists it; of what it does not
\* list, and of the manifest itself, nothing is asked.
Verified == HasManifest /\ Listed \subseteq folder

\* pipeline.Load: the document can be read, and each template it names.
Loads ==
  /\ Present("pipeline.yaml") /\ Body("pipeline.yaml")[1] = "names"
  /\ \A i \in Steps : pipeline[i].base # NoFile => Present(Body("pipeline.yaml")[2][i])

\* loadPipeline, on whatever machine: the folder is verified once, before
\* anything is read of it.
Load ==
  /\ pc = "moved" /\ there' \in Machines
  /\ pc' = IF Verified /\ Loads THEN "loaded" ELSE "refused"
  /\ UNCHANGED <<pipeline, here, files, todo, folder, resolved, texts, updates, frozen>>

\* Resolve: the bundle before the binary, the binary before the search path.
\* A directory that holds another id's binding, or none that can be read, is
\* an error.
Resolved(use) ==
  LET dir == Flat(use) IN
  IF KindOf[use] = "runner" THEN 1
  ELSE IF ~Present(dir) THEN there[use]
  ELSE IF Body(dir)[1] = "binding" /\ Body(dir)[2] = use THEN Body(dir)[3] ELSE 0

\* discover: the types of the bundle's directories, which have none, and of
\* what is installed.
TypesKnown(use) == use \in ShipsType => there[use] # 0

Template(i) ==
  IF pipeline[i].base = NoFile THEN NoFile ELSE Body(Body("pipeline.yaml")[2][i])[2]

\* The plan of the bundle's pipeline.
Plan ==
  LET runs == \A i \in Steps : Resolved(pipeline[i].use) # 0 /\ TypesKnown(pipeline[i].use) IN
  /\ pc = "loaded" /\ pc' = IF runs THEN "planned" ELSE "refused"
  /\ resolved' = IF runs THEN [i \in Steps |-> Resolved(pipeline[i].use)] ELSE <<>>
  /\ texts' = IF runs THEN [i \in Steps |-> Template(i)] ELSE <<>>
  /\ UNCHANGED <<pipeline, here, there, files, todo, folder, updates, frozen>>

Next == Update \/ Freeze \/ WriteFile \/ Move \/ Spoil \/ Load \/ Plan

Spec == Init /\ [][Next]_bundleVars

-----------------------------------------------------------------------------
(* Properties.                                                             *)

TypeOK ==
  /\ pipeline \in Pipelines /\ here \in [Uses -> Versions] /\ frozen \in [Uses -> Versions]
  /\ there \in [Uses -> Versions \cup {0}] /\ todo \subseteq files
  /\ pc \in {"run", "write", "moved", "loaded", "planned", "refused"}
  /\ updates \in 0..MaxUpdates
  /\ pc = "planned" => Len(resolved) = Len(pipeline) /\ Len(texts) = Len(pipeline)

\* The adapter ids of two steps that are flattened to one directory.
Collide(i, j) ==
  /\ pipeline[i].use # pipeline[j].use /\ Flat(pipeline[i].use) = Flat(pipeline[j].use)
  /\ Travels(pipeline[i].use) \/ Travels(pipeline[j].use)

\* A template whose packed name was written again with another's text.
Overwritten(i) ==
  \E f \in files : f.name = Packed(pipeline).names[i] /\ f.body # <<"text", pipeline[i].text>>

\* The manifest that travelled still lists what was frozen under a name.
Vouched(name) == \A f \in files : f.name = name => f \in Listed

\* What runs on the second machine is what was frozen on the first: every
\* binding at its version then, whatever that machine has of its own in its
\* binary or on its search path, every template with the run's text - but
\* for a text that packing another has overwritten. Waived for what the
\* manifest does not vouch for any more: nothing vouches for the manifest,
\* against the words "a tampered or truncated bundle fails loudly"
\* (bundle.go:201-203).
RunsAsFrozen ==
  pc = "planned" => \A i \in Steps :
    /\ Travels(pipeline[i].use) /\ Vouched(Flat(pipeline[i].use)) =>
         resolved[i] = frozen[pipeline[i].use]
    /\ pipeline[i].base # NoFile /\ Vouched("pipeline.yaml")
         /\ Vouched(Packed(pipeline).names[i]) =>
         texts[i] = pipeline[i].text \/ Overwritten(i)

\* Self-contained, and never half a bundle: under the manifest it was frozen
\* with it is planned whole, and it is refused only if a file is missing or
\* changed, or if the machine lacks what a bundle is known not to carry: a
\* process adapter, and - where the code falls short of its own claim - the
\* type files of a binding, and one of two colliding bindings.
RefusedForCause ==
  /\ pc = "planned" /\ Manifest \in folder => folder = files
  /\ pc = "refused" =>
       \/ folder # files
       \/ \E i \in Steps : there[pipeline[i].use] = 0 /\
            (KindOf[pipeline[i].use] = "process" \/ pipeline[i].use \in ShipsType)
       \/ \E i, j \in Steps : Collide(i, j)

BundleHolds == RunsAsFrozen /\ RefusedForCause
=============================================================================
