----------------------- MODULE WorkspaceServicesProofs -----------------------
(***************************************************************************)
(* The properties of the services of a workspace, proved for all files,    *)
(* workspaces, statuses, presets and decisions and all limits and bounds.  *)
(*                                                                         *)
(* The definition: what was accepted names every file and directory by the *)
(* path it really has (InPlace), so that reading it again finds the same;  *)
(* directories and files that change behind the server disturb it.         *)
(*                                                                         *)
(* The control context: a reader holds the beginning of the text of a file *)
(* that was there (ReaderIsSound), and the time of every write is newer    *)
(* than any before it, so that a file whose size and times did not change  *)
(* holds what was read of it.                                              *)
(*                                                                         *)
(* The inspections: what the commands of a request printed is of commits   *)
(* that HEAD was at during the request (RequestOK), and the HEADs a run    *)
(* observes are of its duration (RunOK); whatever is put together of such  *)
(* output fits its schema and is evidence of such a commit (Fits).         *)
(***************************************************************************)
EXTENDS WorkspaceServices, FiniteSetTheorems, SequenceTheorems, TLAPS

-----------------------------------------------------------------------------
(* The decisions.                                                          *)

\* Beside the other services the decisions of the queues behave as they do
\* alone: what is proved of QueueDelivery holds of them here.
THEOREM QueueBehaves == WorkspaceSpec => Spec
<1>1. WorkspaceInit => Init
  BY DEF WorkspaceInit
<1>2. [WorkspaceNext]_workspaceVars => [Next]_vars
  BY DEF WorkspaceNext, QueueMoves, GitMoves, ContextMoves, DefinitionMoves,
         workspaceVars, queueVars
<1> QED BY <1>1, <1>2, PTL DEF WorkspaceSpec, Spec

-----------------------------------------------------------------------------
(* The definition.                                                         *)

\* The types of the definition's state.
DefinitionTypes ==
  /\ directory \in [Directories -> {"directory", "missing"} \cup Directories]
  /\ leaf \in [Directories \X Leaves -> {"file", "missing", "link"}]
  /\ live \subseteq Sessions
  /\ stored # Null => stored \in Definition!Workspaces

\* What a workspace names is where it says, under its canonical path.
InPlace(w) ==
  /\ Definition!DataDirectoryFound
  /\ \A n \in DOMAIN w.repositories :
       /\ Definition!Real(w.repositories[n].root) = w.repositories[n].root
       /\ ~Definition!HoldsDataDirectory(w.repositories[n].root)
  /\ \A n \in DOMAIN w.sources :
       Definition!CanonicalFile(w.sources[n].path) = w.sources[n].path
  /\ \A n \in DOMAIN w.methods : w.methods[n].type = "answer_file" =>
       Definition!CanonicalFile(w.methods[n].path) = w.methods[n].path
  /\ \A path \in {w.objective, w.plan} \ {Null} :
       Definition!CanonicalFile(path) = path

\* What is read of a workspace is what was accepted.
StoredIsSound ==
  (stored # Null /\ ~disturbed) =>
    /\ Definition!ValidGraph(stored)
    /\ InPlace(stored)
    /\ Definition!ValidBindings(stored, Sessions)
    /\ Definition!ValidPresets(stored)

\* The inductive invariant of the definition.
DefinitionInv == DefinitionTypes /\ StoredIsSound

\* A directory that has a real path has it for real.
LEMMA RealIsReal ==
  ASSUME DefinitionTypes, NEW d \in Directories \cup {Null},
         Definition!Real(d) # Null
  PROVE  /\ d \in Directories
         /\ Definition!Real(d) \in Directories
         /\ directory[Definition!Real(d)] = "directory"
         /\ Definition!Real(Definition!Real(d)) = Definition!Real(d)
BY DefinitionAssumption DEF DefinitionTypes, Definition!Real

\* A path that was made canonical stays as it is.
LEMMA CanonicalIsCanonical ==
  ASSUME DefinitionTypes, NEW path \in Directories \X Leaves,
         Definition!CanonicalFile(path) # Null
  PROVE  /\ Definition!CanonicalFile(path) \in Directories \X Leaves
         /\ Definition!CanonicalFile(Definition!CanonicalFile(path))
              = Definition!CanonicalFile(path)
BY RealIsReal, DefinitionAssumption DEF Definition!CanonicalFile

\* The parts of a workspace that become canonical.
RootsOf(s) ==
  [n \in DOMAIN s |-> [s[n] EXCEPT !.root = Definition!Real(s[n].root)]]
SourcesOf(s) ==
  [n \in DOMAIN s |->
     [s[n] EXCEPT !.path = Definition!CanonicalFile(s[n].path)]]
MethodsOf(s) ==
  [n \in DOMAIN s |->
     [s[n] EXCEPT !.path = Definition!OptionalFile(s[n].path)]]

\* Only roots and paths become canonical.
LEMMA CanonicalFields ==
  ASSUME NEW w \in Definition!Workspaces, NEW c, c = Definition!Canonical(w)
  PROVE  /\ c = [repositories |-> c.repositories, roles |-> w.roles,
                 workers |-> w.workers, sources |-> c.sources,
                 methods |-> c.methods, objective |-> c.objective,
                 plan |-> c.plan]
         /\ c.repositories = RootsOf(w.repositories)
         /\ c.sources = SourcesOf(w.sources)
         /\ c.methods = MethodsOf(w.methods)
         /\ c.objective = Definition!OptionalFile(w.objective)
         /\ c.plan = Definition!OptionalFile(w.plan)
BY DEF Definition!Canonical, Definition!KeysOf, Definition!Workspaces,
       RootsOf, SourcesOf, MethodsOf

\* A sequence of elements that are replaced one by one.
LEMMA SequenceOfThem ==
  ASSUME NEW S, NEW s \in Seq(S), NEW t \in [DOMAIN s -> S]
  PROVE  t \in Seq(S)
<1>1. DOMAIN s = 1..Len(s) /\ Len(s) \in Nat
  OBVIOUS
<1> QED BY <1>1, SeqDef


\* A file that may be left out.
LEMMA OptionalIsCanonical ==
  ASSUME DefinitionTypes, NEW path \in (Directories \X Leaves) \cup {Null},
         path # Null => Definition!CanonicalFile(path) # Null,
         NEW q, q = Definition!OptionalFile(path)
  PROVE  /\ q \in (Directories \X Leaves) \cup {Null}
         /\ q # Null => Definition!CanonicalFile(q) = q
<1>1. CASE path = Null
  BY <1>1, DefinitionAssumption DEF Definition!OptionalFile
<1>2. CASE path # Null
  <2>1. path \in Directories \X Leaves /\ q = Definition!CanonicalFile(path)
    BY <1>2 DEF Definition!OptionalFile
  <2>2. q \in Directories \X Leaves /\ Definition!CanonicalFile(q) = q
    BY <1>2, <2>1, CanonicalIsCanonical
  <2> QED BY <1>2, <2>1, <2>2 DEF Definition!OptionalFile
<1> QED BY <1>1, <1>2

\* The entries of a workspace.
RepositoryEntries ==
  [id : STRING, root : Directories, presets : SUBSET STRING]
SourceEntries ==
  [id : STRING, path : Directories \X Leaves, method : STRING \cup {Null}]
AnswerMethods ==
  [id : STRING, type : {"answer_file"}, path : Directories \X Leaves,
   role : {Null}]

\* The repositories with canonical roots.
LEMMA RootsStay ==
  ASSUME DefinitionTypes, NEW s \in Seq(RepositoryEntries), NEW t,
         \A n \in DOMAIN s :
           /\ Definition!Real(s[n].root) # Null
           /\ ~Definition!HoldsDataDirectory(Definition!Real(s[n].root)),
         t = RootsOf(s)
  PROVE  /\ t \in Seq(RepositoryEntries)
         /\ \A n \in DOMAIN t :
              /\ Definition!Real(t[n].root) = t[n].root
              /\ ~Definition!HoldsDataDirectory(t[n].root)
<1> USE DEF RootsOf
<1>1. ASSUME NEW n \in DOMAIN s
      PROVE  /\ t[n] \in RepositoryEntries
             /\ Definition!Real(t[n].root) = t[n].root
             /\ ~Definition!HoldsDataDirectory(t[n].root)
  <2>1. PICK e \in RepositoryEntries : e = s[n]
    OBVIOUS
  <2>2. PICK r : r = Definition!Real(e.root)
    OBVIOUS
  <2>3. e.root \in Directories
    BY DEF RepositoryEntries
  <2>4. r \in Directories /\ Definition!Real(r) = r
    BY <2>1, <2>2, <2>3, RealIsReal
  <2>5. t[n] = [e EXCEPT !.root = r]
    BY <2>1, <2>2
  <2>6. t[n] \in RepositoryEntries /\ t[n].root = r
    BY <2>4, <2>5 DEF RepositoryEntries
  <2> QED BY <2>1, <2>2, <2>4, <2>6
<1>2. DOMAIN t = DOMAIN s /\ t \in [DOMAIN s -> RepositoryEntries]
  BY <1>1
<1>3. t \in Seq(RepositoryEntries)
  BY <1>2, SequenceOfThem
<1> QED BY <1>1, <1>2, <1>3

\* The sources with canonical paths.
LEMMA SourcesStay ==
  ASSUME DefinitionTypes, NEW s \in Seq(SourceEntries), NEW t,
         \A n \in DOMAIN s : Definition!CanonicalFile(s[n].path) # Null,
         t = SourcesOf(s)
  PROVE  /\ t \in Seq(SourceEntries)
         /\ \A n \in DOMAIN t :
              Definition!CanonicalFile(t[n].path) = t[n].path
<1> USE DEF SourcesOf
<1>1. ASSUME NEW n \in DOMAIN s
      PROVE  /\ t[n] \in SourceEntries
             /\ Definition!CanonicalFile(t[n].path) = t[n].path
  <2>1. PICK e \in SourceEntries : e = s[n]
    OBVIOUS
  <2>2. PICK q : q = Definition!CanonicalFile(e.path)
    OBVIOUS
  <2>3. e.path \in Directories \X Leaves
    BY DEF SourceEntries
  <2>4. q \in Directories \X Leaves /\ Definition!CanonicalFile(q) = q
    BY <2>1, <2>2, <2>3, CanonicalIsCanonical
  <2>5. t[n] = [e EXCEPT !.path = q]
    BY <2>1, <2>2
  <2>6. t[n] \in SourceEntries /\ t[n].path = q
    BY <2>4, <2>5 DEF SourceEntries
  <2> QED BY <2>4, <2>6
<1>2. DOMAIN t = DOMAIN s /\ t \in [DOMAIN s -> SourceEntries]
  BY <1>1
<1>3. t \in Seq(SourceEntries)
  BY <1>2, SequenceOfThem
<1> QED BY <1>1, <1>2, <1>3

\* The delivery methods with canonical paths; a prompt has none.
LEMMA MethodsStay ==
  ASSUME DefinitionTypes, NEW s \in Seq(Definition!Methods), NEW t,
         \A n \in DOMAIN s : s[n].type = "answer_file" =>
           Definition!CanonicalFile(s[n].path) # Null,
         t = MethodsOf(s)
  PROVE  /\ t \in Seq(Definition!Methods)
         /\ \A n \in DOMAIN t : t[n].type = "answer_file" =>
              Definition!CanonicalFile(t[n].path) = t[n].path
<1> USE DEF MethodsOf
<1>1. ASSUME NEW n \in DOMAIN s
      PROVE  /\ t[n] \in Definition!Methods
             /\ t[n].type = "answer_file" =>
                  Definition!CanonicalFile(t[n].path) = t[n].path
  <2>1. PICK e \in Definition!Methods : e = s[n]
    OBVIOUS
  <2>2. PICK q : q = Definition!OptionalFile(e.path)
    OBVIOUS
  <2>3. t[n] = [e EXCEPT !.path = q]
    BY <2>1, <2>2
  <2>4. CASE e \in AnswerMethods
    <3>1. /\ e.path \in Directories \X Leaves /\ e.type = "answer_file"
          /\ e.path # Null
      BY <2>4, DefinitionAssumption DEF AnswerMethods
    <3>2. Definition!CanonicalFile(e.path) # Null
      BY <2>1, <3>1
    <3>3. q = Definition!CanonicalFile(e.path)
      BY <2>2, <3>1 DEF Definition!OptionalFile
    <3>4. q \in Directories \X Leaves /\ Definition!CanonicalFile(q) = q
      BY <3>1, <3>2, <3>3, CanonicalIsCanonical
    <3>5. t[n] \in AnswerMethods /\ t[n].path = q
      BY <2>3, <2>4, <3>4 DEF AnswerMethods
    <3>6. AnswerMethods \subseteq Definition!Methods
      BY DEF AnswerMethods, Definition!Methods, Definition!Files
    <3> QED BY <3>4, <3>5, <3>6
  <2>5. CASE e \notin AnswerMethods
    <3>1. e.path = Null /\ e.type = "role_prompt"
      BY <2>5 DEF AnswerMethods, Definition!Methods, Definition!Files
    <3>2. q = Null
      BY <2>2, <3>1 DEF Definition!OptionalFile
    <3>3. t[n] = e
      BY <2>3, <3>1, <3>2 DEF Definition!Methods
    <3> QED BY <3>1, <3>3
  <2> QED BY <2>4, <2>5
<1>2. DOMAIN t = DOMAIN s /\ t \in [DOMAIN s -> Definition!Methods]
  BY <1>1
<1>3. t \in Seq(Definition!Methods)
  BY <1>2, SequenceOfThem
<1> QED BY <1>1, <1>2, <1>3

\* The types of the parts of a workspace.
LEMMA WorkspaceParts ==
  ASSUME NEW w \in Definition!Workspaces
  PROVE  /\ w.repositories \in Seq(RepositoryEntries)
         /\ w.sources \in Seq(SourceEntries)
         /\ w.methods \in Seq(Definition!Methods)
         /\ w.objective \in (Directories \X Leaves) \cup {Null}
         /\ w.plan \in (Directories \X Leaves) \cup {Null}
BY DEF Definition!Workspaces, Definition!Files, RepositoryEntries,
       SourceEntries

\* What became canonical is a workspace, and in place.
LEMMA CanonicalStays ==
  ASSUME DefinitionTypes, NEW w \in Definition!Workspaces,
         Definition!PathsAreSafe(w), NEW c, c = Definition!Canonical(w)
  PROVE  c \in Definition!Workspaces /\ InPlace(c)
<1>1. /\ w.repositories \in Seq(RepositoryEntries)
      /\ w.sources \in Seq(SourceEntries)
      /\ w.methods \in Seq(Definition!Methods)
      /\ w.objective \in (Directories \X Leaves) \cup {Null}
      /\ w.plan \in (Directories \X Leaves) \cup {Null}
  BY WorkspaceParts
<1>2. /\ c = [repositories |-> c.repositories, roles |-> w.roles,
              workers |-> w.workers, sources |-> c.sources,
              methods |-> c.methods, objective |-> c.objective,
              plan |-> c.plan]
      /\ c.repositories = RootsOf(w.repositories)
      /\ c.sources = SourcesOf(w.sources)
      /\ c.methods = MethodsOf(w.methods)
      /\ c.objective = Definition!OptionalFile(w.objective)
      /\ c.plan = Definition!OptionalFile(w.plan)
  BY CanonicalFields
<1>3. /\ c.repositories \in Seq(RepositoryEntries)
      /\ \A n \in DOMAIN c.repositories :
           /\ Definition!Real(c.repositories[n].root)
                = c.repositories[n].root
           /\ ~Definition!HoldsDataDirectory(c.repositories[n].root)
  <2>1. \A n \in DOMAIN w.repositories :
          /\ Definition!Real(w.repositories[n].root) # Null
          /\ ~Definition!HoldsDataDirectory(
                Definition!Real(w.repositories[n].root))
    BY DEF Definition!PathsAreSafe, Definition!ToSet
  <2> QED BY <1>1, <1>2, <2>1, RootsStay
<1>4. /\ c.sources \in Seq(SourceEntries)
      /\ \A n \in DOMAIN c.sources :
           Definition!CanonicalFile(c.sources[n].path) = c.sources[n].path
  <2>1. \A n \in DOMAIN w.sources :
          Definition!CanonicalFile(w.sources[n].path) # Null
    BY DEF Definition!PathsAreSafe, Definition!ToSet
  <2> QED BY <1>1, <1>2, <2>1, SourcesStay
<1>5. /\ c.methods \in Seq(Definition!Methods)
      /\ \A n \in DOMAIN c.methods : c.methods[n].type = "answer_file" =>
           Definition!CanonicalFile(c.methods[n].path) = c.methods[n].path
  <2>1. \A n \in DOMAIN w.methods : w.methods[n].type = "answer_file" =>
          Definition!CanonicalFile(w.methods[n].path) # Null
    BY DEF Definition!PathsAreSafe, Definition!AnswerFiles, Definition!ToSet
  <2> QED BY <1>1, <1>2, <2>1, MethodsStay
<1>6. /\ c.objective \in (Directories \X Leaves) \cup {Null}
      /\ c.objective # Null =>
           Definition!CanonicalFile(c.objective) = c.objective
  <2>1. w.objective # Null => Definition!CanonicalFile(w.objective) # Null
    BY DEF Definition!PathsAreSafe
  <2> QED BY <2>1, <1>1, <1>2, OptionalIsCanonical
<1>7. /\ c.plan \in (Directories \X Leaves) \cup {Null}
      /\ c.plan # Null => Definition!CanonicalFile(c.plan) = c.plan
  <2>1. w.plan # Null => Definition!CanonicalFile(w.plan) # Null
    BY DEF Definition!PathsAreSafe
  <2> QED BY <2>1, <1>1, <1>2, OptionalIsCanonical
<1>8. c \in Definition!Workspaces
  <2>1. /\ w.roles \in [meta : Definition!SlotBindings \cup {Null},
                        orchestrator : Definition!SlotBindings \cup {Null}]
        /\ w.workers \in Seq([id : STRING,
                              binding : Definition!SlotBindings])
    BY DEF Definition!Workspaces
  <2>2. \A rs, ss, ms, o, p :
          /\ rs \in Seq(RepositoryEntries) /\ ss \in Seq(SourceEntries)
          /\ ms \in Seq(Definition!Methods)
          /\ o \in (Directories \X Leaves) \cup {Null}
          /\ p \in (Directories \X Leaves) \cup {Null}
          => [repositories |-> rs, roles |-> w.roles, workers |-> w.workers,
              sources |-> ss, methods |-> ms, objective |-> o, plan |-> p]
               \in Definition!Workspaces
    BY <2>1 DEF Definition!Workspaces, Definition!Files, RepositoryEntries,
               SourceEntries
  <2>3. /\ c.repositories \in Seq(RepositoryEntries)
        /\ c.sources \in Seq(SourceEntries)
        /\ c.methods \in Seq(Definition!Methods)
        /\ c.objective \in (Directories \X Leaves) \cup {Null}
        /\ c.plan \in (Directories \X Leaves) \cup {Null}
    BY <1>3, <1>4, <1>5, <1>6, <1>7
  <2>4. [repositories |-> c.repositories, roles |-> w.roles,
         workers |-> w.workers, sources |-> c.sources, methods |-> c.methods,
         objective |-> c.objective, plan |-> c.plan] \in Definition!Workspaces
    BY <2>2, <2>3
  <2>5. c = [repositories |-> c.repositories, roles |-> w.roles,
             workers |-> w.workers, sources |-> c.sources,
             methods |-> c.methods, objective |-> c.objective,
             plan |-> c.plan]
    BY <1>2
  <2> QED BY <2>4, <2>5
<1>9. Definition!DataDirectoryFound
  BY DEF Definition!PathsAreSafe
<1> QED BY <1>3, <1>4, <1>5, <1>6, <1>7, <1>8, <1>9 DEF InPlace

\* A workspace in place is canonical, and its paths are safe.
LEMMA InPlaceIsCanonical ==
  ASSUME DefinitionTypes, NEW w \in Definition!Workspaces, InPlace(w)
  PROVE  Definition!Canonical(w) = w /\ Definition!PathsAreSafe(w)
<1>1. /\ w.repositories \in Seq(RepositoryEntries)
      /\ w.sources \in Seq(SourceEntries)
      /\ w.methods \in Seq(Definition!Methods)
      /\ w.objective \in (Directories \X Leaves) \cup {Null}
      /\ w.plan \in (Directories \X Leaves) \cup {Null}
  BY WorkspaceParts
<1>2. ASSUME NEW s \in Seq(RepositoryEntries), s = w.repositories
      PROVE  /\ RootsOf(s) = s
             /\ \A r \in Definition!ToSet(s) :
                  /\ Definition!Real(r.root) # Null
                  /\ ~Definition!HoldsDataDirectory(Definition!Real(r.root))
  <2>1. \A n \in DOMAIN s :
          /\ Definition!Real(s[n].root) = s[n].root
          /\ ~Definition!HoldsDataDirectory(s[n].root)
    BY <1>2 DEF InPlace
  <2>2. \A e \in RepositoryEntries :
          e.root \in Directories /\ [e EXCEPT !.root = e.root] = e
    BY DEF RepositoryEntries
  <2>3. RootsOf(s) = s
    BY <2>1, <2>2 DEF RootsOf
  <2> QED BY <2>1, <2>2, <2>3, DefinitionAssumption DEF Definition!ToSet
<1>3. ASSUME NEW s \in Seq(SourceEntries), s = w.sources
      PROVE  /\ SourcesOf(s) = s
             /\ \A e \in Definition!ToSet(s) :
                  Definition!CanonicalFile(e.path) # Null
  <2>1. \A n \in DOMAIN s : Definition!CanonicalFile(s[n].path) = s[n].path
    BY <1>3 DEF InPlace
  <2>2. \A e \in SourceEntries :
          e.path \in Directories \X Leaves /\ [e EXCEPT !.path = e.path] = e
    BY DEF SourceEntries
  <2>3. SourcesOf(s) = s
    BY <2>1, <2>2 DEF SourcesOf
  <2> QED BY <2>1, <2>2, <2>3, DefinitionAssumption DEF Definition!ToSet
<1>4. ASSUME NEW s \in Seq(Definition!Methods), s = w.methods
      PROVE  /\ MethodsOf(s) = s
             /\ \A e \in Definition!ToSet(s) : e.type = "answer_file" =>
                  Definition!CanonicalFile(e.path) # Null
  <2>1. \A n \in DOMAIN s : s[n].type = "answer_file" =>
          Definition!CanonicalFile(s[n].path) = s[n].path
    BY <1>4 DEF InPlace
  <2>2. \A n \in DOMAIN s :
          /\ s[n].type = "answer_file" => s[n].path \in Directories \X Leaves
          /\ s[n].type # "answer_file" => s[n].path = Null
          /\ [s[n] EXCEPT !.path = s[n].path] = s[n]
    BY DEF Definition!Methods, Definition!Files
  <2>3. \A n \in DOMAIN s : Definition!OptionalFile(s[n].path) = s[n].path
    BY <2>1, <2>2 DEF Definition!OptionalFile
  <2>4. MethodsOf(s) = s
    BY <2>2, <2>3 DEF MethodsOf
  <2> QED BY <2>1, <2>2, <2>4, DefinitionAssumption DEF Definition!ToSet
<1>5. /\ Definition!OptionalFile(w.objective) = w.objective
      /\ Definition!OptionalFile(w.plan) = w.plan
      /\ \A path \in {w.objective, w.plan} \ {Null} :
           Definition!CanonicalFile(path) # Null
  BY DEF InPlace, Definition!OptionalFile
<1>6. Definition!Canonical(w) = w
  <2>1. PICK d : d = Definition!Canonical(w)
    OBVIOUS
  <2>2. /\ d = [repositories |-> d.repositories, roles |-> w.roles,
                workers |-> w.workers, sources |-> d.sources,
                methods |-> d.methods, objective |-> d.objective,
                plan |-> d.plan]
        /\ d.repositories = RootsOf(w.repositories)
        /\ d.sources = SourcesOf(w.sources)
        /\ d.methods = MethodsOf(w.methods)
        /\ d.objective = Definition!OptionalFile(w.objective)
        /\ d.plan = Definition!OptionalFile(w.plan)
    BY <2>1, CanonicalFields
  <2>3. /\ d.repositories = w.repositories /\ d.sources = w.sources
        /\ d.methods = w.methods
        /\ d.objective = w.objective /\ d.plan = w.plan
    BY <2>2, <1>1, <1>2, <1>3, <1>4, <1>5
  <2>4. w = [repositories |-> w.repositories, roles |-> w.roles,
             workers |-> w.workers, sources |-> w.sources,
             methods |-> w.methods, objective |-> w.objective,
             plan |-> w.plan]
    BY DEF Definition!Workspaces
  <2> QED BY <2>1, <2>2, <2>3, <2>4
<1>7. Definition!PathsAreSafe(w)
  <2>1. Definition!DataDirectoryFound
    BY DEF InPlace
  <2>2. \A m \in Definition!AnswerFiles(w) :
          Definition!CanonicalFile(m.path) # Null
    BY <1>1, <1>4 DEF Definition!AnswerFiles
  <2> QED BY <2>1, <2>2, <1>1, <1>2, <1>3, <1>5 DEF Definition!PathsAreSafe
<1> QED BY <1>6, <1>7


\* Nothing is stored at first.
LEMMA DefinitionStarts == Definition!DefinitionInit => DefinitionInv
BY DEF Definition!DefinitionInit, DefinitionInv, DefinitionTypes,
       StoredIsSound, Definition!Files

\* What is accepted is canonical, and its sessions are of this server.
LEMMA ReplaceKeeps ==
  ASSUME DefinitionInv, NEW w \in Drafts, Definition!Replace(w)
  PROVE  DefinitionInv'
<1>1. PICK c : c = Definition!Canonical(w)
  OBVIOUS
<1>2. /\ stored' = c
      /\ Definition!PathsAreSafe(w) /\ Definition!ValidGraph(c)
      /\ Definition!ValidBindings(c, live) /\ Definition!ValidPresets(c)
  BY <1>1 DEF Definition!Replace, Definition!Normalized
<1>3. c \in Definition!Workspaces /\ InPlace(c)
  BY <1>1, <1>2, DefinitionAssumption, CanonicalStays DEF DefinitionInv
<1>4. UNCHANGED <<directory, leaf, live, launchable, catalog>>
  BY DEF Definition!Replace, Definition!fileSystem, Definition!serverVars
<1>5. InPlace(c)'
  BY <1>3, <1>4
     DEF InPlace, Definition!DataDirectoryFound,
         Definition!HoldsDataDirectory, Definition!CanonicalFile,
         Definition!Real
<1>6. Definition!ValidBindings(c, Sessions)'
  BY <1>2, <1>4
     DEF Definition!ValidBindings, DefinitionInv, DefinitionTypes
<1>7. Definition!ValidPresets(c)'
  BY <1>2, <1>4 DEF Definition!ValidPresets, Definition!PresetsOf
<1>8. DefinitionTypes'
  BY <1>2, <1>3, <1>4 DEF DefinitionInv, DefinitionTypes
<1>9. StoredIsSound'
  BY <1>2, <1>5, <1>6, <1>7 DEF StoredIsSound
<1> QED BY <1>8, <1>9 DEF DefinitionInv

\* A stored workspace that stays in place stays sound.
LEMMA StaysSound ==
  ASSUME DefinitionInv, stored' = stored, DefinitionTypes',
         ~disturbed' => ~disturbed /\ UNCHANGED <<launchable, catalog>>,
         NEW w, w = stored,
         (w # Null /\ ~disturbed' /\ InPlace(w)) => InPlace(w)'
  PROVE  DefinitionInv'
<1>1. CASE stored # Null /\ ~disturbed'
  <2>1. /\ Definition!ValidGraph(w) /\ InPlace(w)
        /\ Definition!ValidBindings(w, Sessions)
        /\ Definition!ValidPresets(w)
    BY <1>1 DEF DefinitionInv, StoredIsSound
  <2>2. UNCHANGED <<launchable, catalog>> /\ InPlace(w)'
    BY <1>1, <2>1
  <2>3. Definition!ValidBindings(w, Sessions)'
    BY <2>1, <2>2 DEF Definition!ValidBindings
  <2>4. Definition!ValidPresets(w)'
    BY <2>1, <2>2 DEF Definition!ValidPresets, Definition!PresetsOf
  <2>5. StoredIsSound'
    BY <2>1, <2>2, <2>3, <2>4 DEF StoredIsSound
  <2> QED BY <2>5 DEF DefinitionInv
<1>2. CASE ~(stored # Null /\ ~disturbed')
  BY <1>2 DEF DefinitionInv, StoredIsSound
<1> QED BY <1>1, <1>2

\* Sessions end, and the server starts again, beside a stored workspace.
LEMMA ServerKeeps ==
  ASSUME DefinitionInv,
         Definition!Restarts \/ \E s \in Sessions : Definition!SessionEnds(s)
  PROVE  DefinitionInv'
<1>1. UNCHANGED <<directory, leaf, stored>> /\ live' \subseteq Sessions
  BY DEF Definition!Restarts, Definition!SessionEnds, Definition!Starts,
         Definition!fileSystem, DefinitionInv, DefinitionTypes
<1>2. ~disturbed' => ~disturbed /\ UNCHANGED <<launchable, catalog>>
  BY DEF Definition!Restarts, Definition!SessionEnds
<1>3. DefinitionTypes'
  BY <1>1 DEF DefinitionInv, DefinitionTypes
<1>4. PICK w : w = stored
  OBVIOUS
<1>5. InPlace(w) => InPlace(w)'
  <2>1. \A d : Definition!Real(d)' = Definition!Real(d)
    BY <1>1 DEF Definition!Real
  <2>2. \A path : Definition!CanonicalFile(path)'
                     = Definition!CanonicalFile(path)
    BY <1>1, <2>1 DEF Definition!CanonicalFile
  <2>3. Definition!DataDirectoryFound => Definition!DataDirectoryFound'
    BY <1>1, <2>1 DEF Definition!DataDirectoryFound
  <2>4. \A d : Definition!HoldsDataDirectory(d)'
                <=> Definition!HoldsDataDirectory(d)
    BY <1>1, <2>1 DEF Definition!HoldsDataDirectory
  <2> QED BY <2>1, <2>2, <2>3, <2>4 DEF InPlace
<1> QED BY <1>1, <1>2, <1>3, <1>4, <1>5, StaysSound

\* The parts of what is in place are named.
LEMMA NamedParts ==
  ASSUME DefinitionTypes, stored # Null, NEW w \in Definition!Workspaces,
         w = stored
  PROVE  /\ \A n \in DOMAIN w.repositories :
              w.repositories[n].root
                \in Definition!NamedDirectories \cap Directories
         /\ \A n \in DOMAIN w.sources :
              w.sources[n].path
                \in Definition!NamedFiles \cap (Directories \X Leaves)
         /\ \A n \in DOMAIN w.methods : w.methods[n].type = "answer_file" =>
              w.methods[n].path
                \in Definition!NamedFiles \cap (Directories \X Leaves)
         /\ \A path \in {w.objective, w.plan} \ {Null} :
              path \in Definition!NamedFiles \cap (Directories \X Leaves)
         /\ \A path \in Definition!NamedFiles :
              path[1] \in Definition!NamedDirectories
<1>1. /\ w.repositories \in Seq(RepositoryEntries)
      /\ w.sources \in Seq(SourceEntries)
      /\ w.methods \in Seq(Definition!Methods)
      /\ w.objective \in (Directories \X Leaves) \cup {Null}
      /\ w.plan \in (Directories \X Leaves) \cup {Null}
  BY WorkspaceParts
<1>2. ASSUME NEW n \in DOMAIN w.repositories
      PROVE  w.repositories[n].root
               \in Definition!NamedDirectories \cap Directories
  <2>1. PICK e \in RepositoryEntries : e = w.repositories[n]
    BY <1>1
  <2>2. e \in Definition!ToSet(stored.repositories)
    BY <2>1 DEF Definition!ToSet
  <2>3. e.root \in Definition!NamedDirectories
    BY <2>2 DEF Definition!NamedDirectories
  <2> QED BY <2>1, <2>3 DEF RepositoryEntries
<1>3. ASSUME NEW n \in DOMAIN w.sources
      PROVE  w.sources[n].path
               \in Definition!NamedFiles \cap (Directories \X Leaves)
  <2>1. PICK e \in SourceEntries : e = w.sources[n]
    BY <1>1
  <2>2. e \in Definition!ToSet(stored.sources)
    BY <2>1 DEF Definition!ToSet
  <2>3. e.path \in Directories \X Leaves
    BY DEF SourceEntries
  <2>4. e.path # Null
    BY <2>3, DefinitionAssumption
  <2>5. e.path \in Definition!NamedFiles
    BY <2>2, <2>4 DEF Definition!NamedFiles
  <2> QED BY <2>1, <2>3, <2>5
<1>4. ASSUME NEW n \in DOMAIN w.methods, w.methods[n].type = "answer_file"
      PROVE  w.methods[n].path
               \in Definition!NamedFiles \cap (Directories \X Leaves)
  <2>1. PICK e \in Definition!Methods : e = w.methods[n]
    BY <1>1
  <2>2. e \in Definition!AnswerFiles(stored)
    BY <2>1, <1>4 DEF Definition!ToSet, Definition!AnswerFiles
  <2>3. e.path \in Directories \X Leaves
    BY <2>1, <1>4 DEF Definition!Methods, Definition!Files
  <2>4. e.path # Null
    BY <2>3, DefinitionAssumption
  <2>5. e.path \in Definition!NamedFiles
    BY <2>2, <2>4 DEF Definition!NamedFiles
  <2> QED BY <2>1, <2>3, <2>5
<1>5. \A path \in {w.objective, w.plan} \ {Null} :
        path \in Definition!NamedFiles \cap (Directories \X Leaves)
  BY <1>1 DEF Definition!NamedFiles
<1>6. \A path \in Definition!NamedFiles :
        path[1] \in Definition!NamedDirectories
  BY DEF Definition!NamedDirectories
<1> QED BY <1>2, <1>3, <1>4, <1>5, <1>6

\* A directory that is not named changes.
LEMMA DirectoryKeeps ==
  ASSUME DefinitionInv, NEW d \in Directories,
         NEW what \in {"directory", "missing"} \cup Directories,
         Definition!DirectoryChanges(d, what)
  PROVE  DefinitionInv'
<1>1. /\ UNCHANGED <<leaf, stored>>
      /\ directory' = [directory EXCEPT ![d] = what]
      /\ live' = live /\ UNCHANGED <<launchable, catalog>>
      /\ ~disturbed' => ~disturbed /\ d \notin Definition!NamedDirectories
  BY DEF Definition!DirectoryChanges, Definition!serverVars
<1>2. DefinitionTypes'
  BY <1>1 DEF DefinitionInv, DefinitionTypes
<1>3. PICK w : w = stored
  OBVIOUS
<1>4. ASSUME w # Null, ~disturbed', InPlace(w)
      PROVE  InPlace(w)'
  <2>1. DefinitionTypes /\ w \in Definition!Workspaces
    BY <1>3, <1>4 DEF DefinitionInv, DefinitionTypes
  <2>2. ASSUME NEW x \in Directories, x # d, Definition!Real(x) = x
        PROVE  Definition!Real(x)' = x
    <3>1. directory[x] = "directory"
      BY <2>1, <2>2, DefinitionAssumption, RealIsReal
    <3>2. directory'[x] = "directory"
      BY <1>1, <2>1, <2>2, <3>1 DEF DefinitionTypes
    <3> QED BY <3>2, DefinitionAssumption DEF Definition!Real
  <2>3. /\ DataHome # d /\ Definition!Real(DataHome) # d
        /\ Definition!DataDirectoryFound
    BY <1>1, <1>3, <1>4 DEF Definition!NamedDirectories, InPlace
  <2>4. /\ Definition!Real(DataHome)' = Definition!Real(DataHome)
        /\ Definition!DataDirectoryFound'
    <3>1. CASE Definition!Real(DataHome) = Null
      <4>1. directory[DataHome] = "missing"
        BY <2>3, <3>1 DEF Definition!DataDirectoryFound
      <4>2. directory'[DataHome] = "missing"
        BY <1>1, <2>1, <2>3, <4>1, DefinitionAssumption DEF DefinitionTypes
      <4>3. DataHome # Null /\ DataHome \in Directories
        BY DefinitionAssumption
      <4> QED BY <3>1, <4>2, <4>3, DefinitionAssumption
              DEF Definition!Real, Definition!DataDirectoryFound
    <3>2. CASE Definition!Real(DataHome) # Null
      <4>1. /\ directory[Definition!Real(DataHome)] = "directory"
            /\ Definition!Real(DataHome) \in Directories
        BY <2>1, <3>2, DefinitionAssumption, RealIsReal
      <4>2. /\ directory'[Definition!Real(DataHome)] = "directory"
            /\ directory'[DataHome] = directory[DataHome]
        BY <1>1, <2>1, <2>3, <4>1, DefinitionAssumption DEF DefinitionTypes
      <4>3. DataHome # Null /\ DataHome \in Directories
        BY DefinitionAssumption
      <4>4. CASE directory[DataHome] = "directory"
        BY <4>2, <4>3, <4>4
           DEF Definition!Real, Definition!DataDirectoryFound
      <4>5. CASE directory[DataHome] # "directory"
        <5>1. /\ directory[DataHome] \in Directories
              /\ Definition!Real(DataHome) = directory[DataHome]
          BY <3>2, <4>3, <4>5 DEF Definition!Real
        <5>2. Definition!Real(DataHome)' = directory[DataHome]
          BY <4>1, <4>2, <4>3, <4>5, <5>1 DEF Definition!Real
        <5> QED BY <3>2, <5>1, <5>2 DEF Definition!DataDirectoryFound
      <4> QED BY <4>4, <4>5
    <3> QED BY <3>1, <3>2
  <2>5. ASSUME NEW path \in Definition!NamedFiles \cap (Directories \X Leaves),
               Definition!CanonicalFile(path) = path
        PROVE  Definition!CanonicalFile(path)' = path
    <3>1. path[1] \in Directories /\ path[1] # d
      BY <1>1, <1>3, <1>4, <2>1, NamedParts
    <3>2. /\ path = <<path[1], path[2]>>
          /\ path = <<Definition!Real(path[1]), path[2]>>
          /\ leaf[path] # "link"
      BY <2>5, DefinitionAssumption DEF Definition!CanonicalFile
    <3>3. Definition!Real(path[1]) = path[1]
      BY <3>2
    <3>4. Definition!Real(path[1])' = path[1]
      BY <2>2, <3>1, <3>3
    <3> QED BY <1>1, <3>1, <3>2, <3>4, DefinitionAssumption
            DEF Definition!CanonicalFile
  <2>6. ASSUME NEW n \in DOMAIN w.repositories
        PROVE  /\ Definition!Real(w.repositories[n].root)'
                    = w.repositories[n].root
               /\ ~Definition!HoldsDataDirectory(w.repositories[n].root)'
    <3>1. /\ w.repositories[n].root \in Directories
          /\ w.repositories[n].root # d
      BY <1>1, <1>3, <1>4, <2>1, NamedParts
    <3>2. /\ Definition!Real(w.repositories[n].root)
               = w.repositories[n].root
          /\ ~Definition!HoldsDataDirectory(w.repositories[n].root)
      BY <1>4 DEF InPlace
    <3>3. Definition!Real(w.repositories[n].root)' = w.repositories[n].root
      BY <2>2, <3>1, <3>2
    <3> QED BY <2>4, <3>2, <3>3 DEF Definition!HoldsDataDirectory
  <2>7. \A n \in DOMAIN w.sources :
          Definition!CanonicalFile(w.sources[n].path)' = w.sources[n].path
    BY <1>3, <1>4, <2>1, <2>5, NamedParts DEF InPlace
  <2>8. \A n \in DOMAIN w.methods : w.methods[n].type = "answer_file" =>
          Definition!CanonicalFile(w.methods[n].path)' = w.methods[n].path
    BY <1>3, <1>4, <2>1, <2>5, NamedParts DEF InPlace
  <2>9. \A path \in {w.objective, w.plan} \ {Null} :
          Definition!CanonicalFile(path)' = path
    BY <1>3, <1>4, <2>1, <2>5, NamedParts DEF InPlace
  <2> QED BY <2>4, <2>6, <2>7, <2>8, <2>9 DEF InPlace
<1> QED BY <1>1, <1>2, <1>3, <1>4, StaysSound

\* A file that is not named changes, or one that does not become a link.
LEMMA FileKeeps ==
  ASSUME DefinitionInv, NEW f \in Directories \X Leaves,
         NEW what \in {"file", "missing", "link"},
         Definition!FileChanges(f, what)
  PROVE  DefinitionInv'
<1>1. /\ UNCHANGED <<directory, stored>>
      /\ leaf' = [leaf EXCEPT ![f] = what]
      /\ live' = live /\ UNCHANGED <<launchable, catalog>>
      /\ ~disturbed' => /\ ~disturbed
                        /\ what # "link" \/ f \notin Definition!NamedFiles
  BY DEF Definition!FileChanges, Definition!serverVars
<1>2. DefinitionTypes'
  BY <1>1 DEF DefinitionInv, DefinitionTypes
<1>3. PICK w : w = stored
  OBVIOUS
<1>4. ASSUME w # Null, ~disturbed', InPlace(w)
      PROVE  InPlace(w)'
  <2>1. DefinitionTypes /\ w \in Definition!Workspaces
    BY <1>3, <1>4 DEF DefinitionInv, DefinitionTypes
  <2>2. \A x : Definition!Real(x)' = Definition!Real(x)
    BY <1>1 DEF Definition!Real
  <2>3. ASSUME NEW path \in Definition!NamedFiles \cap (Directories \X Leaves),
               Definition!CanonicalFile(path) = path
        PROVE  Definition!CanonicalFile(path)' = path
    <3>1. /\ path = <<Definition!Real(path[1]), path[2]>>
          /\ leaf[path] # "link" /\ Definition!Real(path[1]) # Null
      BY <2>3, DefinitionAssumption DEF Definition!CanonicalFile
    <3>2. leaf'[path] # "link"
      BY <1>1, <1>4, <2>1, <3>1 DEF DefinitionTypes
    <3> QED BY <2>2, <3>1, <3>2 DEF Definition!CanonicalFile
  <2>4. \A n \in DOMAIN w.repositories :
          /\ Definition!Real(w.repositories[n].root)'
               = w.repositories[n].root
          /\ ~Definition!HoldsDataDirectory(w.repositories[n].root)'
    BY <1>4, <2>2 DEF InPlace, Definition!HoldsDataDirectory
  <2>5. \A n \in DOMAIN w.sources :
          Definition!CanonicalFile(w.sources[n].path)' = w.sources[n].path
    BY <1>3, <1>4, <2>1, <2>3, NamedParts DEF InPlace
  <2>6. \A n \in DOMAIN w.methods : w.methods[n].type = "answer_file" =>
          Definition!CanonicalFile(w.methods[n].path)' = w.methods[n].path
    BY <1>3, <1>4, <2>1, <2>3, NamedParts DEF InPlace
  <2>7. \A path \in {w.objective, w.plan} \ {Null} :
          Definition!CanonicalFile(path)' = path
    BY <1>3, <1>4, <2>1, <2>3, NamedParts DEF InPlace
  <2>8. Definition!DataDirectoryFound'
    BY <1>1, <1>4, <2>2 DEF InPlace, Definition!DataDirectoryFound
  <2> QED BY <2>4, <2>5, <2>6, <2>7, <2>8 DEF InPlace
<1> QED BY <1>1, <1>2, <1>3, <1>4, StaysSound

\* Every step of the definition keeps its invariant, ...
LEMMA DefinitionKeeps ==
  DefinitionInv /\ [Definition!DefinitionNext]_definitionVars
    => DefinitionInv'
<1> SUFFICES ASSUME DefinitionInv, [Definition!DefinitionNext]_definitionVars
             PROVE  DefinitionInv'
  OBVIOUS
<1>1. CASE \E w \in Drafts : Definition!Replace(w)
  BY <1>1, ReplaceKeeps
<1>2. CASE Definition!Restarts \/ \E s \in Sessions : Definition!SessionEnds(s)
  BY <1>2, ServerKeeps
<1>3. CASE \E d \in Directories,
              what \in {"directory", "missing"} \cup Directories :
             Definition!DirectoryChanges(d, what)
  BY <1>3, DirectoryKeeps
<1>4. CASE \E f \in Directories \X Leaves,
              what \in {"file", "missing", "link"} :
             Definition!FileChanges(f, what)
  BY <1>4, FileKeeps
<1>5. CASE UNCHANGED definitionVars
  <2>1. UNCHANGED <<directory, leaf, live, launchable, catalog, stored,
                    disturbed>>
    BY <1>5 DEF definitionVars
  <2>2. DefinitionTypes'
    BY <2>1 DEF DefinitionInv, DefinitionTypes
  <2>3. PICK w : w = stored
    OBVIOUS
  <2>4. InPlace(w) => InPlace(w)'
    BY <2>1 DEF InPlace, Definition!DataDirectoryFound,
       Definition!HoldsDataDirectory, Definition!CanonicalFile,
       Definition!Real
  <2> QED BY <2>1, <2>2, <2>3, <2>4, StaysSound
<1> QED BY <1>1, <1>2, <1>3, <1>4, <1>5
        DEF Definition!DefinitionNext, Definition!Files

\* ... and so does every step of the services.
LEMMA DefinitionInvariance == WorkspaceSpec => []DefinitionInv
<1>1. WorkspaceInit => DefinitionInv
  BY DefinitionStarts DEF WorkspaceInit
<1>2. [WorkspaceNext]_workspaceVars
        => [Definition!DefinitionNext]_definitionVars
  BY DEF WorkspaceNext, QueueMoves, GitMoves, ContextMoves, DefinitionMoves,
         workspaceVars
<1>3. DefinitionInv /\ [WorkspaceNext]_workspaceVars => DefinitionInv'
  BY <1>2, DefinitionKeeps
<1> QED BY <1>1, <1>3, PTL DEF WorkspaceSpec

\* A workspace that was accepted can be read, and so replaced, until what it
\* names becomes something else, however it was written and whatever files
\* and sessions come and go (pacium-config-store.ts reads it with the checks
\* of pacium-config-normalizer.ts).
THEOREM DefinitionReadable == WorkspaceSpec => []DefinitionStaysReadable
<1>1. DefinitionInv => DefinitionStaysReadable
  <2> SUFFICES ASSUME DefinitionInv, stored # Null, ~disturbed
               PROVE  Definition!Readable(stored)
    BY DEF DefinitionStaysReadable, Definition!DefinitionStaysReadable
  <2>1. /\ DefinitionTypes /\ stored \in Definition!Workspaces
        /\ Definition!ValidGraph(stored) /\ InPlace(stored)
        /\ Definition!ValidBindings(stored, Sessions)
        /\ Definition!ValidPresets(stored)
    BY DEF DefinitionInv, DefinitionTypes, StoredIsSound
  <2>2. /\ Definition!Canonical(stored) = stored
        /\ Definition!PathsAreSafe(stored)
    BY <2>1, InPlaceIsCanonical
  <2> QED BY <2>1, <2>2 DEF Definition!Readable, Definition!Normalized
<1> QED BY <1>1, DefinitionInvariance, PTL

-----------------------------------------------------------------------------
(* The first elements of a finite set in an order.                         *)

\* The pairs of before order S.
Orders(before, S) ==
  /\ \A x \in S : <<x, x>> \notin before
  /\ \A x, y, z \in S :
       <<x, y>> \in before /\ <<y, z>> \in before => <<x, z>> \in before
  /\ \A x, y \in S : x = y \/ <<x, y>> \in before \/ <<y, x>> \in before

\* What is before x in S.
Ahead(before, S, x) == {y \in S : <<y, x>> \in before}

\* Those with less than n elements ahead of them.
First(before, S, n) == {x \in S : Cardinality(Ahead(before, S, x)) < n}

\* Less than n elements ahead: these are n elements at most.
LEMMA FirstAreFew ==
  ASSUME NEW S, IsFiniteSet(S), NEW before, Orders(before, S), NEW n \in Nat
  PROVE  /\ IsFiniteSet(First(before, S, n))
         /\ Cardinality(First(before, S, n)) \in Nat
         /\ Cardinality(First(before, S, n)) <= n
<1> DEFINE A(x) == Ahead(before, S, x)
           F == First(before, S, n)
           rank == [x \in F |-> Cardinality(A(x))]
<1>1. ASSUME NEW x \in S
      PROVE  IsFiniteSet(A(x)) /\ Cardinality(A(x)) \in Nat
  <2>1. A(x) \in SUBSET S
    BY DEF Ahead
  <2>2. IsFiniteSet(A(x))
    BY <2>1, FS_Subset
  <2> QED BY <2>2, FS_CardinalityType
<1>2. ASSUME NEW x \in S, NEW y \in S, <<x, y>> \in before
      PROVE  Cardinality(A(x)) < Cardinality(A(y))
  <2>1. A(x) \in SUBSET A(y)
    BY <1>2 DEF Ahead, Orders
  <2>2. x \in A(y) /\ x \notin A(x)
    BY <1>2 DEF Ahead, Orders
  <2>3. A(x) # A(y)
    BY <2>2
  <2>4. /\ IsFiniteSet(A(x)) /\ Cardinality(A(x)) \in Nat
        /\ IsFiniteSet(A(y)) /\ Cardinality(A(y)) \in Nat
    BY <1>1
  <2> HIDE DEF A
  <2>5. /\ Cardinality(A(x)) <= Cardinality(A(y))
        /\ Cardinality(A(x)) # Cardinality(A(y))
    BY <2>1, <2>3, <2>4, FS_Subset
  <2> QED BY <2>4, <2>5
<1>3. F \in SUBSET S /\ \A x \in F : Cardinality(A(x)) < n
  BY DEF First
<1> HIDE DEF A, F
<1>4. rank \in [F -> 0..n-1]
  <2>1. ASSUME NEW x \in F
        PROVE  Cardinality(A(x)) \in 0..n-1
    <3>1. Cardinality(A(x)) \in Nat /\ Cardinality(A(x)) < n
      BY <1>1, <1>3
    <3> QED BY <3>1
  <2> QED BY <2>1
<1>5. \A x, y \in F : rank[x] = rank[y] => x = y
  <2> SUFFICES ASSUME NEW x \in F, NEW y \in F, x # y
               PROVE  rank[x] # rank[y]
    OBVIOUS
  <2>1. /\ x \in S /\ y \in S
        /\ Cardinality(A(x)) \in Nat /\ Cardinality(A(y)) \in Nat
    BY <1>1, <1>3
  <2>2. CASE <<x, y>> \in before
    <3>1. Cardinality(A(x)) < Cardinality(A(y))
      BY <1>2, <2>1, <2>2
    <3> QED BY <2>1, <3>1
  <2>3. CASE <<y, x>> \in before
    <3>1. Cardinality(A(y)) < Cardinality(A(x))
      BY <1>2, <2>1, <2>3
    <3> QED BY <2>1, <3>1
  <2> QED BY <2>1, <2>2, <2>3 DEF Orders
<1>6. rank \in Injection(F, 0..n-1)
  BY <1>4, <1>5 DEF Injection, IsInjective
<1>7. IsFiniteSet(0..n-1) /\ Cardinality(0..n-1) = n
  <2>1. 0 \in Int /\ n-1 \in Int
    OBVIOUS
  <2>2. /\ IsFiniteSet(0..n-1)
        /\ Cardinality(0..n-1) = IF 0 > n-1 THEN 0 ELSE n-1-0+1
    BY <2>1, FS_Interval
  <2> QED BY <2>2
<1>8. IsFiniteSet(F) /\ Cardinality(F) <= Cardinality(0..n-1)
  BY <1>6, <1>7, FS_Injection
<1>9. IsFiniteSet(F) /\ Cardinality(F) \in Nat /\ Cardinality(F) <= n
  BY <1>7, <1>8, FS_CardinalityType
<1> QED BY <1>9 DEF F

-----------------------------------------------------------------------------
(* The control context.                                                    *)

\* What the reader and the request hold.
Texts == Seq(Nat)
Kinds == {"file", "symlink", "directory"}
Nodes == [kind : Kinds, bytes : Texts, time : Nat]
Stats == [kind : Kinds, node : Nat, size : Nat, time : Nat]

\* Why a source may not be ready.
Failures ==
  {"missing", "unsafe_type", "changing", "oversized", "invalid_utf8",
   "unreadable"}
Observations ==
  [status : Failures \cup {"ready", "empty", "unconfigured"},
   bytes : Texts \cup {Null}]
Deliveries ==
  [attempts : 0..2, outcome : {"delivered", "failed", "unknown", Null},
   stage : {"idle", "recorded", "active", "finished"}]
StepNames ==
  {"none", "lstat", "open", "stat", "oversized", "read", "final", "path"}
Readers ==
  [step : StepNames, handle : Nat, stat : Stats \cup {Null}, bytes : Texts,
   result : Observations \cup {Null}]

\* The types of what is read, and of the readers.
ContextTypes ==
  /\ nodes \in Seq(Nodes) /\ node \in 0..Len(nodes)
  /\ rest \in Texts /\ clock \in Nat /\ changes \in Nat
  /\ \A n \in 1..Len(nodes) : nodes[n].time <= clock
  /\ setting \in [ready : BOOLEAN, revision : Nat, sources : SourceSets]
  /\ decisions \subseteq Decisions
  /\ delivery \in Deliveries
  /\ reading \in [Context!Kinds -> Readers]
  /\ context.step \in {"idle", "reading", "looked"}
  /\ DOMAIN context = {"step", "revision", "state", "after"}

\* A stat was true of its file, and is until the file is written again.
StatIsTrue(files, stat) ==
  /\ stat \in Stats /\ stat.node \in 1..Len(files)
  /\ stat.time <= files[stat.node].time
  /\ stat.time = files[stat.node].time
       => stat.size = Len(files[stat.node].bytes)

\* s is a beginning of t.
Begins(s, t) == Len(s) <= Len(t) /\ \A n \in 1..Len(s) : s[n] = t[n]

\* A reader has a part of its file, unless the file was written since.
HasPart(files, r) ==
  /\ r.handle = r.stat.node
  /\ r.stat.time = files[r.handle].time
       => Begins(r.bytes, files[r.handle].bytes)

\* What an observation of a source says was true.
ResultIsTrue(texts, o) ==
  /\ Context!ValidSource(o)
  /\ o.status = "ready" => o.bytes \in texts

\* What a reader knows of the files, where the texts were seen.
ReaderIsSound(files, texts, r) ==
  /\ r.step \in {"open", "stat", "oversized", "read", "final"}
       => StatIsTrue(files, r.stat)
  /\ r.step \in {"lstat", "open", "stat"} => r.bytes = << >>
  /\ r.step \in {"stat", "oversized", "read", "final"}
       => r.handle \in 1..Len(files)
  /\ r.step \in {"read", "final"} => HasPart(files, r)
  /\ r.step = "path" /\ r.stat # Null =>
       /\ StatIsTrue(files, r.stat) /\ HasPart(files, r)
       /\ r.stat.size = Len(r.bytes)
  /\ r.result # Null => ResultIsTrue(texts, r.result)

\* The queue state that was read.
StateIsSound(state) ==
  \/ state.status = "error"
  \/ /\ state.status = "ready"
     /\ state.decisions \subseteq Decisions
     /\ state.delivery \in Deliveries

\* Each reader is sound for the files and the texts seen.
ReadersAreSound ==
  \A k \in Context!Kinds : ReaderIsSound(nodes, seen.bytes, reading[k])

\* The revisions between two looks at the configuration were all seen, and
\* the text there is was.
RequestIsSound ==
  /\ context.state # Null => StateIsSound(context.state)
  /\ context.step = "reading" =>
       /\ context.revision \in Nat /\ context.revision <= setting.revision
       /\ seen.revisions = context.revision..setting.revision
       /\ Context!Bytes \in seen.bytes
  /\ context.step = "looked" =>
       /\ context.revision \in Nat /\ context.after.revision \in Nat
       /\ seen.revisions = context.revision..context.after.revision
       /\ \A k \in Context!Kinds : reading[k].result # Null
       /\ context.state # Null
  /\ context.step # "idle" => answer = Null
  /\ context.step = "idle" =>
       \A k \in Context!Kinds : reading[k] = Context!NoReading

\* The answer is valid, and whole.
AnswerIsSound == Context!ContextsAreValid /\ Context!ContextIsWhole

\* The inductive invariant of the control context.
ContextInv ==
  ContextTypes /\ ReadersAreSound /\ RequestIsSound /\ AnswerIsSound

\* Without an answer there is nothing to check.
LEMMA NoAnswerIsSound == ASSUME answer = Null PROVE AnswerIsSound
BY DEF AnswerIsSound, Context!ContextsAreValid, Context!ContextIsWhole

\* A reader that is done reports what it read, and has nothing open.
LEMMA DoneIsSound ==
  ASSUME NEW files, NEW texts, NEW o \in Observations,
         ResultIsTrue(texts, o),
         NEW r, r = [Context!NoReading EXCEPT !.result = o]
  PROVE  r \in Readers /\ ReaderIsSound(files, texts, r)
<1>1. r = [step |-> "none", handle |-> 0, stat |-> Null, bytes |-> << >>,
           result |-> o]
  BY DEF Context!NoReading
<1>2. << >> \in Texts
  BY DEF Texts
<1>3. r \in Readers
  <2>1. PICK none \in Texts : none = << >>
    BY <1>2
  <2>2. r = [step |-> "none", handle |-> 0, stat |-> Null, bytes |-> none,
             result |-> o]
    BY <1>1, <2>1
  <2>3. /\ r.step = "none" /\ r.handle \in Nat /\ r.stat = Null
        /\ r.bytes \in Texts /\ r.result \in Observations
    BY <2>2
  <2>4. r = [step |-> r.step, handle |-> r.handle, stat |-> r.stat,
             bytes |-> r.bytes, result |-> r.result]
    BY <2>2
  <2> HIDE DEF Texts
  <2> QED BY <2>3, <2>4 DEF Readers, StepNames
<1>4. r.step = "none" /\ r.result = o
  BY <1>1
<1> QED BY <1>3, <1>4 DEF ReaderIsSound

\* A source that is not ready has no text.
LEMMA DegradedIsTrue ==
  ASSUME NEW texts, NEW status \in Failures,
         NEW o, o = Context!Observation(status, Null)
  PROVE  o \in Observations /\ ResultIsTrue(texts, o)
<1>1. status # "ready"
  BY DEF Failures
<1> QED BY <1>1 DEF Context!Observation, Observations, ResultIsTrue,
                    Context!ValidSource

\* A step of one reader changes nothing else.
LEMMA ReaderSteps ==
  ASSUME ContextInv, NEW k \in Context!Kinds,
         NEW next \in Readers,
         ReaderIsSound(nodes, seen.bytes, next),
         Context!GoesOn(k, next), Context!OnlyReads,
         context.step = "reading",
         UNCHANGED changes
  PROVE  ContextInv'
<1>1. /\ setting' = setting /\ node' = node /\ nodes' = nodes
      /\ rest' = rest /\ clock' = clock /\ decisions' = decisions
      /\ delivery' = delivery /\ context' = context /\ answer' = answer
      /\ seen' = seen /\ changes' = changes
  BY DEF Context!OnlyReads, Context!fileVars, Context!queueVars
<1>2. /\ reading' \in [Context!Kinds -> Readers]
      /\ \A j \in Context!Kinds :
           reading'[j] = IF j = k THEN next ELSE reading[j]
  BY DEF Context!GoesOn, ContextInv, ContextTypes
<1>3. ContextTypes'
  BY <1>1, <1>2 DEF ContextInv, ContextTypes
<1>4. ReadersAreSound'
  BY <1>1, <1>2 DEF ContextInv, ReadersAreSound
<1>5. RequestIsSound'
  BY <1>1, <1>2 DEF ContextInv, RequestIsSound, Context!Bytes
<1>6. AnswerIsSound'
  BY <1>1 DEF ContextInv, AnswerIsSound, Context!ContextsAreValid,
              Context!ContextIsWhole
<1> QED BY <1>3, <1>4, <1>5, <1>6 DEF ContextInv

\* A reader that ends without a text.
LEMMA DegradedSteps ==
  ASSUME ContextInv, NEW k \in Context!Kinds,
         NEW status \in Failures, Context!Degraded(k, status), Context!OnlyReads,
         context.step = "reading",
         UNCHANGED changes
  PROVE  ContextInv'
<1>1. PICK o : o = Context!Observation(status, Null)
  OBVIOUS
<1>2. PICK r : r = [Context!NoReading EXCEPT !.result = o]
  OBVIOUS
<1>3. Context!GoesOn(k, r)
  BY <1>1, <1>2 DEF Context!Degraded, Context!Done
<1>4. o \in Observations /\ ResultIsTrue(seen.bytes, o)
  BY <1>1, DegradedIsTrue
<1>5. r \in Readers /\ ReaderIsSound(nodes, seen.bytes, r)
  BY <1>2, <1>4, DoneIsSound
<1> QED BY <1>3, <1>5, ReaderSteps

\* The stat of a file is true.
LEMMA StatOfFile ==
  ASSUME ContextTypes, NEW n \in 1..Len(nodes),
         NEW stat, stat = Context!Stat(n)
  PROVE  /\ StatIsTrue(nodes, stat)
         /\ nodes[n] \in Nodes
         /\ stat = [kind |-> nodes[n].kind, node |-> n,
                    size |-> Len(nodes[n].bytes), time |-> nodes[n].time]
<1>1. nodes[n] \in Nodes
  BY DEF ContextTypes
<1>2. PICK e \in Nodes : e = nodes[n]
  BY <1>1
<1>3. /\ e.kind \in Kinds /\ e.bytes \in Seq(Nat) /\ e.time \in Nat
  BY DEF Nodes, Texts
<1>4. Len(e.bytes) \in Nat
  BY <1>3
<1>5. stat = [kind |-> e.kind, node |-> n, size |-> Len(e.bytes),
              time |-> e.time]
  BY <1>2 DEF Context!Stat
<1>6. stat \in Stats
  BY <1>3, <1>4, <1>5 DEF Stats
<1>7. StatIsTrue(nodes, stat)
  BY <1>2, <1>3, <1>5, <1>6 DEF StatIsTrue
<1> QED BY <1>1, <1>2, <1>5, <1>7

\* The fields of a reader.
LEMMA ReaderFields ==
  ASSUME NEW r \in Readers
  PROVE  /\ r.step \in StepNames
         /\ r.handle \in Nat /\ r.stat \in Stats \cup {Null}
         /\ r.bytes \in Texts /\ r.result \in Observations \cup {Null}
         /\ DOMAIN r = {"step", "handle", "stat", "bytes", "result"}
         /\ r = [step |-> r.step, handle |-> r.handle, stat |-> r.stat,
                 bytes |-> r.bytes, result |-> r.result]
BY DEF Readers

\* A reader that goes on with another step, and another stat.
LEMMA StatGoesOn ==
  ASSUME NEW r \in Readers, NEW x, NEW y,
         NEW next, next = [r EXCEPT !.step = x, !.stat = y]
  PROVE  next = [step |-> x, handle |-> r.handle, stat |-> y,
                 bytes |-> r.bytes, result |-> r.result]
<1>1. PICK step, handle, stat, bytes, result :
        /\ r = [step |-> step, handle |-> handle, stat |-> stat,
                bytes |-> bytes, result |-> result]
        /\ r.handle = handle /\ r.stat = stat /\ r.bytes = bytes
        /\ r.result = result
  BY ReaderFields, Zenon
<1>2. PICK a : a = [r EXCEPT !.step = x]
  OBVIOUS
<1>3. a = [step |-> x, handle |-> handle, stat |-> stat,
           bytes |-> bytes, result |-> result]
  BY <1>1, <1>2
<1>4. [a EXCEPT !.stat = y] = [step |-> x, handle |-> handle, stat |-> y,
                 bytes |-> bytes, result |-> result]
  BY <1>3
<1> QED BY <1>1, <1>2, <1>4

\* A reader that goes on with another step, and another handle.
LEMMA HandleGoesOn ==
  ASSUME NEW r \in Readers, NEW x, NEW y,
         NEW next, next = [r EXCEPT !.step = x, !.handle = y]
  PROVE  next = [step |-> x, handle |-> y, stat |-> r.stat,
                 bytes |-> r.bytes, result |-> r.result]
<1>1. PICK step, handle, stat, bytes, result :
        /\ r = [step |-> step, handle |-> handle, stat |-> stat,
                bytes |-> bytes, result |-> result]
        /\ r.handle = handle /\ r.stat = stat /\ r.bytes = bytes
        /\ r.result = result
  BY ReaderFields, Zenon
<1>2. PICK a : a = [r EXCEPT !.step = x]
  OBVIOUS
<1>3. a = [step |-> x, handle |-> handle, stat |-> stat,
           bytes |-> bytes, result |-> result]
  BY <1>1, <1>2
<1>4. [a EXCEPT !.handle = y] = [step |-> x, handle |-> y, stat |-> stat,
                 bytes |-> bytes, result |-> result]
  BY <1>3
<1> QED BY <1>1, <1>2, <1>4

\* A reader whose fields are what they should be.
LEMMA AReader ==
  ASSUME NEW step \in StepNames,
         NEW handle \in Nat, NEW stat \in Stats \cup {Null},
         NEW bytes \in Texts, NEW result \in Observations \cup {Null},
         NEW r, r = [step |-> step, handle |-> handle, stat |-> stat,
                     bytes |-> bytes, result |-> result]
  PROVE  /\ r \in Readers
         /\ r.step = step /\ r.handle = handle /\ r.stat = stat
         /\ r.bytes = bytes /\ r.result = result
BY DEF Readers

\* The first lstat of readSource keeps what holds of the request.
LEMMA LstatKeeps ==
  ASSUME ContextInv, NEW k \in Context!Kinds, Context!Lstat(k),
         UNCHANGED changes
  PROVE  ContextInv'
<1>1. context.step = "reading" /\ Context!OnlyReads
  BY DEF Context!Lstat, Context!Step
<1>2. CASE node = 0
  <2>1. Context!Degraded(k, "missing")
    BY <1>2 DEF Context!Lstat
  <2> QED BY <1>1, <2>1, DegradedSteps DEF Failures
<1>3. CASE node # 0 /\ nodes[node].kind # "file"
  <2>1. Context!Degraded(k, "unsafe_type")
    BY <1>3 DEF Context!Lstat
  <2> QED BY <1>1, <2>1, DegradedSteps DEF Failures
<1>4. CASE node # 0 /\ nodes[node].kind = "file"
  <2>1. PICK r \in Readers : r = reading[k]
    BY DEF ContextInv, ContextTypes
  <2>2. PICK s : s = Context!Stat(node)
    OBVIOUS
  <2>3. node \in 1..Len(nodes)
    BY <1>4 DEF ContextInv, ContextTypes
  <2>4. StatIsTrue(nodes, s) /\ s \in Stats
    BY <2>2, <2>3, StatOfFile DEF ContextInv, StatIsTrue
  <2>5. PICK next : next = [r EXCEPT !.step = "open", !.stat = s]
    OBVIOUS
  <2>6. Context!GoesOn(k, next)
    BY <1>4, <2>1, <2>2, <2>5 DEF Context!Lstat
  <2>7. next = [step |-> "open", handle |-> r.handle, stat |-> s,
                bytes |-> r.bytes, result |-> r.result]
    BY <2>1, <2>5, StatGoesOn, Zenon
  <2>8. /\ next \in Readers /\ next.step = "open" /\ next.stat = s
        /\ next.bytes = r.bytes /\ next.result = r.result
    BY <2>1, <2>4, <2>7, ReaderFields, AReader DEF StepNames
  <2>9. ReaderIsSound(nodes, seen.bytes, r) /\ r.step = "lstat"
    BY <2>1 DEF ContextInv, ReadersAreSound, Context!Lstat, Context!Step
  <2>10. ReaderIsSound(nodes, seen.bytes, next)
    BY <2>4, <2>8, <2>9 DEF ReaderIsSound
  <2> QED BY <1>1, <2>6, <2>8, <2>10, ReaderSteps
<1> QED BY <1>2, <1>3, <1>4

\* So does opening the source.
LEMMA OpenKeeps ==
  ASSUME ContextInv, NEW k \in Context!Kinds, Context!Open(k),
         UNCHANGED changes
  PROVE  ContextInv'
<1>1. context.step = "reading" /\ Context!OnlyReads
  BY DEF Context!Open, Context!Step
<1>2. CASE node = 0
  <2>1. Context!Degraded(k, "missing")
    BY <1>2 DEF Context!Open
  <2> QED BY <1>1, <2>1, DegradedSteps DEF Failures
<1>3. CASE node # 0 /\ nodes[node].kind = "symlink"
  <2>1. Context!Degraded(k, "unsafe_type")
    BY <1>3 DEF Context!Open
  <2> QED BY <1>1, <2>1, DegradedSteps DEF Failures
<1>4. CASE node # 0 /\ nodes[node].kind # "symlink"
  <2>1. PICK r \in Readers : r = reading[k]
    BY DEF ContextInv, ContextTypes
  <2>2. node \in 1..Len(nodes) /\ node \in Nat
    BY <1>4 DEF ContextInv, ContextTypes
  <2>3. PICK next : next = [r EXCEPT !.step = "stat", !.handle = node]
    OBVIOUS
  <2>4. Context!GoesOn(k, next)
    BY <1>4, <2>1, <2>3 DEF Context!Open
  <2>5. next = [step |-> "stat", handle |-> node, stat |-> r.stat,
                bytes |-> r.bytes, result |-> r.result]
    BY <2>1, <2>3, HandleGoesOn, Zenon
  <2>6. /\ next \in Readers /\ next.step = "stat" /\ next.handle = node
        /\ next.stat = r.stat /\ next.bytes = r.bytes
        /\ next.result = r.result
    BY <2>1, <2>2, <2>5, ReaderFields, AReader DEF StepNames
  <2>7. ReaderIsSound(nodes, seen.bytes, r) /\ r.step = "open"
    BY <2>1 DEF ContextInv, ReadersAreSound, Context!Open, Context!Step
  <2>8. ReaderIsSound(nodes, seen.bytes, next)
    BY <2>2, <2>6, <2>7 DEF ReaderIsSound
  <2> QED BY <1>1, <2>4, <2>6, <2>8, ReaderSteps
<1> QED BY <1>2, <1>3, <1>4

\* A true stat that is the one of now has the size of now.
LEMMA SameIsTrue ==
  ASSUME ContextTypes, NEW s, StatIsTrue(nodes, s), NEW n \in 1..Len(nodes),
         Context!SameIdentity(s, Context!Stat(n))
  PROVE  /\ s.node = n /\ s.time = nodes[n].time
         /\ s.size = Len(nodes[n].bytes)
<1>1. PICK t : t = Context!Stat(n)
  OBVIOUS
<1>2. /\ t.node = n /\ t.size = Len(nodes[n].bytes)
      /\ t.time = nodes[n].time
  BY <1>1, StatOfFile
<1>3. s.node = t.node /\ s.size = t.size /\ s.time = t.time
  BY <1>1 DEF Context!SameIdentity
<1> QED BY <1>2, <1>3

\* So does the stat of the open file: an oversized file is reported only
\* if it is one, and what it is at this time is remembered.
LEMMA OpenStatKeeps ==
  ASSUME ContextInv, NEW k \in Context!Kinds, Context!OpenStat(k),
         UNCHANGED changes
  PROVE  ContextInv'
<1>1. context.step = "reading" /\ Context!OnlyReads
  BY DEF Context!OpenStat, Context!Step
<1>2. PICK r \in Readers : r = reading[k]
  BY DEF ContextInv, ContextTypes
<1>3. PICK stat : stat = Context!Stat(r.handle)
  OBVIOUS
<1>4. CASE ~Context!SameIdentity(r.stat, stat)
  <2>1. Context!Degraded(k, "changing")
    BY <1>2, <1>3, <1>4 DEF Context!OpenStat
  <2> QED BY <1>1, <2>1, DegradedSteps DEF Failures
<1>5. CASE Context!SameIdentity(r.stat, stat)
  <2>1. PICK step : step = IF stat.size > MaxBytes THEN "oversized" ELSE "read"
    OBVIOUS
  <2>2. PICK next : next = [r EXCEPT !.step = step]
    OBVIOUS
  <2>3. Context!GoesOn(k, next)
    BY <1>2, <1>3, <1>5, <2>1, <2>2 DEF Context!OpenStat
  <2>4. next = [step |-> step, handle |-> r.handle, stat |-> r.stat,
                bytes |-> r.bytes, result |-> r.result]
    BY <1>2, <2>2, ReaderFields
  <2>5. step \in {"oversized", "read"}
    BY <2>1
  <2>6. /\ next \in Readers /\ next.step = step /\ next.handle = r.handle
        /\ next.stat = r.stat /\ next.bytes = r.bytes
        /\ next.result = r.result
    <3>1. step \in StepNames
      BY <2>5 DEF StepNames
    <3> QED BY <1>2, <2>4, <3>1, ReaderFields, AReader
  <2>7. ReaderIsSound(nodes, seen.bytes, r) /\ r.step = "stat"
    BY <1>2 DEF ContextInv, ReadersAreSound, Context!OpenStat, Context!Step
  <2>8. /\ StatIsTrue(nodes, r.stat) /\ r.bytes = << >>
        /\ r.handle \in 1..Len(nodes)
    BY <2>7 DEF ReaderIsSound
  <2>9. r.stat.node = r.handle
    BY <1>3, <1>5, <2>8, SameIsTrue DEF ContextInv
  <2>10. Begins(r.bytes, nodes[r.handle].bytes)
    <3>1. nodes[r.handle].bytes \in Seq(Nat)
      <4>1. PICK e \in Nodes : e = nodes[r.handle]
        BY <2>8 DEF ContextInv, ContextTypes
      <4> QED BY <4>1 DEF Nodes, Texts
    <3>2. Len(nodes[r.handle].bytes) >= 0 /\ Len(r.bytes) = 0
      BY <2>8, <3>1
    <3> QED BY <3>2 DEF Begins
  <2>11. HasPart(nodes, next)
    BY <2>6, <2>9, <2>10 DEF HasPart
  <2>12. ReaderIsSound(nodes, seen.bytes, next)
    BY <2>5, <2>6, <2>7, <2>8, <2>11 DEF ReaderIsSound
  <2> QED BY <1>1, <2>3, <2>6, <2>12, ReaderSteps
<1> QED BY <1>4, <1>5

\* So does a second look at the path of a file that is too large.
LEMMA OversizedPathKeeps ==
  ASSUME ContextInv, NEW k \in Context!Kinds, Context!OversizedPath(k),
         UNCHANGED changes
  PROVE  ContextInv'
<1>1. context.step = "reading" /\ Context!OnlyReads
  BY DEF Context!OversizedPath, Context!Step
<1>2. PICK status \in {"missing", "oversized", "changing"} :
        Context!Degraded(k, status)
  BY DEF Context!OversizedPath
<1> QED BY <1>1, <1>2, DegradedSteps DEF Failures

\* A part with one byte more is a part, and one with all bytes is the whole.
LEMMA BeginsOn ==
  ASSUME NEW s \in Texts, NEW t \in Texts, Len(s) < Len(t)
  PROVE  /\ Append(s, t[Len(s) + 1]) \in Texts
         /\ Begins(s, t) => Begins(Append(s, t[Len(s) + 1]), t)
<1> DEFINE a == t[Len(s) + 1]
<1>1. s \in Seq(Nat) /\ t \in Seq(Nat) /\ Len(s) \in Nat /\ Len(t) \in Nat
  BY DEF Texts
<1>2. a \in Nat
  BY <1>1
<1> HIDE DEF a
<1>3. /\ Append(s, a) \in Seq(Nat) /\ Len(Append(s, a)) = Len(s) + 1
      /\ \A n \in 1..Len(s) : Append(s, a)[n] = s[n]
      /\ Append(s, a)[Len(s) + 1] = a
  BY <1>1, <1>2
<1>4. ASSUME Begins(s, t)
      PROVE  Begins(Append(s, a), t)
  <2>1. ASSUME NEW n \in 1..Len(Append(s, a))
        PROVE  Append(s, a)[n] = t[n]
    <3>1. n \in 1..Len(s) \/ n = Len(s) + 1
      BY <1>1, <1>3
    <3>2. CASE n = Len(s) + 1
      BY <1>3, <3>2 DEF a
    <3>3. CASE n \in 1..Len(s)
      BY <1>3, <1>4, <3>3 DEF Begins
    <3> QED BY <3>1, <3>2, <3>3
  <2>2. Len(Append(s, a)) <= Len(t)
    BY <1>1, <1>3
  <2> QED BY <2>1, <2>2 DEF Begins
<1> QED BY <1>3, <1>4 DEF Texts, a

\* A beginning that is as long as the text is the text.
LEMMA BeginsWhole ==
  ASSUME NEW s \in Texts, NEW t \in Texts, Begins(s, t), Len(s) = Len(t)
  PROVE  s = t
<1>1. DOMAIN s = 1..Len(s) /\ DOMAIN t = 1..Len(s)
  BY DEF Texts
<1>2. \A n \in 1..Len(s) : s[n] = t[n]
  BY DEF Begins
<1>3. s = [n \in 1..Len(s) |-> s[n]] /\ t = [n \in 1..Len(s) |-> t[n]]
  BY <1>1 DEF Texts
<1> QED BY <1>2, <1>3, Zenon

\* So does reading: what was read is the beginning of the text of a file
\* that was there, and all of it at the size that was stated.
LEMMA ReadKeeps ==
  ASSUME ContextInv, NEW k \in Context!Kinds, Context!Read(k),
         UNCHANGED changes
  PROVE  ContextInv'
<1>1. context.step = "reading" /\ Context!OnlyReads
  BY DEF Context!Read, Context!Step
<1>2. PICK r \in Readers : r = reading[k]
  BY DEF ContextInv, ContextTypes
<1>3. ReaderIsSound(nodes, seen.bytes, r) /\ r.step = "read"
  BY <1>2 DEF ContextInv, ReadersAreSound, Context!Read, Context!Step
<1>4. /\ StatIsTrue(nodes, r.stat) /\ r.handle \in 1..Len(nodes)
      /\ HasPart(nodes, r)
  BY <1>3 DEF ReaderIsSound
<1>5. PICK text \in Texts : text = nodes[r.handle].bytes
  <2>1. PICK e \in Nodes : e = nodes[r.handle]
    BY <1>4 DEF ContextInv, ContextTypes
  <2> QED BY <2>1 DEF Nodes
<1>6. CASE Len(r.bytes) <= MaxBytes /\ Len(r.bytes) < Len(text)
  <2>1. PICK bytes : bytes = Append(r.bytes, text[Len(r.bytes) + 1])
    OBVIOUS
  <2>2. bytes \in Texts /\ (Begins(r.bytes, text) => Begins(bytes, text))
    BY <1>2, <1>5, <1>6, <2>1, BeginsOn, ReaderFields
  <2>3. PICK next : next = [r EXCEPT !.bytes = bytes]
    OBVIOUS
  <2>4. Context!GoesOn(k, next)
    BY <1>2, <1>5, <1>6, <2>1, <2>3 DEF Context!Read
  <2>5. next = [step |-> r.step, handle |-> r.handle, stat |-> r.stat,
                bytes |-> bytes, result |-> r.result]
    BY <1>2, <2>3, ReaderFields
  <2>6. /\ next \in Readers /\ next.step = r.step /\ next.handle = r.handle
        /\ next.stat = r.stat /\ next.bytes = bytes
        /\ next.result = r.result
    <3>1. r.step \in StepNames /\ r.handle \in Nat
          /\ r.stat \in Stats \cup {Null} /\ r.result \in Observations \cup {Null}
      BY <1>2, ReaderFields
    <3>2. bytes \in Texts
      BY <2>2
    <3> HIDE DEF Texts, Stats, Observations
    <3> QED BY <2>5, <3>1, <3>2 DEF Readers
  <2>7. HasPart(nodes, next)
    BY <1>4, <1>5, <2>2, <2>6 DEF HasPart
  <2>8. ReaderIsSound(nodes, seen.bytes, next)
    BY <1>3, <1>4, <2>6, <2>7 DEF ReaderIsSound
  <2> QED BY <1>1, <2>4, <2>6, <2>8, ReaderSteps
<1>7. CASE ~(Len(r.bytes) <= MaxBytes /\ Len(r.bytes) < Len(text))
  <2>1. PICK next : next = [r EXCEPT !.step = "final"]
    OBVIOUS
  <2>2. Context!GoesOn(k, next)
    BY <1>2, <1>5, <1>7, <2>1 DEF Context!Read
  <2>3. next = [step |-> "final", handle |-> r.handle, stat |-> r.stat,
                bytes |-> r.bytes, result |-> r.result]
    BY <1>2, <2>1, ReaderFields
  <2>4. /\ next \in Readers /\ next.step = "final" /\ next.handle = r.handle
        /\ next.stat = r.stat /\ next.bytes = r.bytes
        /\ next.result = r.result
    <3>1. /\ "final" \in StepNames /\ r.handle \in Nat
          /\ r.stat \in Stats \cup {Null} /\ r.bytes \in Texts
          /\ r.result \in Observations \cup {Null}
      BY <1>2, ReaderFields DEF StepNames
    <3> QED BY <2>3, <3>1, AReader
  <2>5. HasPart(nodes, next)
    BY <1>4, <2>4 DEF HasPart
  <2>6. ReaderIsSound(nodes, seen.bytes, next)
    BY <1>3, <1>4, <2>4, <2>5 DEF ReaderIsSound
  <2> QED BY <1>1, <2>2, <2>4, <2>6, ReaderSteps
<1> QED BY <1>6, <1>7

\* So does the last stat of the open file: unchanged size and times mean
\* that what was read is what the file holds.
LEMMA FinalStatKeeps ==
  ASSUME ContextInv, NEW k \in Context!Kinds, Context!FinalStat(k),
         UNCHANGED changes
  PROVE  ContextInv'
<1>1. context.step = "reading" /\ Context!OnlyReads
  BY DEF Context!FinalStat, Context!Step
<1>2. PICK r \in Readers : r = reading[k]
  BY DEF ContextInv, ContextTypes
<1>3. ReaderIsSound(nodes, seen.bytes, r) /\ r.step = "final"
  BY <1>2 DEF ContextInv, ReadersAreSound, Context!FinalStat, Context!Step
<1>4. /\ StatIsTrue(nodes, r.stat) /\ HasPart(nodes, r)
  BY <1>3 DEF ReaderIsSound
<1>5. PICK s : s = IF /\ Context!SameIdentity(r.stat, Context!Stat(r.handle))
                      /\ r.stat.size = Len(r.bytes)
                     THEN r.stat ELSE Null
  OBVIOUS
<1>6. PICK next : next = [r EXCEPT !.step = "path", !.stat = s]
  OBVIOUS
<1>7. Context!GoesOn(k, next)
  BY <1>2, <1>5, <1>6, ReaderFields DEF Context!FinalStat
<1>8. /\ s \in Stats \cup {Null}
      /\ s # Null => s = r.stat /\ s.size = Len(r.bytes)
  BY <1>4, <1>5 DEF StatIsTrue
<1>9. next = [step |-> "path", handle |-> r.handle, stat |-> s,
              bytes |-> r.bytes, result |-> r.result]
  BY <1>2, <1>6, StatGoesOn, Zenon
<1>10. /\ next \in Readers /\ next.step = "path" /\ next.handle = r.handle
       /\ next.stat = s /\ next.bytes = r.bytes /\ next.result = r.result
  <2>1. /\ "path" \in StepNames /\ r.handle \in Nat /\ r.bytes \in Texts
        /\ r.result \in Observations \cup {Null}
    BY <1>2, ReaderFields DEF StepNames
  <2>2. s \in Stats \cup {Null}
    BY <1>8
  <2> QED BY <1>9, <2>1, <2>2 DEF Readers
<1>11. next.stat # Null => HasPart(nodes, next)
  BY <1>4, <1>8, <1>10 DEF HasPart
<1>12. ReaderIsSound(nodes, seen.bytes, next)
  BY <1>3, <1>4, <1>8, <1>10, <1>11 DEF ReaderIsSound
<1> QED BY <1>1, <1>7, <1>10, <1>12, ReaderSteps

\* So does the last stat of the path: the source is available only if the
\* path names the file that was read, which holds what was read.
LEMMA FinalPathKeeps ==
  ASSUME ContextInv, NEW k \in Context!Kinds, Context!FinalPath(k),
         UNCHANGED changes
  PROVE  ContextInv'
<1>1. context.step = "reading" /\ Context!OnlyReads
  BY DEF Context!FinalPath, Context!Step
<1>2. PICK r \in Readers : r = reading[k]
  BY DEF ContextInv, ContextTypes
<1>3. ReaderIsSound(nodes, seen.bytes, r) /\ r.step = "path"
  BY <1>2 DEF ContextInv, ReadersAreSound, Context!FinalPath, Context!Step
<1>4. \/ \E status \in Failures : Context!Degraded(k, status)
      \/ /\ node # 0 /\ r.stat # Null
         /\ Context!SameIdentity(r.stat, Context!Stat(node))
         /\ \/ r.bytes = << >>
                 /\ Context!Done(k, Context!Observation("empty", Null))
            \/ r.bytes # << >>
                 /\ Context!Done(k, Context!Observation("ready", r.bytes))
  BY <1>2 DEF Context!FinalPath, Failures
<1>5. ASSUME NEW status \in Failures, Context!Degraded(k, status)
      PROVE  ContextInv'
  BY <1>1, <1>5, DegradedSteps
<1>6. ASSUME NEW o \in Observations, ResultIsTrue(seen.bytes, o),
             Context!Done(k, o)
      PROVE  ContextInv'
  <2>1. PICK next : next = [Context!NoReading EXCEPT !.result = o]
    OBVIOUS
  <2>2. Context!GoesOn(k, next)
    BY <1>6, <2>1 DEF Context!Done
  <2>3. next \in Readers /\ ReaderIsSound(nodes, seen.bytes, next)
    BY <1>6, <2>1, DoneIsSound
  <2> QED BY <1>1, <2>2, <2>3, ReaderSteps
<1>7. CASE Context!Done(k, Context!Observation("empty", Null))
  <2>1. PICK o : o = Context!Observation("empty", Null)
    OBVIOUS
  <2>2. o \in Observations /\ ResultIsTrue(seen.bytes, o)
    BY <2>1 DEF Context!Observation, Observations, ResultIsTrue,
                Context!ValidSource
  <2> QED BY <1>6, <1>7, <2>1, <2>2
<1>8. CASE /\ node # 0 /\ r.stat # Null /\ r.bytes # << >>
           /\ Context!SameIdentity(r.stat, Context!Stat(node))
           /\ Context!Done(k, Context!Observation("ready", r.bytes))
  <2>1. PICK o : o = Context!Observation("ready", r.bytes)
    OBVIOUS
  <2>2. node \in 1..Len(nodes)
    BY <1>8 DEF ContextInv, ContextTypes
  <2>3. /\ StatIsTrue(nodes, r.stat) /\ HasPart(nodes, r)
        /\ r.stat.size = Len(r.bytes)
    BY <1>3, <1>8 DEF ReaderIsSound
  <2>4. /\ r.stat.node = node /\ r.stat.time = nodes[node].time
        /\ r.stat.size = Len(nodes[node].bytes)
    BY <1>8, <2>2, <2>3, SameIsTrue DEF ContextInv
  <2>5. nodes[node].bytes \in Texts
    <3>1. PICK e \in Nodes : e = nodes[node]
      BY <2>2 DEF ContextInv, ContextTypes
    <3> QED BY <3>1 DEF Nodes
  <2>6. r.bytes = nodes[node].bytes
    BY <1>2, <2>3, <2>4, <2>5, BeginsWhole, ReaderFields DEF HasPart
  <2>7. r.bytes \in seen.bytes
    BY <1>1, <1>8, <2>6 DEF ContextInv, RequestIsSound, Context!Bytes
  <2>8. r.bytes \in Texts /\ r.bytes # Null
    BY <1>2, ReaderFields, ContextAssumption DEF Texts
  <2>9. o.status = "ready" /\ o.bytes = r.bytes
    BY <2>1 DEF Context!Observation
  <2>10. o \in Observations
    BY <2>1, <2>8 DEF Context!Observation, Observations
  <2>11. ResultIsTrue(seen.bytes, o)
    BY <1>8, <2>7, <2>8, <2>9 DEF ResultIsTrue, Context!ValidSource
  <2> QED BY <1>6, <1>8, <2>1, <2>10, <2>11
<1> QED BY <1>4, <1>5, <1>7, <1>8

\* So does a failure of any of these calls.
LEMMA ReadFailsKeeps ==
  ASSUME ContextInv, NEW k \in Context!Kinds, Context!ReadFails(k),
         UNCHANGED changes
  PROVE  ContextInv'
BY DegradedSteps DEF Context!ReadFails, Failures

\* Nothing is read yet.
LEMMA NoReadingIsSound ==
  ASSUME NEW files, NEW texts
  PROVE  /\ Context!NoReading \in Readers
         /\ ReaderIsSound(files, texts, Context!NoReading)
         /\ Context!NoReading.result = Null
<1>1. << >> \in Texts
  BY DEF Texts
<1>2. PICK none \in Texts : none = << >>
  BY <1>1
<1>3. PICK r : r = Context!NoReading
  OBVIOUS
<1>4. r = [step |-> "none", handle |-> 0, stat |-> Null, bytes |-> none,
           result |-> Null]
  BY <1>2, <1>3 DEF Context!NoReading
<1>5. r \in Readers
  <2> HIDE DEF Texts
  <2> QED BY <1>4 DEF Readers, StepNames
<1>6. r.step = "none" /\ r.result = Null
  BY <1>4
<1>7. ReaderIsSound(files, texts, r)
  BY <1>6 DEF ReaderIsSound
<1> QED BY <1>3, <1>5, <1>6, <1>7

\* A source that waits to be read, and one that is not configured.
LEMMA StartIsSound ==
  ASSUME NEW files, NEW texts, NEW k, NEW sources,
         NEW r, r = IF k \in sources
                      THEN [Context!NoReading EXCEPT !.step = "lstat"]
                      ELSE [Context!NoReading EXCEPT
                              !.result = Context!Unconfigured]
  PROVE  r \in Readers /\ ReaderIsSound(files, texts, r)
<1>1. << >> \in Texts
  BY DEF Texts
<1>2. PICK none \in Texts : none = << >>
  BY <1>1
<1>3. CASE k \in sources
  <2>1. r = [step |-> "lstat", handle |-> 0, stat |-> Null, bytes |-> none,
             result |-> Null]
    BY <1>2, <1>3 DEF Context!NoReading
  <2>2. r \in Readers
    <3> HIDE DEF Texts
    <3> QED BY <2>1 DEF Readers, StepNames
  <2>3. r.step = "lstat" /\ r.result = Null /\ r.bytes = << >>
    BY <1>2, <2>1
  <2> QED BY <2>2, <2>3 DEF ReaderIsSound
<1>4. CASE k \notin sources
  <2>1. PICK o : o = Context!Observation("unconfigured", Null)
    OBVIOUS
  <2>2. o \in Observations /\ ResultIsTrue(texts, o)
    BY <2>1 DEF Context!Observation, Observations, ResultIsTrue,
                Context!ValidSource
  <2>3. r = [Context!NoReading EXCEPT !.result = o]
    BY <1>4, <2>1 DEF Context!Unconfigured
  <2> QED BY <2>2, <2>3, DoneIsSound
<1> QED BY <1>3, <1>4

\* A request starts at the configuration there is, and sees the text there
\* is.
LEMMA InspectKeeps ==
  ASSUME ContextInv, Context!Inspect, UNCHANGED changes
  PROVE  ContextInv'
<1>1. /\ setting' = setting /\ node' = node /\ nodes' = nodes
      /\ rest' = rest /\ clock' = clock /\ decisions' = decisions
      /\ delivery' = delivery /\ context.step = "idle" /\ answer = Null
      /\ seen' = Context!Now
  BY DEF Context!Inspect, Context!fileVars, Context!queueVars
<1>2. CASE ~setting.ready
  <2>1. /\ answer' = Context!Unavailable("config_unavailable")
        /\ context' = context /\ reading' = reading
    BY <1>2 DEF Context!Inspect
  <2>2. ContextTypes'
    BY <1>1, <2>1 DEF ContextInv, ContextTypes
  <2>3. ReadersAreSound'
    BY <1>1, <2>1, NoReadingIsSound DEF ContextInv, RequestIsSound, ReadersAreSound
  <2>4. RequestIsSound'
    BY <1>1, <2>1 DEF ContextInv, RequestIsSound
  <2>5. answer'.status = "unavailable"
    BY <2>1 DEF Context!Unavailable
  <2>6. AnswerIsSound'
    BY <2>5 DEF AnswerIsSound, Context!ContextsAreValid,
                Context!ValidContext, Context!ContextIsWhole
  <2> QED BY <2>2, <2>3, <2>4, <2>6 DEF ContextInv
<1>3. CASE setting.ready
  <2>1. /\ answer' = Null
        /\ context' = [Context!NoContext EXCEPT !.step = "reading",
                         !.revision = setting.revision]
        /\ reading' = [k \in Context!Kinds |->
             IF k \in setting.sources
               THEN [Context!NoReading EXCEPT !.step = "lstat"]
               ELSE [Context!NoReading EXCEPT
                       !.result = Context!Unconfigured]]
    BY <1>3 DEF Context!Inspect
  <2>2. ASSUME NEW k \in Context!Kinds
        PROVE  /\ reading'[k] \in Readers
               /\ ReaderIsSound(nodes, seen'.bytes, reading'[k])
    <3>1. PICK r : r = IF k \in setting.sources
                         THEN [Context!NoReading EXCEPT !.step = "lstat"]
                         ELSE [Context!NoReading EXCEPT
                                 !.result = Context!Unconfigured]
      OBVIOUS
    <3>2. reading'[k] = r
      BY <2>1, <3>1
    <3> QED BY <3>1, <3>2, StartIsSound
  <2>3. reading' \in [Context!Kinds -> Readers]
    BY <2>1, <2>2
  <2>4. /\ context'.step = "reading" /\ context'.state = Null
        /\ context'.revision = setting.revision
        /\ DOMAIN context' = {"step", "revision", "state", "after"}
    BY <2>1 DEF Context!NoContext
  <2>5. ContextTypes'
    BY <1>1, <2>3, <2>4 DEF ContextInv, ContextTypes
  <2>6. ReadersAreSound'
    BY <1>1, <2>2 DEF ReadersAreSound
  <2>7. /\ seen'.bytes = {Context!Bytes}
        /\ seen'.revisions = {setting.revision}
    BY <1>1 DEF Context!Now
  <2>8. setting.revision \in Nat
    BY DEF ContextInv, ContextTypes
  <2>9. seen'.revisions = context'.revision..setting'.revision
    BY <1>1, <2>4, <2>7, <2>8
  <2>10. Context!Bytes' \in seen'.bytes
    BY <1>1, <2>7 DEF Context!Bytes
  <2>11. RequestIsSound'
    BY <1>1, <2>1, <2>4, <2>8, <2>9, <2>10 DEF RequestIsSound
  <2>12. AnswerIsSound'
    BY <2>1 DEF AnswerIsSound, Context!ContextsAreValid,
                Context!ContextIsWhole
  <2> QED BY <2>5, <2>6, <2>11, <2>12 DEF ContextInv
<1> QED BY <1>2, <1>3

\* What a request that goes on does to the request alone.
LEMMA ReadStateKeeps ==
  ASSUME ContextInv, Context!ReadState, UNCHANGED changes
  PROVE  ContextInv'
<1>1. /\ setting' = setting /\ node' = node /\ nodes' = nodes
      /\ rest' = rest /\ clock' = clock /\ decisions' = decisions
      /\ delivery' = delivery /\ reading' = reading /\ answer' = answer
      /\ seen' = seen /\ context.step = "reading"
  BY DEF Context!ReadState, Context!fileVars, Context!queueVars
<1>2. PICK state :
        /\ \/ state = [status |-> "ready", decisions |-> decisions,
                       delivery |-> delivery]
           \/ state = [status |-> "error"]
        /\ context' = [context EXCEPT !.state = state]
  BY DEF Context!ReadState
<1>3. StateIsSound(state)
  BY <1>2 DEF StateIsSound, ContextInv, ContextTypes
<1>4. /\ context'.step = context.step
      /\ context'.revision = context.revision
      /\ context'.after = context.after
      /\ context'.state \in {state, context.state}
      /\ DOMAIN context' = DOMAIN context
  BY <1>2
<1>5. ContextTypes'
  BY <1>1, <1>4 DEF ContextInv, ContextTypes
<1>6. ReadersAreSound'
  BY <1>1 DEF ContextInv, ReadersAreSound
<1>7. RequestIsSound'
  BY <1>1, <1>3, <1>4 DEF ContextInv, RequestIsSound, Context!Bytes
<1>8. answer' = Null
  BY <1>1 DEF ContextInv, RequestIsSound
<1>9. AnswerIsSound'
  BY <1>8 DEF AnswerIsSound, Context!ContextsAreValid,
              Context!ContextIsWhole
<1> QED BY <1>5, <1>6, <1>7, <1>9 DEF ContextInv

\* The request has a field that becomes a value.
LEMMA LookAgainKeeps ==
  ASSUME ContextInv, Context!LookAgain, UNCHANGED changes
  PROVE  ContextInv'
<1>1. /\ setting' = setting /\ node' = node /\ nodes' = nodes
      /\ rest' = rest /\ clock' = clock /\ decisions' = decisions
      /\ delivery' = delivery /\ reading' = reading /\ answer' = answer
      /\ seen' = seen /\ context.step = "reading" /\ context.state # Null
      /\ \A k \in Context!Kinds : reading[k].result # Null
  BY DEF Context!LookAgain, Context!fileVars, Context!queueVars
<1>2. PICK after : after = [ready |-> setting.ready,
                            revision |-> setting.revision]
  OBVIOUS
<1>3. context' = [context EXCEPT !.step = "looked", !.after = after]
  BY <1>2 DEF Context!LookAgain
<1>4. /\ context'.step = "looked" /\ context'.after = after
      /\ context'.revision = context.revision
      /\ context'.state = context.state
      /\ DOMAIN context' = DOMAIN context
  BY <1>3 DEF ContextInv, ContextTypes
<1>5. after.revision = setting.revision
  BY <1>2
<1>6. ContextTypes'
  BY <1>1, <1>4 DEF ContextInv, ContextTypes
<1>7. ReadersAreSound'
  BY <1>1 DEF ContextInv, ReadersAreSound
<1>8. setting.revision \in Nat
  BY DEF ContextInv, ContextTypes
<1>9. answer' = Null
  BY <1>1 DEF ContextInv, RequestIsSound
<1>10. RequestIsSound'
  BY <1>1, <1>4, <1>5, <1>8, <1>9 DEF ContextInv, RequestIsSound
<1>11. AnswerIsSound'
  BY <1>9 DEF AnswerIsSound, Context!ContextsAreValid,
              Context!ContextIsWhole
<1> QED BY <1>6, <1>7, <1>10, <1>11 DEF ContextInv

\* The number of elements is the same in every module.
LEMMA SameContextCardinality ==
  \A S : Context!Cardinality(S) = Cardinality(S)
BY DEF Context!Cardinality, Cardinality

\* No more decisions are shown than there may be.
LEMMA FewAreShown ==
  ASSUME NEW all, all \subseteq Decisions,
         NEW shown, shown = {d.id : d \in Context!Recent(all)}
  PROVE  Context!Cardinality(shown) <= MaxRecent
<1> DEFINE before == {p \in all \X all : Context!Newer(p[1], p[2])}
           recent == First(before, all, MaxRecent)
<1>1. IsFiniteSet(all)
  BY ContextAssumption, FS_Subset
<1>2. \A d \in all : d.id \in Nat /\ d.at \in Nat
                     /\ d = [id |-> d.id, at |-> d.at]
  BY ContextAssumption
<1>3. \A d, e \in all : <<d, e>> \in before <=> Context!Newer(d, e)
  OBVIOUS
<1>4. Orders(before, all)
  <2>1. \A d \in all : ~Context!Newer(d, d)
    BY <1>2 DEF Context!Newer
  <2>2. \A d, e, f \in all :
          Context!Newer(d, e) /\ Context!Newer(e, f) => Context!Newer(d, f)
    BY <1>2 DEF Context!Newer
  <2>3. \A d, e \in all :
          d = e \/ Context!Newer(d, e) \/ Context!Newer(e, d)
    BY <1>2 DEF Context!Newer
  <2> HIDE DEF before
  <2> QED BY <1>3, <2>1, <2>2, <2>3 DEF Orders
<1>5. Context!Recent(all) = recent
  <2>1. ASSUME NEW d \in all
        PROVE  {e \in all : Context!Newer(e, d)} = Ahead(before, all, d)
    BY <1>3 DEF Ahead
  <2>2. \A d \in all : Context!Cardinality({e \in all : Context!Newer(e, d)})
                         = Cardinality(Ahead(before, all, d))
    BY <2>1, SameContextCardinality
  <2> HIDE DEF before
  <2> QED BY <2>2 DEF Context!Recent, First
<1> HIDE DEF before
<1>6. /\ IsFiniteSet(recent) /\ Cardinality(recent) \in Nat
      /\ Cardinality(recent) <= MaxRecent
  BY <1>1, <1>4, FirstAreFew, ContextAssumption
<1> HIDE DEF recent
<1>7. PICK f : f = [d \in recent |-> d.id]
  OBVIOUS
<1>8. f \in Surjection(recent, shown)
  BY <1>5, <1>7 DEF Surjection
<1>9. IsFiniteSet(shown) /\ Cardinality(shown) <= Cardinality(recent)
  BY <1>6, <1>8, FS_Surjection
<1>10. Cardinality(shown) \in Nat
  BY <1>9, FS_CardinalityType
<1> QED BY <1>6, <1>9, <1>10, SameContextCardinality, ContextAssumption

\* What is shown of a delivery fits its schema.
LEMMA SummaryIsValid ==
  ASSUME ContextTypes, NEW recorded \in Deliveries,
         NEW s, s = Context!Summary(recorded), s # Null
  PROVE  Context!ValidDelivery(s)
<1>1. /\ recorded.attempts \in 0..2
      /\ recorded.outcome \in {"delivered", "failed", "unknown", Null}
  BY DEF Deliveries
<1>2. recorded.attempts # 0
  BY DEF Context!Summary
<1>3. PICK status : status = Context!Status(recorded, Context!IsActive(delivery))
  OBVIOUS
<1>4. s = [attempts |-> recorded.attempts, status |-> status,
           completed |-> recorded.outcome # Null]
  BY <1>2, <1>3 DEF Context!Summary
<1>5. /\ s.attempts = recorded.attempts /\ s.status = status
      /\ s.completed = (recorded.outcome # Null)
  BY <1>4
<1>6. s.attempts \in 1..2
  BY <1>1, <1>2, <1>5
<1>7. CASE recorded.outcome # Null
  <2>1. status = recorded.outcome
    BY <1>3, <1>7 DEF Context!Status
  <2>2. status \in {"delivered", "failed", "unknown"}
    BY <1>1, <1>7, <2>1
  <2> QED BY <1>5, <1>6, <1>7, <2>2 DEF Context!ValidDelivery
<1>8. CASE recorded.outcome = Null
  <2>1. status \in {"delivering", "unknown"}
    BY <1>3, <1>8 DEF Context!Status
  <2> QED BY <1>5, <1>6, <1>8, <2>1 DEF Context!ValidDelivery
<1> QED BY <1>7, <1>8

\* What is shown of the decisions fits its schema.
LEMMA RecentIsValid ==
  ASSUME ContextTypes, NEW state, StateIsSound(state),
         NEW recent, recent = Context!RecentDecisions(state)
  PROVE  /\ recent.delivery # Null => Context!ValidDelivery(recent.delivery)
         /\ Context!Cardinality(recent.shown) <= MaxRecent
<1>1. CASE state.status = "error"
  <2>1. recent.shown = {} /\ recent.delivery = Null
    BY <1>1 DEF Context!RecentDecisions
  <2>2. Context!Cardinality({}) = 0
    BY SameContextCardinality, FS_EmptySet
  <2> QED BY <2>1, <2>2, ContextAssumption
<1>2. CASE state.status # "error"
  <2>1. PICK shown : shown = {d.id : d \in Context!Recent(state.decisions)}
    OBVIOUS
  <2>2. /\ recent.shown = shown
        /\ recent.delivery = IF Delivered \in shown
             THEN Context!Summary(state.delivery) ELSE Null
    BY <1>2, <2>1 DEF Context!RecentDecisions
  <2>3. state.decisions \subseteq Decisions /\ state.delivery \in Deliveries
    BY <1>2 DEF StateIsSound
  <2>4. Context!Cardinality(shown) <= MaxRecent
    BY <2>1, <2>3, FewAreShown
  <2>5. recent.delivery # Null => Context!ValidDelivery(recent.delivery)
    BY <2>2, <2>3, SummaryIsValid
  <2> QED BY <2>2, <2>4, <2>5
<1> QED BY <1>1, <1>2

\* The answer of inspect is valid, and whole: an available text was there
\* while it was read, under a revision that was there.
LEMMA AnswersKeeps ==
  ASSUME ContextInv, Context!Answers, UNCHANGED changes
  PROVE  ContextInv'
<1>1. /\ setting' = setting /\ node' = node /\ nodes' = nodes
      /\ rest' = rest /\ clock' = clock /\ decisions' = decisions
      /\ delivery' = delivery /\ seen' = seen
      /\ context.step = "looked" /\ context' = Context!NoContext
      /\ reading' = [k \in Context!Kinds |-> Context!NoReading]
  BY DEF Context!Answers, Context!fileVars, Context!queueVars
<1>2. context'.step = "idle" /\ context'.state = Null
      /\ DOMAIN context' = {"step", "revision", "state", "after"}
  BY <1>1 DEF Context!NoContext
<1>3. ContextTypes'
  <2>1. reading' \in [Context!Kinds -> Readers]
    BY <1>1, NoReadingIsSound
  <2> QED BY <1>1, <1>2, <2>1 DEF ContextInv, ContextTypes
<1>4. ReadersAreSound'
  BY <1>1, NoReadingIsSound DEF ReadersAreSound
<1>5. RequestIsSound'
  BY <1>1, <1>2 DEF RequestIsSound
<1>6. CASE Context!Drifted(context.revision, context.after)
  <2>1. answer'.status = "unavailable"
    BY <1>6 DEF Context!Answers, Context!Unavailable
  <2>2. AnswerIsSound'
    BY <2>1 DEF AnswerIsSound, Context!ContextsAreValid,
                Context!ValidContext, Context!ContextIsWhole
  <2> QED BY <1>3, <1>4, <1>5, <2>2 DEF ContextInv
<1>7. CASE ~Context!Drifted(context.revision, context.after)
  <2>1. PICK recent : recent = Context!RecentDecisions(context.state)
    OBVIOUS
  <2>2. PICK o : o = Context!Observed(recent)
    OBVIOUS
  <2>3. answer' = o
    BY <1>7, <2>1, <2>2 DEF Context!Answers
  <2>4. /\ o.status = IF /\ \A k \in Context!Kinds :
                              Context!Available(reading[k].result)
                         /\ recent.status = "ready"
                        THEN "ready" ELSE "partial"
        /\ o.revision = context.revision
        /\ o.sources = [k \in Context!Kinds |-> reading[k].result]
        /\ o.recent = recent
    BY <2>2 DEF Context!Observed
  <2>5. \A k \in Context!Kinds : o.sources[k] = reading[k].result
    BY <2>4
  <2>6. \A k \in Context!Kinds : ResultIsTrue(seen.bytes, reading[k].result)
    BY <1>1 DEF ContextInv, RequestIsSound, ReadersAreSound, ReaderIsSound
  <2>7. StateIsSound(context.state)
    BY <1>1 DEF ContextInv, RequestIsSound
  <2>8. /\ recent.delivery # Null => Context!ValidDelivery(recent.delivery)
        /\ Context!Cardinality(recent.shown) <= MaxRecent
    BY <2>1, <2>7, RecentIsValid DEF ContextInv
  <2>9. \A k \in Context!Kinds : Context!ValidSource(o.sources[k])
    BY <2>5, <2>6 DEF ResultIsTrue
  <2>10. (o.status = "ready")
           = ((\A k \in Context!Kinds : Context!Available(o.sources[k]))
              /\ o.recent.status = "ready")
    BY <2>4, <2>5
  <2>11. Context!ValidContext(o)
    BY <2>4, <2>8, <2>9, <2>10 DEF Context!ValidContext
  <2>12. Context!ContextsAreValid'
    BY <2>3, <2>11 DEF Context!ContextsAreValid
  <2>13. \A k \in Context!Kinds : o.sources[k].status = "ready"
           => o.sources[k].bytes \in seen.bytes
    BY <2>5, <2>6 DEF ResultIsTrue
  <2>14. seen.revisions = {o.revision}
    <3>1. /\ context.revision \in Nat
          /\ seen.revisions = context.revision..context.after.revision
      BY <1>1 DEF ContextInv, RequestIsSound
    <3>2. context.after.revision = context.revision
      BY <1>7 DEF Context!Drifted
    <3> QED BY <2>4, <3>1, <3>2
  <2>15. Context!ContextIsWhole'
    BY <1>1, <2>3, <2>13, <2>14 DEF Context!ContextIsWhole
  <2> QED BY <1>3, <1>4, <1>5, <2>12, <2>15 DEF ContextInv, AnswerIsSound
<1> QED BY <1>6, <1>7

\* What changes while the request is under way changes nothing of it.
Undisturbed ==
  context' = context /\ reading' = reading /\ answer' = answer

\* The texts and revisions seen are more, as long as something is read.
SeesMore ==
  /\ context.step = "reading" =>
       /\ seen.bytes \subseteq seen'.bytes
       /\ seen'.revisions = seen.revisions \cup {setting'.revision}
       /\ Context!Bytes' \in seen'.bytes
  /\ context.step # "reading" =>
       seen'.bytes = seen.bytes /\ seen'.revisions = seen.revisions

\* What is seen while a request runs is added to what was seen.
LEMMA SeesIsMore ==
  ASSUME Context!Sees
  PROVE  SeesMore
BY DEF Context!Sees, Context!Joined, Context!Now, SeesMore

\* A reader stays sound when files are created, or written with a later
\* time, and more is seen.
LEMMA ReaderStays ==
  ASSUME NEW files, NEW texts, NEW r \in Readers,
         ReaderIsSound(files, texts, r),
         Len(files) \in Nat, NEW more, Len(more) \in Nat,
         Len(files) <= Len(more),
         \A n \in 1..Len(files) : files[n].time \in Nat,
         \A n \in 1..Len(files) :
           \/ more[n] = files[n]
           \/ more[n].time \in Nat /\ more[n].time > files[n].time,
         NEW seenNow, texts \subseteq seenNow
  PROVE  ReaderIsSound(more, seenNow, r)
<1>1. ASSUME NEW s, StatIsTrue(files, s)
      PROVE  /\ StatIsTrue(more, s)
             /\ s.time = more[s.node].time => more[s.node] = files[s.node]
  <2>1. /\ s \in Stats /\ s.node \in 1..Len(files)
        /\ s.time <= files[s.node].time
        /\ s.time = files[s.node].time => s.size = Len(files[s.node].bytes)
    BY <1>1 DEF StatIsTrue
  <2>2. s.time \in Nat
    BY <2>1 DEF Stats
  <2>3. files[s.node].time \in Nat
    BY <2>1
  <2>4. s.node \in 1..Len(more)
    BY <2>1
  <2>5. CASE more[s.node] = files[s.node]
    BY <2>1, <2>4, <2>5 DEF StatIsTrue
  <2>6. CASE /\ more[s.node].time \in Nat
             /\ more[s.node].time > files[s.node].time
    <3>1. s.time < more[s.node].time
      BY <2>1, <2>2, <2>3, <2>6
    <3>2. s.time <= more[s.node].time /\ s.time # more[s.node].time
      BY <2>2, <2>6, <3>1
    <3> QED BY <2>1, <2>4, <3>2 DEF StatIsTrue
  <2> QED BY <2>1, <2>5, <2>6
<1>2. ASSUME StatIsTrue(files, r.stat), HasPart(files, r)
      PROVE  HasPart(more, r)
  BY <1>1, <1>2 DEF HasPart
<1>3. r.result # Null => ResultIsTrue(seenNow, r.result)
  BY DEF ReaderIsSound, ResultIsTrue
<1>4. r.handle \in 1..Len(files) => r.handle \in 1..Len(more)
  OBVIOUS
<1> QED BY <1>1, <1>2, <1>3, <1>4 DEF ReaderIsSound

\* The request stays sound when the files change so, the configuration gets
\* later revisions and more is seen.
LEMMA RequestStays ==
  ASSUME ContextInv, Undisturbed, SeesMore, context.step # "idle",
         ContextTypes', Len(nodes) <= Len(nodes'),
         \A n \in 1..Len(nodes) :
           nodes'[n] = nodes[n] \/ nodes'[n].time > clock,
         setting'.revision \in {setting.revision, setting.revision + 1}
  PROVE  ContextInv'
<1>1. /\ nodes \in Seq(Nodes) /\ nodes' \in Seq(Nodes)
      /\ clock \in Nat /\ \A n \in 1..Len(nodes) : nodes[n].time <= clock
      /\ setting.revision \in Nat /\ setting'.revision \in Nat
  BY DEF ContextInv, ContextTypes
<1>2. Len(nodes) \in Nat /\ Len(nodes') \in Nat
  BY <1>1
<1>3. /\ \A n \in 1..Len(nodes) : nodes[n].time \in Nat
      /\ \A n \in 1..Len(nodes') : nodes'[n].time \in Nat
  <2>1. \A e \in Nodes : e.time \in Nat
    BY DEF Nodes
  <2> QED BY <1>1, <2>1
<1>4. \A n \in 1..Len(nodes) :
        \/ nodes'[n] = nodes[n]
        \/ nodes'[n].time \in Nat /\ nodes'[n].time > nodes[n].time
  <2> SUFFICES ASSUME NEW n \in 1..Len(nodes), nodes'[n].time > clock
               PROVE  nodes'[n].time \in Nat /\ nodes'[n].time > nodes[n].time
    OBVIOUS
  <2>1. n \in 1..Len(nodes')
    BY <1>2
  <2>2. nodes'[n].time \in Nat /\ nodes[n].time \in Nat
    BY <1>3, <2>1
  <2> QED BY <1>1, <2>2
<1>5. seen.bytes \subseteq seen'.bytes
  BY DEF SeesMore
<1>6. ASSUME NEW k \in Context!Kinds
      PROVE  ReaderIsSound(nodes', seen'.bytes, reading[k])
  <2>1. ReaderIsSound(nodes, seen.bytes, reading[k]) /\ reading[k] \in Readers
    BY DEF ContextInv, ContextTypes, ReadersAreSound
  <2> QED BY <1>2, <1>3, <1>4, <1>5, <2>1, ReaderStays
<1>7. ReadersAreSound'
  BY <1>6 DEF ReadersAreSound, Undisturbed
<1>8. answer' = Null
  BY DEF ContextInv, RequestIsSound, Undisturbed
<1>9. AnswerIsSound'
  BY <1>8 DEF AnswerIsSound, Context!ContextsAreValid,
              Context!ContextIsWhole
<1>10. ASSUME context.step = "reading"
       PROVE  /\ context.revision <= setting'.revision
              /\ seen'.revisions = context.revision..setting'.revision
  <2>1. /\ context.revision \in Nat /\ context.revision <= setting.revision
        /\ seen.revisions = context.revision..setting.revision
        /\ seen'.revisions = seen.revisions \cup {setting'.revision}
    BY <1>10 DEF ContextInv, RequestIsSound, SeesMore
  <2>2. CASE setting'.revision = setting.revision
    BY <1>1, <2>1, <2>2
  <2>3. CASE setting'.revision = setting.revision + 1
    BY <1>1, <2>1, <2>3
  <2> QED BY <2>1, <2>2, <2>3
<1>11. RequestIsSound'
  BY <1>8, <1>10 DEF ContextInv, RequestIsSound, Undisturbed, SeesMore
<1> QED BY <1>7, <1>9, <1>11 DEF ContextInv

\* Time passes with a write.
LEMMA TimePasses ==
  ASSUME ContextTypes, Context!Passes
  PROVE  clock' \in Nat /\ clock' > clock
BY ContextAssumption DEF ContextTypes, Context!Passes

\* The files after one was created.
LEMMA Created ==
  ASSUME NEW files \in Seq(Nodes), NEW e \in Nodes,
         NEW more, more = Append(files, e)
  PROVE  /\ more \in Seq(Nodes) /\ Len(files) <= Len(more)
         /\ Len(more) \in 1..Len(more) /\ Len(more) \in 0..Len(more)
         /\ \A n \in 1..Len(files) : more[n] = files[n]
         /\ \A n \in 1..Len(more) : more[n] = e \/ n \in 1..Len(files)
OBVIOUS

\* The files after one was written.
LEMMA Written ==
  ASSUME NEW files \in Seq(Nodes), NEW e \in Nodes, NEW at \in 1..Len(files),
         NEW more, more = [files EXCEPT ![at] = e]
  PROVE  /\ more \in Seq(Nodes) /\ Len(more) = Len(files)
         /\ \A n \in 1..Len(files) : more[n] = files[n] \/ more[n] = e
OBVIOUS

\* A step of an editor that creates or writes a file.
LEMMA EditorSteps ==
  ASSUME ContextInv, Context!OnlyFiles, Context!Sees, Context!Passes,
         context.step # "idle", changes' \in Nat,
         NEW kind \in Kinds, NEW bytes \in Texts,
         NEW e, e = Context!Node(kind, bytes),
         \/ nodes' = Append(nodes, e) /\ node' = Len(nodes')
         \/ nodes' = [nodes EXCEPT ![node] = e] /\ node' = node,
         rest' \in Texts
  PROVE  ContextInv'
<1>1. /\ setting' = setting /\ decisions' = decisions
      /\ delivery' = delivery /\ Undisturbed
  BY DEF Context!OnlyFiles, Context!queueVars, Context!requestVars,
         Undisturbed
<1>2. clock' \in Nat /\ clock' > clock /\ clock \in Nat
  BY TimePasses DEF ContextInv, ContextTypes
<1>3. e \in Nodes /\ e.time = clock'
  BY <1>2 DEF Context!Node, Nodes
<1>4. /\ nodes \in Seq(Nodes) /\ node \in 0..Len(nodes)
      /\ \A n \in 1..Len(nodes) : nodes[n].time <= clock
  BY DEF ContextInv, ContextTypes
<1>5. /\ nodes' \in Seq(Nodes) /\ Len(nodes) <= Len(nodes')
      /\ node' \in 0..Len(nodes')
      /\ \A n \in 1..Len(nodes) : nodes'[n] = nodes[n] \/ nodes'[n] = e
      /\ \A n \in 1..Len(nodes') : nodes'[n] = e \/ n \in 1..Len(nodes)
  <2>1. CASE nodes' = Append(nodes, e) /\ node' = Len(nodes')
    <3>1. PICK more : more = Append(nodes, e)
      OBVIOUS
    <3>2. /\ more \in Seq(Nodes) /\ Len(nodes) <= Len(more)
          /\ Len(more) \in 0..Len(more)
          /\ \A n \in 1..Len(nodes) : more[n] = nodes[n]
          /\ \A n \in 1..Len(more) : more[n] = e \/ n \in 1..Len(nodes)
      BY <1>3, <1>4, <3>1, Created
    <3>3. nodes' = more /\ node' = Len(nodes')
      BY <2>1, <3>1
    <3>4. \A n \in 1..Len(nodes') : nodes'[n] = e \/ n \in 1..Len(nodes)
      BY <3>2, <3>3
    <3>5. \A n \in 1..Len(nodes) : nodes'[n] = nodes[n]
      BY <3>2, <3>3
    <3>6. /\ nodes' \in Seq(Nodes) /\ Len(nodes) <= Len(nodes')
          /\ node' \in 0..Len(nodes')
      BY <3>2, <3>3
    <3> QED BY <3>4, <3>5, <3>6
  <2>2. CASE nodes' = [nodes EXCEPT ![node] = e] /\ node' = node
    <3>1. CASE node = 0
      <4>1. node \notin DOMAIN nodes
        BY <1>4, <3>1
      <4>2. nodes' = nodes /\ node' = node
        BY <1>4, <2>2, <4>1
      <4> QED BY <1>4, <4>2
    <3>2. CASE node # 0
      <4>1. node \in 1..Len(nodes)
        BY <1>4, <3>2
      <4>2. /\ nodes' \in Seq(Nodes) /\ Len(nodes') = Len(nodes)
            /\ \A n \in 1..Len(nodes) : nodes'[n] = nodes[n] \/ nodes'[n] = e
        BY <1>3, <1>4, <2>2, <4>1, Written
      <4> QED BY <1>4, <2>2, <4>2
    <3> QED BY <3>1, <3>2
  <2> QED BY <2>1, <2>2
<1>6. \A n \in 1..Len(nodes') : nodes'[n].time <= clock'
  <2>1. \A d \in Nodes : d.time \in Nat
    BY DEF Nodes
  <2> SUFFICES ASSUME NEW n \in 1..Len(nodes')
               PROVE  nodes'[n].time <= clock'
    OBVIOUS
  <2>2. CASE nodes'[n] = e
    BY <1>2, <1>3, <2>2
  <2>3. CASE n \in 1..Len(nodes) /\ nodes'[n] = nodes[n]
    <3>1. nodes[n].time \in Nat /\ nodes[n].time <= clock
      BY <1>4, <2>1, <2>3
    <3> QED BY <1>2, <2>3, <3>1
  <2> QED BY <1>5, <2>2, <2>3
<1>7. ContextTypes'
  BY <1>1, <1>2, <1>5, <1>6 DEF ContextInv, ContextTypes, Undisturbed
<1>8. \A n \in 1..Len(nodes) :
        nodes'[n] = nodes[n] \/ nodes'[n].time > clock
  BY <1>2, <1>3, <1>5
<1>9. SeesMore
  BY SeesIsMore
<1> QED BY <1>1, <1>5, <1>7, <1>8, <1>9, RequestStays

\* Replacing the file by another keeps what holds of the request: the
\* reader's handle is still that of the older one.
LEMMA ReplacesKeeps ==
  ASSUME ContextInv, context.step # "idle", changes' \in Nat,
         NEW kind \in Kinds, NEW text \in Texts,
         Context!Replaces(kind, text)
  PROVE  ContextInv'
<1>1. /\ Context!Passes /\ Context!OnlyFiles /\ Context!Sees
      /\ rest' = rest /\ node' = Len(nodes')
      /\ nodes' = Append(nodes, Context!Node(kind, text))
  BY DEF Context!Replaces
<1>2. PICK e : e = Context!Node(kind, text)
  OBVIOUS
<1>3. rest' \in Texts
  BY <1>1 DEF ContextInv, ContextTypes
<1> QED BY <1>1, <1>2, <1>3, EditorSteps

\* So does rewriting the file in place: it is truncated, with a new time.
LEMMA RewritesKeeps ==
  ASSUME ContextInv, context.step # "idle", changes' \in Nat,
         NEW text \in Texts, Context!Rewrites(text)
  PROVE  ContextInv'
<1>1. << >> \in Texts
  BY DEF Texts
<1>2. PICK none \in Texts : none = << >>
  BY <1>1
<1>3. /\ Context!Passes /\ Context!OnlyFiles /\ Context!Sees
      /\ rest' = text /\ node' = node
      /\ nodes' = [nodes EXCEPT ![node] = Context!Node("file", none)]
  BY <1>2 DEF Context!Rewrites
<1>4. PICK e : e = Context!Node("file", none)
  OBVIOUS
<1>5. "file" \in Kinds
  BY DEF Kinds
<1> QED BY <1>3, <1>4, <1>5, EditorSteps

\* So does writing the rest of it, with a newer time.
LEMMA WritesOnKeeps ==
  ASSUME ContextInv, context.step # "idle", changes' \in Nat,
         Context!WritesOn
  PROVE  ContextInv'
<1>1. PICK size \in 1..Len(rest) :
        /\ nodes' = [nodes EXCEPT ![node] =
             Context!Node("file", nodes[node].bytes \o SubSeq(rest, 1, size))]
        /\ rest' = SubSeq(rest, size + 1, Len(rest))
  <2>1. PICK size \in 1..Len(rest) :
        /\ nodes' = [nodes EXCEPT ![node] =
             Context!Node("file", @.bytes \o SubSeq(rest, 1, size))]
        /\ rest' = SubSeq(rest, size + 1, Len(rest))
    BY DEF Context!WritesOn
  <2> QED BY <2>1
<1>2. Context!Passes /\ Context!OnlyFiles /\ Context!Sees /\ node' = node
  BY DEF Context!WritesOn
<1>3. rest \in Seq(Nat) /\ node \in 0..Len(nodes) /\ nodes \in Seq(Nodes)
  BY DEF ContextInv, ContextTypes, Texts
<1>4. SubSeq(rest, 1, size) \in Texts /\ rest' \in Texts
  <2>1. SubSeq(rest, 1, size) \in Seq(Nat)
    BY <1>1, <1>3, SMTT(30)
  <2>2. SubSeq(rest, size + 1, Len(rest)) \in Seq(Nat)
    BY <1>1, <1>3, SMTT(30)
  <2> QED BY <1>1, <2>1, <2>2 DEF Texts
<1>5. "file" \in Kinds
  BY DEF Kinds
<1>6. CASE node # 0
  <2>1. nodes[node].bytes \in Texts
    <3>1. PICK d \in Nodes : d = nodes[node]
      BY <1>3, <1>6
    <3> QED BY <3>1 DEF Nodes
  <2>2. PICK bytes : bytes = nodes[node].bytes \o SubSeq(rest, 1, size)
    OBVIOUS
  <2>3. bytes \in Texts
    BY <1>4, <2>1, <2>2 DEF Texts
  <2>4. PICK e : e = Context!Node("file", bytes)
    OBVIOUS
  <2>5. nodes' = [nodes EXCEPT ![node] = e]
    BY <1>1, <2>2, <2>4
  <2> QED BY <1>2, <1>4, <1>5, <2>3, <2>4, <2>5, EditorSteps
<1>7. CASE node = 0
  <2>1. << >> \in Texts
    BY DEF Texts
  <2>2. PICK none \in Texts : none = << >>
    BY <2>1
  <2>3. PICK e : e = Context!Node("file", none)
    OBVIOUS
  <2>4. nodes' = [nodes EXCEPT ![node] = e]
    <3>1. ASSUME NEW x
          PROVE  [nodes EXCEPT ![node] = x] = nodes
      <4>1. node \notin DOMAIN nodes
        BY <1>3, <1>7
      <4> QED BY <1>3, <4>1
    <3> QED BY <1>1, <3>1
  <2> QED BY <1>2, <1>4, <1>5, <2>2, <2>3, <2>4, EditorSteps
<1> QED BY <1>6, <1>7

\* So does removing the file.
LEMMA RemovesKeeps ==
  ASSUME ContextInv, context.step # "idle", changes' \in Nat,
         Context!Removes
  PROVE  ContextInv'
<1>1. /\ setting' = setting /\ decisions' = decisions
      /\ delivery' = delivery /\ Undisturbed /\ SeesMore
      /\ node' = 0 /\ nodes' = nodes /\ rest' = rest /\ clock' = clock
  BY SeesIsMore
     DEF Context!Removes, Context!OnlyFiles, Context!queueVars,
         Context!requestVars, Undisturbed
<1>2. ContextTypes'
  <2>1. Len(nodes) \in Nat /\ 0 \in 0..Len(nodes)
    BY DEF ContextInv, ContextTypes
  <2> QED BY <1>1, <2>1 DEF ContextInv, ContextTypes, Undisturbed
<1>3. Len(nodes) <= Len(nodes')
  BY <1>1 DEF ContextInv, ContextTypes
<1> QED BY <1>1, <1>2, <1>3, RequestStays

\* So does any change of the files.
LEMMA FilesChangeKeeps ==
  ASSUME ContextInv, context.step # "idle", changes' \in Nat,
         Context!FilesChange
  PROVE  ContextInv'
<1>1. << >> \in Texts
  BY DEF Texts
<1>2. \A version \in Nat : Context!Texts(version) \subseteq Texts
  <2> SUFFICES ASSUME NEW version \in Nat, NEW t \in Context!Texts(version)
               PROVE  t \in Seq(Nat)
    BY DEF Texts
  <2>1. CASE \E size \in {0, MaxBytes, MaxBytes + 1} :
               t = [n \in 1..size |-> version]
    <3>1. {0, MaxBytes, MaxBytes + 1} \subseteq Nat
      BY ContextAssumption
    <3>2. PICK size \in Nat : t = [n \in 1..size |-> version]
      BY <2>1, <3>1
    <3> QED BY <3>2
  <2>2. CASE t = <<Context!NotText>>
    <3>1. t = <<0>>
      BY <2>2 DEF Context!NotText
    <3> QED BY <3>1
  <2> QED BY <2>1, <2>2 DEF Context!Texts
<1>3. ASSUME NEW kind \in {"symlink", "directory"},
             Context!Replaces(kind, << >>)
      PROVE  ContextInv'
  <2>1. PICK none \in Texts : none = << >>
    BY <1>1
  <2> QED BY <1>3, <2>1, ReplacesKeeps DEF Kinds
<1>4. ASSUME NEW text \in Context!Texts(changes + 2),
             Context!Replaces("file", text) \/ Context!Rewrites(text)
      PROVE  ContextInv'
  <2>1. text \in Texts
    BY <1>2, <1>4 DEF ContextInv, ContextTypes
  <2>2. "file" \in Kinds
    BY DEF Kinds
  <2> QED BY <1>4, <2>1, <2>2, ReplacesKeeps, RewritesKeeps
<1> QED BY <1>3, <1>4, WritesOnKeeps, RemovesKeeps DEF Context!FilesChange

\* What changes beside the files.
LEMMA OthersKeep ==
  ASSUME ContextInv, context.step # "idle", changes' \in Nat,
         UNCHANGED Context!fileVars, Undisturbed, SeesMore,
         setting' \in [ready : BOOLEAN, revision : Nat, sources : SourceSets],
         setting'.revision \in {setting.revision, setting.revision + 1},
         decisions' \subseteq Decisions, delivery' \in Deliveries
  PROVE  ContextInv'
<1>1. node' = node /\ nodes' = nodes /\ rest' = rest /\ clock' = clock
  BY DEF Context!fileVars
<1>2. ContextTypes'
  BY <1>1 DEF ContextInv, ContextTypes, Undisturbed
<1>3. Len(nodes) <= Len(nodes')
  BY <1>1 DEF ContextInv, ContextTypes
<1> QED BY <1>1, <1>2, <1>3, RequestStays

\* So does a change of the configuration: the revision grows, and is seen.
LEMMA ConfigurationKeeps ==
  ASSUME ContextInv, context.step # "idle", changes' \in Nat,
         \/ Context!ConfigBreaks
         \/ \E sources \in SourceSets : Context!Configures(sources)
  PROVE  ContextInv'
<1>1. /\ decisions' = decisions /\ delivery' = delivery /\ Undisturbed
      /\ UNCHANGED Context!fileVars
  BY DEF Context!ConfigBreaks, Context!Configures, Context!queueVars,
         Context!requestVars, Undisturbed
<1>2. setting \in [ready : BOOLEAN, revision : Nat, sources : SourceSets]
      /\ decisions \subseteq Decisions /\ delivery \in Deliveries
  BY DEF ContextInv, ContextTypes
<1>3. CASE Context!ConfigBreaks
  <2>1. /\ setting' = [setting EXCEPT !.ready = ~setting.ready]
        /\ seen' = seen
    BY <1>3 DEF Context!ConfigBreaks
  <2>2. /\ setting' \in [ready : BOOLEAN, revision : Nat,
                         sources : SourceSets]
        /\ setting'.revision = setting.revision
    BY <1>2, <2>1
  <2>3. Context!Bytes' = Context!Bytes
    BY <1>1 DEF Context!Bytes, Context!fileVars
  <2>4. SeesMore
    <3>1. context.step = "reading" =>
            /\ context.revision \in Nat
            /\ context.revision <= setting.revision
            /\ seen.revisions = context.revision..setting.revision
            /\ Context!Bytes \in seen.bytes
      BY DEF ContextInv, RequestIsSound
    <3>2. context.step = "reading" =>
            seen.revisions = seen.revisions \cup {setting.revision}
      BY <1>2, <3>1
    <3> QED BY <2>1, <2>2, <2>3, <3>1, <3>2 DEF SeesMore
  <2> QED BY <1>1, <1>2, <2>2, <2>4, OthersKeep
<1>4. ASSUME NEW sources \in SourceSets, Context!Configures(sources)
      PROVE  ContextInv'
  <2>1. setting' = [setting EXCEPT !.revision = setting.revision + 1,
                                   !.sources = sources]
    BY <1>4 DEF Context!Configures
  <2>2. /\ setting' \in [ready : BOOLEAN, revision : Nat,
                         sources : SourceSets]
        /\ setting'.revision = setting.revision + 1
    <3>1. PICK next \in Nat : next = setting.revision + 1
      BY <1>2
    <3>2. setting' = [setting EXCEPT !.revision = next, !.sources = sources]
      BY <2>1, <3>1
    <3>3. /\ [setting EXCEPT !.revision = next, !.sources = sources]
               \in [ready : BOOLEAN, revision : Nat, sources : SourceSets]
          /\ [setting EXCEPT !.revision = next, !.sources = sources].revision
               = next
      BY <1>2
    <3> QED BY <3>1, <3>2, <3>3
  <2>3. SeesMore
    BY <1>4, SeesIsMore DEF Context!Configures
  <2> QED BY <1>1, <1>2, <2>2, <2>3, OthersKeep
<1> QED BY <1>3, <1>4

\* So does a decision.
LEMMA DecidesKeeps ==
  ASSUME ContextInv, context.step # "idle", changes' \in Nat,
         NEW d \in Decisions, Context!Decides(d)
  PROVE  ContextInv'
<1>1. /\ setting' = setting /\ delivery' = delivery /\ Undisturbed
      /\ UNCHANGED Context!fileVars /\ seen' = seen
      /\ decisions' = decisions \cup {d}
  BY DEF Context!Decides, Context!requestVars, Undisturbed
<1>2. setting \in [ready : BOOLEAN, revision : Nat, sources : SourceSets]
      /\ decisions \subseteq Decisions /\ delivery \in Deliveries
  BY DEF ContextInv, ContextTypes
<1>3. Context!Bytes' = Context!Bytes
  BY <1>1 DEF Context!Bytes, Context!fileVars
<1>4. SeesMore
  <2>1. context.step = "reading" =>
          /\ context.revision \in Nat
          /\ context.revision <= setting.revision
          /\ seen.revisions = context.revision..setting.revision
          /\ Context!Bytes \in seen.bytes
    BY DEF ContextInv, RequestIsSound
  <2>2. context.step = "reading" =>
          seen.revisions = seen.revisions \cup {setting.revision}
    BY <1>2, <2>1
  <2> QED BY <1>1, <1>3, <2>1, <2>2 DEF SeesMore
<1> QED BY <1>1, <1>2, <1>4, OthersKeep

\* So does a step of the delivery.
LEMMA DeliversKeeps ==
  ASSUME ContextInv, context.step # "idle", changes' \in Nat,
         Context!Delivers
  PROVE  ContextInv'
<1>1. setting \in [ready : BOOLEAN, revision : Nat, sources : SourceSets]
      /\ decisions \subseteq Decisions /\ delivery \in Deliveries
  BY DEF ContextInv, ContextTypes
<1>2. ASSUME NEW next \in Deliveries, Context!DeliveryStep(next)
      PROVE  ContextInv'
  <2>1. /\ setting' = setting /\ delivery' = next /\ decisions' = decisions
        /\ Undisturbed /\ UNCHANGED Context!fileVars /\ SeesMore
    BY <1>2, SeesIsMore
       DEF Context!DeliveryStep, Context!requestVars, Undisturbed
  <2> QED BY <1>1, <1>2, <2>1, OthersKeep
<1>3. CASE /\ delivery.attempts < 2
           /\ Context!DeliveryStep([attempts |-> delivery.attempts + 1,
                outcome |-> Null, stage |-> "recorded"])
  <2>1. PICK next : next = [attempts |-> delivery.attempts + 1,
                            outcome |-> Null, stage |-> "recorded"]
    OBVIOUS
  <2>2. delivery.attempts \in 0..2
    BY <1>1 DEF Deliveries
  <2>3. delivery.attempts + 1 \in 0..2
    BY <1>3, <2>2
  <2>4. next \in Deliveries
    BY <2>1, <2>3 DEF Deliveries
  <2> QED BY <1>2, <1>3, <2>1, <2>4
<1>4. ASSUME NEW stage \in {"active", "idle"},
             Context!DeliveryStep([delivery EXCEPT !.stage = stage])
      PROVE  ContextInv'
  <2>1. PICK next : next = [delivery EXCEPT !.stage = stage]
    OBVIOUS
  <2>2. next \in Deliveries
    BY <1>1, <2>1 DEF Deliveries
  <2> QED BY <1>2, <1>4, <2>1, <2>2
<1>5. ASSUME NEW outcome \in {"delivered", "failed", "unknown", Null},
             Context!DeliveryStep([delivery EXCEPT !.stage = "finished",
                                                   !.outcome = outcome])
      PROVE  ContextInv'
  <2>1. PICK next : next = [delivery EXCEPT !.stage = "finished",
                                            !.outcome = outcome]
    OBVIOUS
  <2>2. next \in Deliveries
    BY <1>1, <2>1 DEF Deliveries
  <2> QED BY <1>2, <1>5, <2>1, <2>2
<1> QED BY <1>3, <1>4, <1>5 DEF Context!Delivers

\* Each step of the control context keeps what is known of it.
LEMMA ContextStepKeeps ==
  ASSUME ContextInv, Context!ContextNext
  PROVE  ContextInv'
<1>1. changes \in Nat
  BY DEF ContextInv, ContextTypes
<1>2. CASE Context!Requests
  <2>1. changes' = changes
    BY <1>2 DEF Context!Requests
  <2>2. CASE Context!Inspect
    BY <2>1, <2>2, InspectKeeps
  <2>3. CASE Context!ReadState
    BY <2>1, <2>3, ReadStateKeeps
  <2>4. CASE Context!LookAgain
    BY <2>1, <2>4, LookAgainKeeps
  <2>5. CASE Context!Answers
    BY <2>1, <2>5, AnswersKeeps
  <2>6. ASSUME NEW k \in Context!Kinds, Context!Reader(k)
        PROVE  ContextInv'
    BY <2>1, <2>6, LstatKeeps, OpenKeeps, OpenStatKeeps, OversizedPathKeeps,
       ReadKeeps, FinalStatKeeps, FinalPathKeeps, ReadFailsKeeps
       DEF Context!Reader
  <2> QED BY <1>2, <2>2, <2>3, <2>4, <2>5, <2>6 DEF Context!Requests
<1>3. CASE Context!Meanwhile
  <2>1. context.step # "idle" /\ changes' \in Nat
    BY <1>1, <1>3 DEF Context!Meanwhile
  <2>2. CASE Context!FilesChange
    BY <2>1, <2>2, FilesChangeKeeps
  <2>3. CASE \/ Context!ConfigBreaks
             \/ \E sources \in SourceSets : Context!Configures(sources)
    BY <2>1, <2>3, ConfigurationKeeps
  <2>4. CASE Context!Delivers
    BY <2>1, <2>4, DeliversKeeps
  <2>5. ASSUME NEW d \in Decisions, Context!Decides(d)
        PROVE  ContextInv'
    BY <2>1, <2>5, DecidesKeeps
  <2> QED BY <1>3, <2>2, <2>3, <2>4, <2>5 DEF Context!Meanwhile
<1> QED BY <1>2, <1>3 DEF Context!ContextNext

\* The control context starts with nothing read and nothing answered.
LEMMA ContextStarts ==
  ASSUME Context!ContextInit
  PROVE  ContextInv
<1>1. /\ setting \in [ready : {TRUE}, revision : {1}, sources : SourceSets]
      /\ nodes \in {<< >>} \cup
           {<<[kind |-> "file", bytes |-> text, time |-> 0]>> :
              text \in Context!Texts(1)}
      /\ node = Len(nodes) /\ rest = << >> /\ clock = 0 /\ changes = 0
      /\ decisions \in {{}, Decisions} /\ answer = Null
      /\ context = Context!NoContext
      /\ reading = [k \in Context!Kinds |-> Context!NoReading]
      /\ delivery \in
           {[attempts |-> 0, outcome |-> Null, stage |-> "idle"],
            [attempts |-> 1, outcome |-> Null, stage |-> "active"],
            [attempts |-> 1, outcome |-> "failed", stage |-> "idle"]}
  BY DEF Context!ContextInit
<1>2. << >> \in Texts /\ << >> \in Seq(Nodes)
  BY DEF Texts
<1>3. ASSUME NEW t \in Context!Texts(1)
      PROVE  t \in Texts
  <2>1. {0, MaxBytes, MaxBytes + 1} \subseteq Nat
    BY ContextAssumption
  <2>2. CASE \E size \in {0, MaxBytes, MaxBytes + 1} :
               t = [n \in 1..size |-> 1]
    <3>1. PICK size \in Nat : t = [n \in 1..size |-> 1]
      BY <2>1, <2>2
    <3> QED BY <3>1 DEF Texts
  <2>3. CASE t = <<Context!NotText>>
    <3>1. t = <<0>>
      BY <2>3 DEF Context!NotText
    <3> QED BY <3>1 DEF Texts
  <2> QED BY <2>2, <2>3 DEF Context!Texts
<1>4. /\ nodes \in Seq(Nodes) /\ \A n \in 1..Len(nodes) : nodes[n].time <= 0
  <2>1. CASE nodes = << >>
    BY <1>2, <2>1
  <2>2. ASSUME NEW t \in Context!Texts(1),
               nodes = <<[kind |-> "file", bytes |-> t, time |-> 0]>>
        PROVE  /\ nodes \in Seq(Nodes)
               /\ \A n \in 1..Len(nodes) : nodes[n].time <= 0
    <3>1. PICK e : e = [kind |-> "file", bytes |-> t, time |-> 0]
      OBVIOUS
    <3>2. e \in Nodes /\ e.time = 0
      BY <1>3, <3>1 DEF Nodes, Kinds
    <3>3. nodes = <<e>>
      BY <2>2, <3>1
    <3> QED BY <3>2, <3>3
  <2> QED BY <1>1, <2>1, <2>2
<1>5. node \in 0..Len(nodes)
  BY <1>1, <1>4
<1>6. setting \in [ready : BOOLEAN, revision : Nat, sources : SourceSets]
  <2>1. setting \in [ready : {TRUE}, revision : {1}, sources : SourceSets]
    BY <1>1
  <2>2. /\ setting = [ready |-> setting.ready, revision |-> setting.revision,
                      sources |-> setting.sources]
        /\ setting.revision = 1 /\ setting.sources \in SourceSets
    BY <2>1
  <2>3. setting.ready \in BOOLEAN
    BY <2>1, Zenon
  <2> QED BY <2>2, <2>3
<1>7. delivery \in Deliveries
  BY <1>1 DEF Deliveries
<1>8. reading \in [Context!Kinds -> Readers]
  BY <1>1, NoReadingIsSound
<1>9. /\ context.step = "idle" /\ context.state = Null
      /\ DOMAIN context = {"step", "revision", "state", "after"}
  BY <1>1 DEF Context!NoContext
<1>10. ContextTypes
  BY <1>1, <1>2, <1>4, <1>5, <1>6, <1>7, <1>8, <1>9 DEF ContextTypes
<1>11. ReadersAreSound
  BY <1>1, NoReadingIsSound DEF ReadersAreSound
<1>12. RequestIsSound
  BY <1>1, <1>9 DEF RequestIsSound
<1>13. AnswerIsSound
  BY <1>1, NoAnswerIsSound
<1> QED BY <1>10, <1>11, <1>12, <1>13 DEF ContextInv

\* The inductive invariant of the control context.
LEMMA ContextInvariance == WorkspaceSpec => []ContextInv
<1>1. WorkspaceInit => ContextInv
  BY ContextStarts DEF WorkspaceInit
<1>2. ASSUME ContextInv, [WorkspaceNext]_workspaceVars
      PROVE  ContextInv'
  <2>1. CASE Context!ContextNext
    BY <1>2, <2>1, ContextStepKeeps
  <2>2. CASE UNCHANGED contextVars
    <3>1. /\ setting' = setting /\ node' = node /\ nodes' = nodes
          /\ rest' = rest /\ clock' = clock /\ changes' = changes
          /\ decisions' = decisions /\ delivery' = delivery
          /\ context' = context /\ reading' = reading /\ answer' = answer
          /\ seen' = seen
      BY <2>2 DEF contextVars
    <3>2. ContextTypes'
      BY <1>2, <3>1 DEF ContextInv, ContextTypes
    <3>3. ReadersAreSound'
      BY <1>2, <3>1 DEF ContextInv, ReadersAreSound
    <3>4. RequestIsSound'
      BY <1>2, <3>1 DEF ContextInv, RequestIsSound, Context!Bytes
    <3>5. AnswerIsSound'
      BY <1>2, <3>1 DEF ContextInv, AnswerIsSound, Context!ContextsAreValid,
                        Context!ContextIsWhole
    <3> QED BY <3>2, <3>3, <3>4, <3>5 DEF ContextInv
  <2> QED BY <1>2, <2>1, <2>2
          DEF WorkspaceNext, QueueMoves, GitMoves, ContextMoves,
              DefinitionMoves, workspaceVars
<1> QED BY <1>1, <1>2, PTL DEF WorkspaceSpec

\* What an answer about the control context shows existed as a whole: each
\* text is one that the file had, in whole, while the request ran, and the
\* configuration stayed the one the answer names
\* (readPaciumContextSource and PaciumContextService.inspect).
THEOREM ContextShownIsWhole == WorkspaceSpec => []ContextIsWhole
<1>1. ContextInv => ContextIsWhole
  BY DEF ContextInv, AnswerIsSound, ContextIsWhole
<1> QED BY <1>1, ContextInvariance, PTL

\* An answer about the control context satisfies the schema that the server
\* makes it with (PaciumContextObservationSchema).
THEOREM ContextAnswersAreValid == WorkspaceSpec => []Context!ContextsAreValid
<1>1. ContextInv => Context!ContextsAreValid
  BY DEF ContextInv, AnswerIsSound
<1> QED BY <1>1, ContextInvariance, PTL

-----------------------------------------------------------------------------
(* The inspection of repositories.                                         *)

\* What an answer is evidence of, where HEAD was at hs since the request
\* began and at rs since the run did.
EvidenceOf(o, hs, rs) ==
  o.status = "ready" =>
    /\ o.of # "verification" => o.headCommit \in hs
    /\ o.of = "verification" /\ o.run # Null =>
         /\ {o.run.headCommitAtStart, o.run.headCommitAtEnd}
              \subseteq rs \cup {Null}
         /\ o.run.headComparison = "changed" => Git!Cardinality(rs) > 1
    /\ o.of = "diff" =>
         \A s \in Git!Range(o.sections) :
           s.source = "combined" => s.base = o.headCommit

\* The fields of an answer.
HasForm(o) ==
  /\ o.of = "repository" =>
       o.status \in {"ready", "not_repository", "error"}
  /\ o.of = "diff" =>
       DOMAIN o = {"of", "status", "root", "headCommit", "path",
                   "previousPath", "sections", "error"}
  /\ o.of = "history" =>
       DOMAIN o = {"of", "status", "root", "headCommit", "commits",
                   "truncated", "error"}
  /\ o.of = "verification" =>
       DOMAIN o = {"of", "status", "configured", "root", "presets", "run",
                   "error"}

\* An answer that fits the schemas, and is evidence of commits in hs and rs.
Fits(o, hs, rs) == Git!Coherent(o) /\ EvidenceOf(o, hs, rs) /\ HasForm(o)

\* The path a diff was asked for is one the protocol admits.
PathFits(o) == o.of = "diff" => Git!ValidPath(o.path)

\* A repository that was observed.
IsObserved(r) ==
  /\ r.of = "repository" /\ Git!ValidRepository(r)
  /\ r.status \in {"ready", "not_repository", "error"}

\* The sections of a diff.
Sections == {"combined", "staged", "unstaged", "untracked"}

\* What a command printed, when it printed anything.
IsPrinted(k, x, selected, hs) ==
  /\ k = "head" /\ x.sound => x.out \in hs
  /\ k = "status" /\ x.exit = 0 /\ x.sound => x.out \in Git!Statuses
  /\ k = "log" /\ x.exit = 0 /\ x.sound =>
       \E c \in Nat \ {0} :
         /\ c \in hs
         /\ x.out = [n \in 1..Git!Min({c, MaxHistory + 1}) |-> c + 1 - n]
  /\ k \in Sections /\ x.exit = 0 =>
       \E patch \in Git!Patches, base \in {Null, selected.headCommit} :
         /\ x.out = Git!Section(k, patch, base)
         /\ k = "combined" => base = selected.headCommit

\* A file that a diff is asked of, and the commit its changes name.
IsSelected(selected, hs) ==
  selected.headCommit \in hs /\ Git!ValidFile(selected.file)

\* The commands of the request printed what Git prints of the commits there
\* were, and the file a diff selected is valid and the one asked for.
RequestOK ==
  /\ inspection.op \in {"idle", "refresh", "changes", "diff", "history"}
  /\ inspection.op = "idle" => inspection = Git!Idle
  /\ inspection.op # "idle" =>
       /\ DOMAIN inspection = {"op", "path", "known", "selected", "got"}
       /\ \A k \in DOMAIN inspection.got :
            IsPrinted(k, inspection.got[k], inspection.selected, heads)
       /\ inspection.selected # Null =>
            /\ IsSelected(inspection.selected, heads)
            /\ inspection.selected.file.path = inspection.path
       /\ Git!ValidPath(inspection.path)
  /\ inspection.op = "history" =>
       IsObserved(inspection.known) /\ inspection.known.status = "ready"

\* A run of one of the presets ps, and its evidence.
IsRun(r, ps, rs) ==
  /\ Git!ValidRun(r)
  /\ DOMAIN r = {"preset", "status", "headCommitAtStart", "duration",
                 "headCommitAtEnd", "headComparison", "exitCode",
                 "signal", "forced", "error"}
  /\ r.status \in {"running", "cancelling", "passed", "failed",
                   "error", "cancelled", "timed_out"}
  /\ r.preset \in ps
  /\ {r.headCommitAtStart, r.headCommitAtEnd} \subseteq rs \cup {Null}
  /\ r.headComparison = "changed" => Git!Cardinality(rs) > 1

\* The run is one of a preset, and a HEAD that moves while it is active is
\* among those it may observe.
RunOK ==
  /\ IsFiniteSet(ran)
  /\ run # Null =>
       /\ IsRun(run, presets, ran)
       /\ run.status \in {"running", "cancelling"} => Git!HeadOf(commit) \in ran

\* The inductive invariant of the inspection of repositories.
GitInv ==
  /\ commit \in Nat /\ Git!HeadOf(commit) \in heads
  /\ \/ repository = Null /\ inspection.op = "refresh" /\ run = Null
     \/ IsObserved(repository)
  /\ RequestOK /\ RunOK
  /\ answered # Null => Fits(answered, heads, ran) /\ PathFits(answered)

\* An observed repository is an answer, and evidence of its commit.
LEMMA ObservedFits ==
  ASSUME NEW o, NEW hs, NEW rs, IsObserved(o),
         o.status = "ready" => o.headCommit \in hs
  PROVE  Fits(o, hs, rs)
BY DEF IsObserved, Fits, Git!Coherent, EvidenceOf, HasForm

\* An error is an observation of a repository.
LEMMA RepositoryErrorIsObserved ==
  ASSUME NEW root \in {Null, "root"}, NEW worktree, NEW code, code # Null,
         NEW o, o = Git!RepositoryError(root, worktree, code)
  PROVE  IsObserved(o) /\ o.status # "ready"
BY DEF Git!RepositoryError, Git!Observed, IsObserved, Git!ValidRepository

\* So is a repository on a branch, detached or unborn.
LEMMA ReadyIsObserved ==
  ASSUME NEW branch, NEW head, NEW state,
         \/ branch # Null /\ head # Null /\ state = "branch"
         \/ branch = Null /\ head # Null /\ state = "detached"
         \/ branch # Null /\ head = Null /\ state = "unborn",
         NEW o, o = Git!Ready(branch, head, state)
  PROVE  IsObserved(o) /\ o.headCommit = head
<1>1. o = [of |-> "repository", status |-> "ready", root |-> "root",
           name |-> "root", branch |-> branch, headCommit |-> head,
           headState |-> state, worktreeKind |-> "main", error |-> Null]
  BY DEF Git!Ready, Git!Observed
<1>2. /\ o.of = "repository" /\ o.status = "ready" /\ o.root = "root"
      /\ o.name = "root" /\ o.branch = branch /\ o.headCommit = head
      /\ o.headState = state /\ o.worktreeKind = "main" /\ o.error = Null
  BY <1>1
<1>3. "root" # Null
  BY InspectionAssumption
<1>4. Git!ValidRepository(o)
  BY <1>2, <1>3 DEF Git!ValidRepository
<1> QED BY <1>2, <1>4 DEF IsObserved

\* What is read of a repository is an answer.
LEMMA RepositoryReadFits ==
  ASSUME NEW got, NEW hs, NEW rs,
         "head" \in DOMAIN got /\ got["head"].sound => got["head"].out \in hs,
         NEW o \in Git!RepositoryRead(got)
  PROVE  IsObserved(o) /\ Fits(o, hs, rs)
<1>1. "root" # Null /\ "inspection_failed" # Null /\ "invalid_output" # Null
  BY InspectionAssumption
<1>2. CASE o = Git!NotRepository
  <2>1. IsObserved(o) /\ o.status # "ready"
    BY <1>2 DEF Git!NotRepository, Git!Observed, IsObserved,
                Git!ValidRepository
  <2> QED BY <2>1, ObservedFits
<1>3. CASE \E root \in {Null, "root"}, worktree \in {"unknown", "main"},
              code \in {"inspection_failed", "invalid_output"} :
             o = Git!RepositoryError(root, worktree, code)
  <2>1. PICK root \in {Null, "root"}, worktree \in {"unknown", "main"},
             code \in {"inspection_failed", "invalid_output"} :
             o = Git!RepositoryError(root, worktree, code)
    BY <1>3
  <2>2. IsObserved(o) /\ o.status # "ready"
    BY <1>1, <2>1, RepositoryErrorIsObserved
  <2> QED BY <2>2, ObservedFits
<1>4. ASSUME NEW branch, NEW head \in hs, NEW state,
             \/ branch # Null /\ head # Null /\ state = "branch"
             \/ branch = Null /\ head # Null /\ state = "detached"
             \/ branch # Null /\ head = Null /\ state = "unborn",
             o = Git!Ready(branch, head, state)
      PROVE  IsObserved(o) /\ Fits(o, hs, rs)
  <2>1. IsObserved(o) /\ o.headCommit = head
    BY <1>4, ReadyIsObserved
  <2> QED BY <2>1, ObservedFits
<1>5. \/ o = Git!NotRepository
      \/ o = Git!RepositoryError(Null, "unknown", "inspection_failed")
      \/ o = Git!RepositoryError(Null, "unknown", "invalid_output")
      \/ /\ {"branch", "head"} \subseteq DOMAIN got
         /\ LET branch == got["branch"].out
                head == got["head"].out
            IN o = IF ~got["branch"].sound \/ ~got["head"].sound THEN
                     Git!RepositoryError("root", "main", "invalid_output")
                   ELSE IF branch # Null /\ head # Null THEN
                     Git!Ready(branch, head, "branch")
                   ELSE IF head # Null /\ got["branch"].exit = 1 THEN
                     Git!Ready(Null, head, "detached")
                   ELSE IF branch # Null THEN Git!Ready(branch, Null, "unborn")
                   ELSE Git!RepositoryError("root", "main",
                                            "inspection_failed")
  BY DEF Git!RepositoryRead
<1>6. CASE /\ "head" \in DOMAIN got
           /\ got["head"].sound
           /\ got["branch"].out # Null \/ got["head"].out # Null
           /\ \/ /\ got["branch"].out # Null /\ got["head"].out # Null
                 /\ o = Git!Ready(got["branch"].out, got["head"].out, "branch")
              \/ /\ got["branch"].out = Null /\ got["head"].out # Null
                 /\ o = Git!Ready(Null, got["head"].out, "detached")
              \/ /\ got["branch"].out # Null /\ got["head"].out = Null
                 /\ o = Git!Ready(got["branch"].out, Null, "unborn")
  <2>1. got["head"].out \in hs
    BY <1>6
  <2>2. PICK branch, head : branch = got["branch"].out /\ head = got["head"].out
    OBVIOUS
  <2> QED BY <1>4, <1>6, <2>1, <2>2
<1> QED BY <1>2, <1>3, <1>5, <1>6

\* The number of elements is the same in every module.
LEMMA SameGitCardinality ==
  \A S : Git!Cardinality(S) = Cardinality(S)
BY DEF Git!Cardinality, Cardinality

\* The records of a status are of different paths.
LEMMA StatusNamesPathsOnce ==
  ASSUME NEW f \in Git!Statuses
  PROVE  DOMAIN f \subseteq Paths /\ \A p \in DOMAIN f : f[p] \in Git!Records(p)
BY DEF Git!Statuses

\* kindFromStatus knows four kinds.
LEMMA KindIsKnown ==
  ASSUME NEW xy
  PROVE  Git!KindFromStatus(xy)
           \in {"deleted", "type_changed", "added", "modified"}
BY DEF Git!KindFromStatus

\* Being a member is true or false.
LEMMA MembershipIsBoolean ==
  ASSUME NEW x, NEW S
  PROVE  \E b \in BOOLEAN : b = (x \in S)
<1>1. (x \in S) \in BOOLEAN
  OBVIOUS
<1> QED BY <1>1, Zenon

\* What a record says of its file.
IsRecord(s, p) ==
  /\ s.path = p
  /\ s.staged \in BOOLEAN /\ s.unstaged \in BOOLEAN
  /\ s.untracked \in BOOLEAN /\ s.conflicted \in BOOLEAN
  /\ s.staged \/ s.unstaged \/ s.untracked \/ s.conflicted
  /\ s.untracked => /\ s.kind = "untracked"
                    /\ ~s.staged /\ ~s.unstaged /\ ~s.conflicted
  /\ s.conflicted => s.kind = "conflicted"
  /\ s.previousPath # Null <=> s.kind \in {"renamed", "copied"}

\* What a record that is neither empty nor untracked says.
LEMMA StatusIsRecord ==
  ASSUME NEW p, NEW previous, NEW kind, NEW xy, NEW conflicted \in BOOLEAN,
         kind # "untracked" =>
           xy[1] # "." \/ xy[2] # "." \/ conflicted,
         kind = "untracked" => ~conflicted,
         conflicted => kind = "conflicted",
         (previous # Null) = (kind \in {"renamed", "copied"}),
         NEW s, s = Git!Status(p, previous, kind, xy, conflicted)
  PROVE  IsRecord(s, p)
<1>1. /\ s.path = p /\ s.previousPath = previous /\ s.kind = kind
      /\ s.staged = (kind # "untracked" /\ xy[1] # ".")
      /\ s.unstaged = (kind # "untracked" /\ xy[2] # ".")
      /\ s.untracked = (kind = "untracked") /\ s.conflicted = conflicted
  BY DEF Git!Status
<1> QED BY <1>1 DEF IsRecord

\* The records of porcelain output say what a file's status may be.
LEMMA RecordsAreRecords ==
  ASSUME NEW p \in Paths, NEW s \in Git!Records(p)
  PROVE  IsRecord(s, p)
<1>1. CASE \E xy \in Codes :
             s = Git!Tracked(p, Null, xy, Git!KindFromStatus(xy))
  <2>1. PICK xy \in Codes :
               s = Git!Tracked(p, Null, xy, Git!KindFromStatus(xy))
    BY <1>1
  <2>2. xy[1] # "." \/ xy[2] # "."
    BY InspectionAssumption
  <2>3. PICK kind : kind = Git!KindFromStatus(xy)
    OBVIOUS
  <2>4. kind \in {"deleted", "type_changed", "added", "modified"}
    BY <2>3, KindIsKnown
  <2>5. PICK conflicted \in BOOLEAN : conflicted = (xy \in Git!ConflictCodes)
    BY MembershipIsBoolean
  <2>6. PICK shown : shown = IF conflicted THEN "conflicted" ELSE kind
    OBVIOUS
  <2>7. s = Git!Status(p, Null, shown, xy, conflicted)
    BY <2>1, <2>3, <2>5, <2>6 DEF Git!Tracked
  <2>8. /\ shown # "untracked" /\ shown \notin {"renamed", "copied"}
        /\ conflicted => shown = "conflicted"
    BY <2>4, <2>6
  <2> QED BY <2>2, <2>7, <2>8, StatusIsRecord
<1>2. CASE \E q \in Paths \ {p} :
             s = Git!Tracked(p, q, <<"R", ".">>, "renamed")
  <2>1. PICK q \in Paths \ {p} :
               s = Git!Tracked(p, q, <<"R", ".">>, "renamed")
    BY <1>2
  <2>2. q # Null
    BY InspectionAssumption
  <2>3. PICK xy : xy = <<"R", ".">>
    OBVIOUS
  <2>4. xy[1] = "R"
    BY <2>3
  <2>5. xy \notin Git!ConflictCodes
    BY <2>4 DEF Git!ConflictCodes
  <2>6. PICK conflicted \in BOOLEAN : conflicted = (xy \in Git!ConflictCodes)
    BY MembershipIsBoolean
  <2>7. ~conflicted
    BY <2>5, <2>6
  <2>8. PICK kind : kind = IF conflicted THEN "conflicted" ELSE "renamed"
    OBVIOUS
  <2>9. s = Git!Status(p, q, kind, xy, conflicted)
    BY <2>1, <2>3, <2>6, <2>8 DEF Git!Tracked
  <2>10. xy[1] # "." /\ kind = "renamed"
    BY <2>4, <2>7, <2>8
  <2> QED BY <2>2, <2>7, <2>9, <2>10, StatusIsRecord
<1>3. CASE s = Git!Status(p, Null, "conflicted", <<"U", "U">>, TRUE)
  <2>1. /\ s.path = p /\ s.previousPath = Null /\ s.kind = "conflicted"
        /\ s.staged = TRUE /\ s.unstaged = TRUE
        /\ s.untracked = FALSE /\ s.conflicted = TRUE
    BY <1>3 DEF Git!Status
  <2> QED BY <2>1 DEF IsRecord
<1>4. CASE s = Git!Status(p, Null, "untracked", <<"?", "?">>, FALSE)
  <2>1. /\ s.path = p /\ s.previousPath = Null /\ s.kind = "untracked"
        /\ s.staged = FALSE /\ s.unstaged = FALSE
        /\ s.untracked = TRUE /\ s.conflicted = FALSE
    BY <1>4 DEF Git!Status
  <2> QED BY <2>1 DEF IsRecord
<1>5. \/ \E xy \in Codes :
           s = Git!Tracked(p, Null, xy, Git!KindFromStatus(xy))
      \/ \E q \in Paths \ {p} : s = Git!Tracked(p, q, <<"R", ".">>, "renamed")
      \/ s = Git!Status(p, Null, "conflicted", <<"U", "U">>, TRUE)
      \/ s = Git!Status(p, Null, "untracked", <<"?", "?">>, FALSE)
  BY DEF Git!Records
<1> QED BY <1>1, <1>2, <1>3, <1>4, <1>5

\* A file of the changes says the same, whatever was counted.
LEMMA ChangedIsValid ==
  ASSUME NEW p \in Paths, NEW s \in Git!Records(p), NEW counts, NEW large,
         NEW chosen, chosen = Git!Changed(s, counts, large)
  PROVE  /\ Git!ValidFile(chosen) /\ chosen.path = p
         /\ Git!ChangeRank(chosen) \in 0..4
<1>1. IsRecord(s, p)
  BY RecordsAreRecords
<1>2. PICK lines, binary :
        /\ chosen = [path |-> s.path, previousPath |-> s.previousPath,
                   kind |-> s.kind, staged |-> s.staged,
                   unstaged |-> s.unstaged, untracked |-> s.untracked,
                   conflicted |-> s.conflicted,
                   additions |-> lines, deletions |-> lines,
                   binary |-> binary, large |-> s.path \in large]
        /\ binary => lines = Null
  BY DEF Git!Changed
<1>3. /\ chosen.path = s.path /\ chosen.previousPath = s.previousPath
      /\ chosen.kind = s.kind /\ chosen.staged = s.staged
      /\ chosen.unstaged = s.unstaged /\ chosen.untracked = s.untracked
      /\ chosen.conflicted = s.conflicted /\ chosen.additions = lines
      /\ chosen.deletions = lines /\ chosen.binary = binary
  BY <1>2
<1>4. Git!ValidFile(chosen)
  BY <1>1, <1>2, <1>3 DEF IsRecord, Git!ValidFile
<1>5. Git!ChangeRank(chosen) \in 0..4
  BY DEF Git!ChangeRank
<1> QED BY <1>1, <1>3, <1>4, <1>5 DEF IsRecord

\* Files of different paths have an order, and the first of it are few.
LEMMA FewFilesAreKept ==
  ASSUME NEW all, IsFiniteSet(all),
         \A f \in all : f.path \in Paths /\ Git!ChangeRank(f) \in 0..4,
         \A f, g \in all : f.path = g.path => f = g
  PROVE  Git!Cardinality(Git!Kept(all)) <= MaxFiles
<1> DEFINE before == {p \in all \X all : Git!Before(p[1], p[2])}
           kept == First(before, all, MaxFiles)
<1>1. \A f \in all : f.path \in Nat /\ Git!ChangeRank(f) \in Nat
  <2>1. Paths \subseteq Nat
    BY InspectionAssumption
  <2>2. ASSUME NEW f \in all
        PROVE  f.path \in Nat /\ Git!ChangeRank(f) \in Nat
    <3>1. f.path \in Paths /\ Git!ChangeRank(f) \in 0..4
      OBVIOUS
    <3>2. f.path \in Nat
      BY <2>1, <3>1
    <3>3. PICK rank : rank = Git!ChangeRank(f)
      OBVIOUS
    <3>4. rank \in Nat
      BY <3>1, <3>3
    <3> QED BY <3>2, <3>3, <3>4
  <2> QED BY <2>2
<1>2. \A f, g \in all : <<f, g>> \in before <=> Git!Before(f, g)
  OBVIOUS
<1>3. Orders(before, all)
  <2>1. \A f \in all : ~Git!Before(f, f)
    BY <1>1 DEF Git!Before
  <2>2. \A f, g, h \in all :
          Git!Before(f, g) /\ Git!Before(g, h) => Git!Before(f, h)
    BY <1>1 DEF Git!Before
  <2>3. \A f, g \in all : f = g \/ Git!Before(f, g) \/ Git!Before(g, f)
    BY <1>1 DEF Git!Before
  <2> HIDE DEF before
  <2> QED BY <1>2, <2>1, <2>2, <2>3 DEF Orders
<1>4. Git!Kept(all) = kept
  <2>1. ASSUME NEW f \in all
        PROVE  {g \in all : Git!Before(g, f)} = Ahead(before, all, f)
    BY <1>2 DEF Ahead
  <2>2. \A f \in all : Git!Cardinality({g \in all : Git!Before(g, f)})
                         = Cardinality(Ahead(before, all, f))
    BY <2>1, SameGitCardinality
  <2> HIDE DEF before
  <2> QED BY <2>2 DEF Git!Kept, First
<1> HIDE DEF before
<1>5. Cardinality(kept) <= MaxFiles
  BY <1>3, FirstAreFew, InspectionAssumption
<1> QED BY <1>4, <1>5, SameGitCardinality

\* The changes that are told.
IsChanges(c, hs) ==
  /\ c.of = "changes" /\ c.root = "root" /\ Git!ValidChanges(c)
  /\ c.status \in {"ready", "error"}
  /\ c.status = "ready" => c.headCommit \in hs

\* Changes that were read are an answer, and evidence of their commit.
LEMMA ChangesFit ==
  ASSUME NEW c, NEW hs, NEW rs, IsChanges(c, hs)
  PROVE  Fits(c, hs, rs)
BY DEF IsChanges, Fits, Git!Coherent, EvidenceOf, HasForm

\* The changes of no repository, and an error, are valid.
LEMMA NoChangesAreValid ==
  ASSUME NEW status \in {"error", "not_repository"}, NEW root, NEW error,
         (status = "error") <=> (error # Null),
         status = "not_repository" => root = Null,
         NEW c, c = Git!UnavailableChanges(status, root, error)
  PROVE  /\ c.of = "changes" /\ c.status = status /\ c.root = root
         /\ c.error = error /\ Git!ValidChanges(c)
<1>1. PICK totals : totals = Git!TotalsOf({})
  OBVIOUS
<1>2. c = [of |-> "changes", status |-> status, root |-> root,
           headCommit |-> Null, files |-> {}, totals |-> totals,
           truncated |-> FALSE, error |-> error]
  BY <1>1 DEF Git!UnavailableChanges, Git!Changes
<1>3. /\ c.of = "changes" /\ c.status = status /\ c.root = root
      /\ c.headCommit = Null /\ c.files = {} /\ c.totals = totals
      /\ c.truncated = FALSE /\ c.error = error
  BY <1>2
<1>4. Git!Cardinality(c.files) <= MaxFiles
  BY <1>3, SameGitCardinality, FS_EmptySet, InspectionAssumption
<1>5. c.totals = Git!TotalsOf(c.files)
  BY <1>1, <1>3
<1>6. \A f \in c.files : Git!ValidFile(f)
  BY <1>3
<1> QED BY <1>3, <1>4, <1>5, <1>6 DEF Git!ValidChanges

\* The changes put together from a status and its line counts.
LEMMA AggregatedIsChanges ==
  ASSUME NEW hs, NEW head \in hs, NEW f \in Git!Statuses, NEW counts, NEW large,
         NEW all,
         all = {Git!Changed(s, counts, large) : s \in Git!Range(f)},
         NEW c, c = Git!Aggregated(head, all)
  PROVE  IsChanges(c, hs)
<1>1. DOMAIN f \subseteq Paths /\ \A p \in DOMAIN f : f[p] \in Git!Records(p)
  BY StatusNamesPathsOnce
<1>2. PICK g : g = [p \in DOMAIN f |-> Git!Changed(f[p], counts, large)]
  OBVIOUS
<1>3. \A p \in DOMAIN f :
        /\ Git!ValidFile(g[p]) /\ g[p].path = p
        /\ Git!ChangeRank(g[p]) \in 0..4
  <2> SUFFICES ASSUME NEW p \in DOMAIN f
               PROVE  /\ Git!ValidFile(g[p]) /\ g[p].path = p
                      /\ Git!ChangeRank(g[p]) \in 0..4
    OBVIOUS
  <2>1. p \in Paths /\ f[p] \in Git!Records(p)
    BY <1>1
  <2>2. g[p] = Git!Changed(f[p], counts, large)
    BY <1>2
  <2> QED BY <2>1, <2>2, ChangedIsValid
<1>4. all = {g[p] : p \in DOMAIN f} /\ DOMAIN g = DOMAIN f
  BY <1>2 DEF Git!Range
<1>5. IsFiniteSet(all)
  <2>1. g \in Surjection(DOMAIN f, all)
    BY <1>2, <1>4 DEF Surjection
  <2>2. IsFiniteSet(DOMAIN f)
    BY <1>1, InspectionAssumption, FS_Subset
  <2> QED BY <2>1, <2>2, FS_Surjection
<1>6. /\ \A x \in all : x.path \in Paths /\ Git!ChangeRank(x) \in 0..4
      /\ \A x, y \in all : x.path = y.path => x = y
      /\ \A x \in all : Git!ValidFile(x)
  <2>1. \A x \in all : \E p \in DOMAIN f : x = g[p] /\ p \in Paths
    BY <1>1, <1>4
  <2>2. \A x \in all : x.path \in DOMAIN f /\ x = g[x.path]
    BY <1>3, <2>1
  <2> QED BY <1>1, <1>3, <2>2
<1>7. Git!Cardinality(Git!Kept(all)) <= MaxFiles
  BY <1>5, <1>6, FewFilesAreKept
<1>8. PICK kept, truncated, totals :
        /\ kept = Git!Kept(all) /\ totals = Git!TotalsOf(kept)
        /\ c = [of |-> "changes", status |-> "ready", root |-> "root",
                headCommit |-> head, files |-> kept, totals |-> totals,
                truncated |-> truncated, error |-> Null]
  BY DEF Git!Aggregated, Git!Changes
<1>9. /\ c.of = "changes" /\ c.status = "ready" /\ c.root = "root"
      /\ c.headCommit = head /\ c.files = kept
      /\ c.totals = Git!TotalsOf(c.files) /\ c.error = Null
  BY <1>8
<1>10. \A x \in c.files : Git!ValidFile(x)
  BY <1>6, <1>8, <1>9 DEF Git!Kept
<1>11. Git!Cardinality(c.files) <= MaxFiles
  BY <1>7, <1>8, <1>9
<1>12. "root" # Null
  BY InspectionAssumption
<1>13. Git!ValidChanges(c)
  BY <1>9, <1>10, <1>11, <1>12 DEF Git!ValidChanges
<1> QED BY <1>9, <1>13 DEF IsChanges

\* A status that was printed.
StatusIsRead(got) ==
  ("status" \in DOMAIN got /\ got["status"].exit = 0 /\ got["status"].sound)
    => got["status"].out \in Git!Statuses

\* What is read of the changes is an answer.
LEMMA ChangesReadAreChanges ==
  ASSUME NEW got, NEW hs,
         "head" \in DOMAIN got /\ got["head"].sound => got["head"].out \in hs,
         StatusIsRead(got),
         NEW c \in Git!ChangesRead(got)
  PROVE  IsChanges(c, hs)
<1>1. "inspection_failed" # Null /\ "invalid_output" # Null
  BY InspectionAssumption
<1>2. CASE \E error \in {"inspection_failed", "invalid_output"} :
             c = Git!UnavailableChanges("error", "root", error)
  <2>1. PICK error \in {"inspection_failed", "invalid_output"} :
               c = Git!UnavailableChanges("error", "root", error)
    BY <1>2
  <2>2. PICK status \in {"error", "not_repository"} : status = "error"
    OBVIOUS
  <2>3. PICK root : root = "root"
    OBVIOUS
  <2>4. c = Git!UnavailableChanges(status, root, error) /\ error # Null
    BY <1>1, <2>1, <2>2, <2>3
  <2>5. /\ c.of = "changes" /\ c.status = status /\ c.root = root
        /\ c.error = error /\ Git!ValidChanges(c)
    BY <2>2, <2>4, NoChangesAreValid
  <2> QED BY <2>2, <2>3, <2>5 DEF IsChanges
<1>3. ASSUME NEW counts,
             {"status", "head"} \subseteq DOMAIN got,
             got["status"].exit = 0,
             got["head"].sound /\ got["status"].sound,
             c = Git!Aggregated(got["head"].out,
                   {Git!Changed(status, counts, got["sizes"].out) :
                      status \in Git!Range(got["status"].out)})
      PROVE  IsChanges(c, hs)
  <2>1. PICK head, f, large : /\ head = got["head"].out
                              /\ f = got["status"].out
                              /\ large = got["sizes"].out
    OBVIOUS
  <2>2. head \in hs /\ f \in Git!Statuses
    BY <1>3, <2>1 DEF StatusIsRead
  <2>3. PICK all : all = {Git!Changed(s, counts, large) : s \in Git!Range(f)}
    OBVIOUS
  <2>4. c = Git!Aggregated(head, all)
    BY <1>3, <2>1, <2>3
  <2> QED BY <2>2, <2>3, <2>4, AggregatedIsChanges
<1>4. \/ \E error \in {"inspection_failed", "invalid_output"} :
           c = Git!UnavailableChanges("error", "root", error)
      \/ /\ {"status", "head"} \subseteq DOMAIN got
         /\ got["status"].exit = 0
         /\ got["head"].sound /\ got["status"].sound
         /\ \E counts :
              c = Git!Aggregated(got["head"].out,
                    {Git!Changed(status, counts, got["sizes"].out) :
                       status \in Git!Range(got["status"].out)})
  BY DEF Git!ChangesRead
<1> QED BY <1>2, <1>3, <1>4

\* A diff without sections.
LEMMA EmptyDiffFits ==
  ASSUME NEW status, NEW root, NEW head, NEW path, NEW previous, NEW error,
         status # "ready", (status = "error") <=> (error # Null),
         root = Null => /\ head = Null /\ previous = Null
                        /\ status \in {"not_repository", "error"},
         status = "not_repository" => root = Null,
         NEW hs, NEW rs,
         NEW o, o = Git!Diff(status, root, head, path, previous, <<>>, error)
  PROVE  Fits(o, hs, rs)
<1>1. PICK none : none = << >>
  OBVIOUS
<1>2. o = [of |-> "diff", status |-> status, root |-> root,
           headCommit |-> head, path |-> path, previousPath |-> previous,
           sections |-> none, error |-> error]
  BY <1>1 DEF Git!Diff
<1>3. /\ o.of = "diff" /\ o.status = status /\ o.root = root
      /\ o.headCommit = head /\ o.previousPath = previous
      /\ o.sections = none /\ o.error = error
  BY <1>2
<1>4. /\ Git!Range(none) = {} /\ Len(none) = 0
      /\ Git!SizeOf(none) = 0 /\ Git!Cardinality({}) = 0
  BY <1>1, FS_EmptySet, SameGitCardinality DEF Git!Range, Git!SizeOf
<1>5. Git!ValidDiff(o)
  <2>1. /\ Git!Range(o.sections) = {} /\ Len(o.sections) = 0
        /\ Git!SizeOf(o.sections) <= MaxPatch
    BY <1>3, <1>4, InspectionAssumption
  <2>2. /\ o.root = Null => {o.headCommit, o.previousPath} = {Null}
        /\ o.root = Null => o.status \in {"not_repository", "error"}
        /\ (o.status = "error") = (o.error # Null)
        /\ o.status = "not_repository" => o.root = Null
    BY <1>3
  <2>3. (o.status = "ready") = (o.sections # << >>)
    BY <1>1, <1>3
  <2>4. PICK sources : /\ sources = {s.source : s \in Git!Range(o.sections)}
                       /\ sources = {}
    BY <2>1
  <2>5. Git!Cardinality(sources) = Len(o.sections)
    BY <1>4, <2>1, <2>4
  <2> QED BY <2>1, <2>2, <2>3, <2>4, <2>5 DEF Git!ValidDiff
<1>6. EvidenceOf(o, hs, rs)
  BY <1>3 DEF EvidenceOf
<1>7. DOMAIN o = {"of", "status", "root", "headCommit", "path",
                  "previousPath", "sections", "error"}
  BY <1>2
<1> QED BY <1>3, <1>5, <1>6, <1>7 DEF Fits, HasForm, Git!Coherent

\* An answer about a file without sections is valid.
LEMMA EmptyFileFits ==
  ASSUME NEW selected, NEW status, NEW error,
         status \notin {"ready", "not_repository"},
         (status = "error") <=> (error # Null),
         NEW hs, NEW rs,
         NEW o, o = Git!OfFile(status, selected, <<>>, error)
  PROVE  Fits(o, hs, rs)
<1>1. PICK root, head, path, previous :
        /\ root = "root"
        /\ o = Git!Diff(status, root, head, path, previous, <<>>, error)
  BY DEF Git!OfFile
<1>2. root # Null
  BY <1>1, InspectionAssumption
<1> QED BY <1>1, <1>2, EmptyDiffFits

\* A section of the diff of a file, and one that has a patch.
IsSection(selected, k, s) ==
  \E patch \in Git!Patches, base \in {Null, selected.headCommit} :
    /\ s = Git!Section(k, patch, base)
    /\ k = "combined" => base = selected.headCommit

\* A section that may be shown.
IsShown(selected, s) ==
  /\ s.source \in Sections /\ s.patch.size > 0
  /\ s.source = "combined" =>
       selected.headCommit # Null /\ s.base = selected.headCommit
  /\ s.source \in {"staged", "unstaged"} => selected.headCommit = Null

\* The sections of a diff: the two of a file that is staged in part are the
\* only ones of their diff.
AreShown(selected, sections) ==
  \/ sections = << >>
  \/ \E s : sections = <<s>> /\ IsShown(selected, s)
  \/ \E s, t : /\ sections = <<s, t>>
               /\ IsShown(selected, s) /\ IsShown(selected, t)
               /\ s.source = "staged" /\ t.source = "unstaged"

\* The commands that show a file.
LEMMA CommandsOfFile ==
  ASSUME NEW selected, NEW commands, commands = Git!DiffCommands(selected)
  PROVE  \/ commands = << >>
         \/ \E k \in Sections :
              /\ commands = <<k>>
              /\ k = "combined" => selected.headCommit # Null
              /\ k \in {"staged", "unstaged"} => selected.headCommit = Null
         \/ commands = <<"staged", "unstaged">> /\ selected.headCommit = Null
BY DEF Git!DiffCommands, Sections

\* A section that was read and is not empty can be shown for its file.
LEMMA SectionIsShown ==
  ASSUME NEW selected, NEW k \in Sections, NEW s, IsSection(selected, k, s),
         k = "combined" => selected.headCommit # Null,
         k \in {"staged", "unstaged"} => selected.headCommit = Null
  PROVE  /\ s.source = k /\ s.patch.size \in Nat
         /\ s.patch.size > 0 => IsShown(selected, s)
<1>1. PICK patch \in Git!Patches, base \in {Null, selected.headCommit} :
        /\ s = Git!Section(k, patch, base)
        /\ k = "combined" => base = selected.headCommit
  BY DEF IsSection
<1>2. patch.size \in Nat
  BY InspectionAssumption DEF Git!Patches, Git!Patch
<1>3. s.source = k /\ s.patch = patch /\ s.base = base
  BY <1>1 DEF Git!Section
<1> QED BY <1>1, <1>2, <1>3 DEF IsShown

\* Of one section that was read, it or none is populated.
LEMMA OnePopulated ==
  ASSUME NEW raw, DOMAIN raw = {1}, raw = [n \in {1} |-> raw[n]],
         raw[1].patch.size \in Nat
  PROVE  \/ Git!Populated(raw) = << >>
         \/ raw[1].patch.size > 0 /\ Git!Populated(raw) = <<raw[1]>>
<1>1. raw = <<raw[1]>>
  OBVIOUS
<1>2. PICK shown : shown = {n \in DOMAIN raw : raw[n].patch.size > 0}
  OBVIOUS
<1>3. Git!Populated(raw) = IF shown = DOMAIN raw THEN raw
                           ELSE IF shown = {} THEN << >>
                           ELSE <<raw[CHOOSE n \in shown : TRUE]>>
  BY <1>2 DEF Git!Populated
<1>4. CASE raw[1].patch.size > 0
  <2>1. shown = DOMAIN raw
    BY <1>2, <1>4
  <2> QED BY <1>1, <1>3, <1>4, <2>1
<1>5. CASE ~(raw[1].patch.size > 0)
  <2>1. shown = {} /\ shown # DOMAIN raw
    BY <1>2, <1>5
  <2> QED BY <1>3, <2>1
<1> QED BY <1>4, <1>5

\* Of two sections, both are, in their order, or one of them, or none.
LEMMA TwoPopulated ==
  ASSUME NEW raw, DOMAIN raw = {1, 2}, raw = [n \in {1, 2} |-> raw[n]],
         raw[1].patch.size \in Nat, raw[2].patch.size \in Nat
  PROVE  \/ Git!Populated(raw) = << >>
         \/ raw[1].patch.size > 0 /\ Git!Populated(raw) = <<raw[1]>>
         \/ raw[2].patch.size > 0 /\ Git!Populated(raw) = <<raw[2]>>
         \/ /\ raw[1].patch.size > 0 /\ raw[2].patch.size > 0
            /\ Git!Populated(raw) = <<raw[1], raw[2]>>
<1>1. raw = <<raw[1], raw[2]>>
  OBVIOUS
<1>2. PICK shown : shown = {n \in DOMAIN raw : raw[n].patch.size > 0}
  OBVIOUS
<1>3. Git!Populated(raw) = IF shown = DOMAIN raw THEN raw
                           ELSE IF shown = {} THEN << >>
                           ELSE <<raw[CHOOSE n \in shown : TRUE]>>
  BY <1>2 DEF Git!Populated
<1>4. CASE shown = DOMAIN raw
  <2>1. raw[1].patch.size > 0 /\ raw[2].patch.size > 0
    BY <1>2, <1>4
  <2> QED BY <1>1, <1>3, <1>4, <2>1
<1>5. CASE shown = {} /\ shown # DOMAIN raw
  BY <1>3, <1>5
<1>6. CASE shown # {} /\ shown # DOMAIN raw
  <2>1. PICK n : n = CHOOSE m \in shown : TRUE
    OBVIOUS
  <2>2. n \in shown
    BY <1>6, <2>1
  <2>3. n \in {1, 2} /\ raw[n].patch.size > 0
    BY <1>2, <2>2
  <2>4. Git!Populated(raw) = <<raw[n]>>
    BY <1>3, <1>6, <2>1
  <2> QED BY <2>3, <2>4
<1> QED BY <1>4, <1>5, <1>6

\* The sections of a file that have a patch.
LEMMA PopulatedAreShown ==
  ASSUME NEW selected, NEW commands, commands = Git!DiffCommands(selected),
         NEW raw, raw = [n \in DOMAIN commands |-> raw[n]],
         \A n \in DOMAIN commands : IsSection(selected, commands[n], raw[n])
  PROVE  AreShown(selected, Git!Populated(raw))
<1>1. CASE commands = << >>
  <2>1. DOMAIN raw = {}
    BY <1>1
  <2>2. {n \in DOMAIN raw : raw[n].patch.size > 0} = DOMAIN raw
    BY <2>1
  <2>3. Git!Populated(raw) = raw
    BY <2>2 DEF Git!Populated
  <2>4. raw = << >>
    BY <1>1
  <2> QED BY <2>3, <2>4 DEF AreShown
<1>2. ASSUME NEW k \in Sections, commands = <<k>>,
             k = "combined" => selected.headCommit # Null,
             k \in {"staged", "unstaged"} => selected.headCommit = Null
      PROVE  AreShown(selected, Git!Populated(raw))
  <2>1. DOMAIN commands = {1} /\ commands[1] = k
    BY <1>2
  <2>2. PICK s : s = raw[1]
    OBVIOUS
  <2>3. IsSection(selected, k, s)
    BY <2>1, <2>2
  <2>4. /\ s.patch.size \in Nat
        /\ s.patch.size > 0 => IsShown(selected, s)
    BY <1>2, <2>3, SectionIsShown
  <2>5. DOMAIN raw = {1} /\ raw = [n \in {1} |-> raw[n]]
    BY <2>1
  <2>6. \/ Git!Populated(raw) = << >>
        \/ s.patch.size > 0 /\ Git!Populated(raw) = <<s>>
    BY <2>2, <2>4, <2>5, OnePopulated
  <2> QED BY <2>4, <2>6 DEF AreShown
<1>3. CASE commands = <<"staged", "unstaged">> /\ selected.headCommit = Null
  <2>1. PICK k \in Sections, l \in Sections : k = "staged" /\ l = "unstaged"
    BY DEF Sections
  <2>2. DOMAIN commands = {1, 2} /\ commands[1] = k /\ commands[2] = l
    BY <1>3, <2>1
  <2>3. PICK s, t : s = raw[1] /\ t = raw[2]
    OBVIOUS
  <2>4. IsSection(selected, k, s) /\ IsSection(selected, l, t)
    BY <2>2, <2>3
  <2>5. k # "combined" /\ l # "combined"
    BY <2>1
  <2>6. /\ s.source = k /\ s.patch.size \in Nat
        /\ s.patch.size > 0 => IsShown(selected, s)
    BY <1>3, <2>4, <2>5, SectionIsShown
  <2>7. /\ t.source = l /\ t.patch.size \in Nat
        /\ t.patch.size > 0 => IsShown(selected, t)
    BY <1>3, <2>4, <2>5, SectionIsShown
  <2>8. DOMAIN raw = {1, 2} /\ raw = [n \in {1, 2} |-> raw[n]]
    BY <2>2
  <2>9. \/ Git!Populated(raw) = << >>
        \/ s.patch.size > 0 /\ Git!Populated(raw) = <<s>>
        \/ t.patch.size > 0 /\ Git!Populated(raw) = <<t>>
        \/ /\ s.patch.size > 0 /\ t.patch.size > 0
           /\ Git!Populated(raw) = <<s, t>>
    BY <2>3, <2>6, <2>7, <2>8, TwoPopulated
  <2> QED BY <2>1, <2>6, <2>7, <2>9 DEF AreShown
<1> QED BY <1>1, <1>2, <1>3, CommandsOfFile

\* The schema of the sections of a ready diff.
AreValid(sections, head) ==
  LET sources == {s.source : s \in Git!Range(sections)} IN
  /\ Git!Cardinality(sources) = Len(sections)
  /\ sources \cap {"combined", "untracked"} # {} => Len(sections) = 1
  /\ \A s \in Git!Range(sections) : s.patch.size > 0
  /\ "combined" \in sources => head # Null
  /\ sources \cap {"staged", "unstaged"} # {} => head = Null
  /\ \A s \in Git!Range(sections) : s.source = "combined" => s.base = head

\* A set of two has two elements.
LEMMA TwoElements ==
  ASSUME NEW a, NEW b, a # b
  PROVE  IsFiniteSet({a, b}) /\ Cardinality({a, b}) = 2
<1>1. IsFiniteSet({a}) /\ Cardinality({a}) = 1
  BY FS_Singleton
<1>2. PICK S : S = {a}
  OBVIOUS
<1>3. IsFiniteSet(S) /\ Cardinality(S) = 1 /\ b \notin S
  BY <1>1, <1>2
<1>4. IsFiniteSet(S \cup {b}) /\ Cardinality(S \cup {b}) = 2
  BY <1>3, FS_AddElement
<1>5. S \cup {b} = {a, b}
  BY <1>2
<1> QED BY <1>4, <1>5

\* What is shown of a file has each source at most once, and the base of
\* the commit it was compared with.
LEMMA ShownAreValid ==
  ASSUME NEW selected, NEW sections, AreShown(selected, sections)
  PROVE  AreValid(sections, selected.headCommit)
<1>1. CASE sections = << >>
  <2>1. Git!Range(sections) = {} /\ Len(sections) = 0
    BY <1>1 DEF Git!Range
  <2>2. Git!Cardinality({}) = 0
    BY FS_EmptySet, SameGitCardinality
  <2> QED BY <2>1, <2>2 DEF AreValid
<1>2. ASSUME NEW s, sections = <<s>>, IsShown(selected, s)
      PROVE  AreValid(sections, selected.headCommit)
  <2>1. Git!Range(sections) = {s} /\ Len(sections) = 1
    BY <1>2 DEF Git!Range
  <2>2. PICK sources : sources = {r.source : r \in Git!Range(sections)}
    OBVIOUS
  <2>3. sources = {s.source}
    BY <2>1, <2>2
  <2>4. Git!Cardinality(sources) = 1
    BY <2>3, FS_Singleton, SameGitCardinality
  <2> QED BY <1>2, <2>1, <2>2, <2>3, <2>4 DEF AreValid, IsShown
<1>3. ASSUME NEW s, NEW t, sections = <<s, t>>, IsShown(selected, s),
             IsShown(selected, t), s.source = "staged", t.source = "unstaged"
      PROVE  AreValid(sections, selected.headCommit)
  <2>1. Git!Range(sections) = {s, t} /\ Len(sections) = 2
    BY <1>3 DEF Git!Range
  <2>2. PICK sources : sources = {r.source : r \in Git!Range(sections)}
    OBVIOUS
  <2>3. sources = {s.source, t.source}
    BY <2>1, <2>2
  <2>4. s.source # t.source
    BY <1>3
  <2>5. Git!Cardinality(sources) = 2
    BY <2>3, <2>4, TwoElements, SameGitCardinality
  <2> QED BY <1>3, <2>1, <2>2, <2>3, <2>5 DEF AreValid, IsShown
<1> QED BY <1>1, <1>2, <1>3 DEF AreShown

\* A diff with all of its sections is an answer.
LEMMA ReadyDiffFits ==
  ASSUME NEW selected, NEW hs, NEW rs, selected.headCommit \in hs,
         NEW sections, AreShown(selected, sections), sections # << >>,
         Git!SizeOf(sections) <= MaxPatch,
         NEW o, o = Git!OfFile("ready", selected, sections, Null)
  PROVE  Fits(o, hs, rs)
<1>1. PICK head : head = selected.headCommit
  OBVIOUS
<1>2. AreValid(sections, head)
  BY <1>1, ShownAreValid
<1>3. PICK path, previous :
        o = [of |-> "diff", status |-> "ready", root |-> "root",
             headCommit |-> head, path |-> path, previousPath |-> previous,
             sections |-> sections, error |-> Null]
  BY <1>1 DEF Git!OfFile, Git!Diff
<1>4. /\ o.of = "diff" /\ o.status = "ready" /\ o.root = "root"
      /\ o.headCommit = head /\ o.sections = sections /\ o.error = Null
  BY <1>3
<1>5. o.root # Null
  BY <1>4, InspectionAssumption
<1>6. PICK sources : sources = {s.source : s \in Git!Range(sections)}
  OBVIOUS
<1>7. /\ Git!Cardinality(sources) = Len(sections)
      /\ sources \cap {"combined", "untracked"} # {} => Len(sections) = 1
      /\ \A s \in Git!Range(sections) : s.patch.size > 0
      /\ "combined" \in sources => head # Null
      /\ sources \cap {"staged", "unstaged"} # {} => head = Null
      /\ \A s \in Git!Range(sections) : s.source = "combined" => s.base = head
  BY <1>2, <1>6 DEF AreValid
<1>8. /\ o.status = "ready" /\ o.error = Null /\ o.root # Null
      /\ o.sections # << >>
  BY <1>4, <1>5
<1>9. Git!ValidDiff(o)
  BY <1>4, <1>6, <1>7, <1>8 DEF Git!ValidDiff
<1>10. EvidenceOf(o, hs, rs)
  BY <1>1, <1>4, <1>7 DEF EvidenceOf
<1>11. DOMAIN o = {"of", "status", "root", "headCommit", "path",
                   "previousPath", "sections", "error"}
  BY <1>3
<1> QED BY <1>4, <1>9, <1>10, <1>11 DEF Fits, HasForm, Git!Coherent

\* A refusal for the size of the sections is looked for up to the last.
LEMMA AllOfShown ==
  ASSUME NEW selected, NEW sections, AreShown(selected, sections),
         sections # << >>
  PROVE  /\ Len(sections) \in DOMAIN sections
         /\ SubSeq(sections, 1, Len(sections)) = sections
<1>1. ASSUME NEW s, sections = <<s>>
      PROVE  sections \in Seq({s}) /\ Len(sections) \in DOMAIN sections
  BY <1>1
<1>2. ASSUME NEW s, NEW t, sections = <<s, t>>
      PROVE  sections \in Seq({s, t}) /\ Len(sections) \in DOMAIN sections
  BY <1>2
<1>3. PICK S : sections \in Seq(S) /\ Len(sections) \in DOMAIN sections
  BY <1>1, <1>2 DEF AreShown
<1>4. SubSeq(sections, 1, Len(sections)) = sections
  BY <1>3, SubSeqFull
<1> QED BY <1>3, <1>4

\* normalizeDiffSections returns a valid answer.
LEMMA NormalizedFits ==
  ASSUME NEW selected, NEW hs, NEW rs, selected.headCommit \in hs,
         NEW raw, AreShown(selected, Git!Populated(raw)),
         NEW o, o = Git!NormalizeDiff(selected, raw)
  PROVE  Fits(o, hs, rs)
<1>1. PICK populated : populated = Git!Populated(raw)
  OBVIOUS
<1>2. AreShown(selected, populated)
  BY <1>1
<1>3. PICK refused :
        refused = {n \in DOMAIN populated :
                    \/ populated[n].patch.kind = "invalid"
                    \/ ~(Git!SizeOf(SubSeq(populated, 1, n)) <= MaxPatch)}
  OBVIOUS
<1>4. "invalid_output" # Null
  BY InspectionAssumption
<1>5. CASE \E status \in {"empty", "binary", "too_large"} :
             o = Git!OfFile(status, selected, <<>>, Null)
  <2>1. PICK status \in {"empty", "binary", "too_large"} :
               o = Git!OfFile(status, selected, <<>>, Null)
    BY <1>5
  <2>2. PICK error : error = Null
    OBVIOUS
  <2>3. o = Git!OfFile(status, selected, <<>>, error)
    BY <2>1, <2>2
  <2> QED BY <2>1, <2>2, <2>3, EmptyFileFits
<1>6. CASE o = Git!OfFile("error", selected, <<>>, "invalid_output")
  <2>1. PICK status, error : status = "error" /\ error = "invalid_output"
    OBVIOUS
  <2>2. o = Git!OfFile(status, selected, <<>>, error)
    BY <1>6, <2>1
  <2> QED BY <1>4, <2>1, <2>2, EmptyFileFits
<1>7. CASE /\ populated # << >> /\ refused = {}
           /\ o = Git!OfFile("ready", selected, populated, Null)
  <2>1. /\ Len(populated) \in DOMAIN populated
        /\ SubSeq(populated, 1, Len(populated)) = populated
    BY <1>2, <1>7, AllOfShown
  <2>2. Git!SizeOf(SubSeq(populated, 1, Len(populated))) <= MaxPatch
    BY <1>3, <1>7, <2>1
  <2>3. Git!SizeOf(populated) <= MaxPatch
    BY <2>1, <2>2
  <2> QED BY <1>2, <1>7, <2>3, ReadyDiffFits
<1>8. \/ \E status \in {"empty", "binary", "too_large"} :
           o = Git!OfFile(status, selected, <<>>, Null)
      \/ o = Git!OfFile("error", selected, <<>>, "invalid_output")
      \/ /\ populated # << >> /\ refused = {}
         /\ o = Git!OfFile("ready", selected, populated, Null)
  BY <1>1, <1>3 DEF Git!NormalizeDiff
<1> QED BY <1>5, <1>6, <1>7, <1>8

\* What is read of a file is an answer.
LEMMA FileReadFits ==
  ASSUME NEW selected, NEW hs, NEW rs, selected.headCommit \in hs,
         NEW got, \A k \in DOMAIN got : IsPrinted(k, got[k], selected, hs),
         NEW o \in Git!FileRead(selected, got)
  PROVE  Fits(o, hs, rs)
<1>1. "inspection_failed" # Null /\ "unsafe_path" # Null
  BY InspectionAssumption
<1>2. CASE \E status \in {"binary", "too_large", "not_found"} :
             o = Git!OfFile(status, selected, <<>>, Null)
  <2>1. PICK status \in {"binary", "too_large", "not_found"} :
               o = Git!OfFile(status, selected, <<>>, Null)
    BY <1>2
  <2>2. PICK error : error = Null
    OBVIOUS
  <2>3. o = Git!OfFile(status, selected, <<>>, error)
    BY <2>1, <2>2
  <2> QED BY <2>1, <2>2, <2>3, EmptyFileFits
<1>3. CASE \E error \in {"unsafe_path", "inspection_failed"} :
             o = Git!OfFile("error", selected, <<>>, error)
  <2>1. PICK error \in {"unsafe_path", "inspection_failed"} :
               o = Git!OfFile("error", selected, <<>>, error)
    BY <1>3
  <2>2. PICK status : status = "error"
    OBVIOUS
  <2>3. o = Git!OfFile(status, selected, <<>>, error)
    BY <2>1, <2>2
  <2> QED BY <1>1, <2>1, <2>2, <2>3, EmptyFileFits
<1>4. PICK commands : commands = Git!DiffCommands(selected)
  OBVIOUS
<1>5. PICK raw : raw = [n \in DOMAIN commands |-> got[commands[n]].out]
  OBVIOUS
<1>6. CASE /\ Git!Range(commands) \subseteq DOMAIN got
           /\ \A k \in Git!Range(commands) : got[k].exit = 0
           /\ o = Git!NormalizeDiff(selected, raw)
  <2>1. \A n \in DOMAIN commands : IsSection(selected, commands[n], raw[n])
    <3> SUFFICES ASSUME NEW n \in DOMAIN commands
                 PROVE  IsSection(selected, commands[n], raw[n])
      OBVIOUS
    <3>1. PICK k : k = commands[n]
      OBVIOUS
    <3>2. k \in Git!Range(commands)
      BY <3>1 DEF Git!Range
    <3>3. k \in Sections
      <4>1. commands = << >> \/ commands = <<"staged", "unstaged">>
            \/ \E l \in Sections : commands = <<l>>
        BY <1>4, CommandsOfFile
      <4> QED BY <3>1, <4>1 DEF Sections
    <3>4. IsPrinted(k, got[k], selected, hs) /\ got[k].exit = 0
      BY <1>6, <3>2
    <3>5. raw[n] = got[k].out
      BY <1>5, <3>1
    <3> QED BY <3>1, <3>3, <3>4, <3>5 DEF IsPrinted, IsSection
  <2>2. raw = [n \in DOMAIN commands |-> raw[n]]
    BY <1>5
  <2>3. AreShown(selected, Git!Populated(raw))
    BY <1>4, <2>1, <2>2, PopulatedAreShown
  <2> QED BY <1>6, <2>3, NormalizedFits
<1>7. \/ \E status \in {"binary", "too_large", "not_found"} :
           o = Git!OfFile(status, selected, <<>>, Null)
      \/ \E error \in {"unsafe_path", "inspection_failed"} :
           o = Git!OfFile("error", selected, <<>>, error)
      \/ /\ Git!Range(commands) \cap DOMAIN got = Git!Range(commands)
         /\ ~\E k \in Git!Range(commands) \cap DOMAIN got : got[k].exit # 0
         /\ o = Git!NormalizeDiff(selected, raw)
  BY <1>4, <1>5 DEF Git!FileRead
<1> QED BY <1>2, <1>3, <1>6, <1>7

\* The file a diff selects is one of the changes, at their commit.
LEMMA SelectedIsSelected ==
  ASSUME NEW c, NEW hs, IsChanges(c, hs), c.status = "ready",
         NEW path, Git!Named(c, path) # {},
         NEW selected, selected = Git!Selected(c, path)
  PROVE  IsSelected(selected, hs) /\ selected.file.path = path
<1>1. PICK chosen : chosen = CHOOSE f \in Git!Named(c, path) : TRUE
  OBVIOUS
<1>2. chosen \in Git!Named(c, path)
  BY <1>1
<1>3. Git!ValidFile(chosen)
  BY <1>2 DEF Git!Named, IsChanges, Git!ValidChanges
<1>4. selected.headCommit = c.headCommit /\ selected.file = chosen
  BY <1>1 DEF Git!Selected
<1>5. chosen.path = path
  BY <1>2 DEF Git!Named
<1> QED BY <1>3, <1>4, <1>5 DEF IsSelected, IsChanges

\* What the changes decide of a diff is an answer.
LEMMA DiffReadFits ==
  ASSUME NEW c, NEW hs, NEW rs, IsChanges(c, hs),
         NEW path, NEW o \in Git!DiffRead(path, c)
  PROVE  Fits(o, hs, rs)
<1>1. "root" # Null
  BY InspectionAssumption
<1>2. CASE /\ c.status # "ready"
           /\ o = Git!DiffError(c.root, Null, path, Null, c.error)
  <2>1. c.error # Null
    BY <1>2 DEF IsChanges, Git!ValidChanges
  <2>2. PICK status, root, error, none :
          /\ status = "error" /\ root = "root" /\ error = c.error
          /\ none = Null
    OBVIOUS
  <2>3. c.root = root /\ root # Null
    BY <1>1, <2>2 DEF IsChanges
  <2>4. o = Git!Diff(status, root, none, path, none, <<>>, error)
    BY <1>2, <2>2, <2>3 DEF Git!DiffError
  <2> QED BY <2>1, <2>2, <2>3, <2>4, EmptyDiffFits
<1>3. CASE o = Git!Diff("not_found", "root", c.headCommit, path, Null, <<>>,
                        Null)
  <2>1. PICK status, root, head, none :
          /\ status = "not_found" /\ root = "root" /\ head = c.headCommit
          /\ none = Null
    OBVIOUS
  <2>2. o = Git!Diff(status, root, head, path, none, <<>>, none)
    BY <1>3, <2>1
  <2> QED BY <1>1, <2>1, <2>2, EmptyDiffFits
<1>4. CASE /\ c.status = "ready" /\ Git!Named(c, path) # {}
           /\ o \in Git!FileRead(Git!Selected(c, path), << >>)
  <2>1. PICK selected, got :
          selected = Git!Selected(c, path) /\ got = << >>
    OBVIOUS
  <2>2. selected.headCommit \in hs
    BY <1>4, <2>1, SelectedIsSelected DEF IsSelected
  <2>3. \A k \in DOMAIN got : IsPrinted(k, got[k], selected, hs)
    BY <2>1
  <2>4. o \in Git!FileRead(selected, got)
    BY <1>4, <2>1
  <2> QED BY <2>2, <2>3, <2>4, FileReadFits
<1>5. \/ /\ c.status # "ready"
         /\ o = Git!DiffError(c.root, Null, path, Null, c.error)
      \/ o = Git!Diff("not_found", "root", c.headCommit, path, Null, <<>>,
                      Null)
      \/ /\ c.status = "ready" /\ Git!Named(c, path) # {}
         /\ o \in Git!FileRead(Git!Selected(c, path), << >>)
  BY DEF Git!DiffRead
<1> QED BY <1>2, <1>3, <1>4, <1>5

\* A diff that the changes do not decide is one of a file they name.
LEMMA UndecidedIsNamed ==
  ASSUME NEW c, NEW hs, IsChanges(c, hs), NEW path, Git!DiffRead(path, c) = {}
  PROVE  c.status = "ready" /\ Git!Named(c, path) # {}
BY DEF Git!DiffRead

\* The smaller of two numbers.
LEMMA MinOfTwo ==
  ASSUME NEW a \in Nat, NEW b \in Nat
  PROVE  Git!Min({a, b}) = IF a <= b THEN a ELSE b
<1>1. PICK m : m = IF a <= b THEN a ELSE b
  OBVIOUS
<1>2. m \in {a, b} /\ \A y \in {a, b} : m <= y
  BY <1>1
<1>3. \A x \in {a, b} : (\A y \in {a, b} : x <= y) => x = m
  BY <1>1, <1>2
<1>4. Git!Min({a, b}) = m
  BY <1>2, <1>3 DEF Git!Min
<1> QED BY <1>1, <1>4

\* A history without commits.
LEMMA EmptyHistoryFits ==
  ASSUME NEW status \in {"error", "empty", "not_repository"},
         NEW root, NEW head, NEW error,
         (status = "error") <=> (error # Null),
         root = Null => head = Null,
         status # "error" => head = Null,
         status = "empty" => root # Null,
         status = "not_repository" => root = Null,
         NEW hs, NEW rs, NEW cut, cut = FALSE,
         NEW o, o = Git!History(status, root, head, <<>>, cut, error)
  PROVE  Fits(o, hs, rs)
<1>1. PICK none : none = << >>
  OBVIOUS
<1>2. o = [of |-> "history", status |-> status, root |-> root,
           headCommit |-> head, commits |-> none, truncated |-> cut,
           error |-> error]
  BY <1>1 DEF Git!History
<1>3. /\ o.of = "history" /\ o.status = status /\ o.root = root
      /\ o.headCommit = head /\ o.commits = none /\ o.truncated = cut
      /\ o.error = error
  BY <1>2
<1>4. Git!Range(none) = {} /\ Len(none) = 0
  BY <1>1 DEF Git!Range
<1>5. Git!Cardinality(Git!Range(o.commits)) = Len(o.commits)
  BY <1>3, <1>4, FS_EmptySet, SameGitCardinality
<1>6. Len(o.commits) <= MaxHistory
  <2>1. MaxHistory \in Nat
    BY InspectionAssumption
  <2>2. Len(o.commits) = 0
    BY <1>3, <1>4
  <2> QED BY <2>1, <2>2
<1>7. Git!ValidHistory(o)
  BY <1>1, <1>3, <1>5, <1>6 DEF Git!ValidHistory
<1>8. EvidenceOf(o, hs, rs)
  BY <1>3 DEF EvidenceOf
<1>9. DOMAIN o = {"of", "status", "root", "headCommit", "commits",
                  "truncated", "error"}
  BY <1>2
<1> QED BY <1>3, <1>7, <1>8, <1>9 DEF Fits, HasForm, Git!Coherent

\* A log is a sequence of commits.
LEMMA LogIsSequence ==
  ASSUME NEW c \in Nat, NEW length \in Nat,
         NEW log, log = [n \in 1..length |-> c + 1 - n]
  PROVE  log \in Seq(Int) /\ Len(log) = length
<1>1. \A n \in 1..length : c + 1 - n \in Int
  OBVIOUS
<1>2. log \in [1..length -> Int]
  BY <1>1
<1>3. log \in UNION {[1..n -> Int] : n \in Nat}
  BY <1>2
<1>4. log \in Seq(Int)
  BY <1>3, SeqDef, Zenon
<1>5. Len(log) \in Nat /\ DOMAIN log = 1..Len(log)
  BY <1>4, LenProperties
<1>6. DOMAIN log = 1..length
  BY <1>2
<1>7. Len(log) = length
  BY <1>5, <1>6
<1> QED BY <1>4, <1>7

\* The log of a commit, the latest first.
LogOf(c, length) == [n \in 1..length |-> c + 1 - n]

\* The commits that are told are the latest, and different ones.
AreLatest(commits, shown, c) ==
  /\ Len(commits) = shown /\ commits # << >> /\ commits[1] = c
  /\ Git!Cardinality(Git!Range(commits)) = shown

\* The first commits of a log are the latest.
LEMMA LogIsCut ==
  ASSUME NEW c \in Nat, NEW length \in Nat,
         NEW log, log = LogOf(c, length),
         NEW shown, shown \in 1..length,
         NEW commits, commits = SubSeq(log, 1, shown)
  PROVE  AreLatest(commits, shown, c)
<1>1. log \in Seq(Int) /\ Len(log) = length
  BY LogIsSequence DEF LogOf
<1>2. /\ commits \in Seq(Int) /\ Len(commits) = shown
      /\ \A n \in 1..shown : commits[n] = log[n]
  <2>1. \A n \in 1..shown : log[n] \in Int
    <3>1. \A n \in 1..shown : n \in 1..Len(log)
      BY <1>1
    <3> QED BY <1>1, <3>1, ElementOfSeq
  <2>2. 1 \in Int /\ shown \in Int
    OBVIOUS
  <2> QED BY <2>1, <2>2, SubSeqProperties
<1>3. \A n \in 1..shown : commits[n] = c + 1 - n
  <2> SUFFICES ASSUME NEW n \in 1..shown
               PROVE  commits[n] = c + 1 - n
    OBVIOUS
  <2>1. n \in 1..length
    OBVIOUS
  <2>2. log[n] = c + 1 - n
    BY <2>1 DEF LogOf
  <2> QED BY <1>2, <2>2
<1>4. DOMAIN commits = 1..shown /\ commits \in [1..shown -> Int]
  BY <1>2, LenProperties
<1>5. commits \in Bijection(1..shown, Git!Range(commits))
  <2>1. Git!Range(commits) = {commits[n] : n \in 1..shown}
    BY <1>4 DEF Git!Range
  <2>2. commits \in [1..shown -> Git!Range(commits)]
    BY <1>4, <2>1
  <2>3. \A m, n \in 1..shown : commits[m] = commits[n] => m = n
    <3> SUFFICES ASSUME NEW m \in 1..shown, NEW n \in 1..shown,
                        commits[m] = commits[n]
                 PROVE  m = n
      OBVIOUS
    <3>1. commits[m] = c + 1 - m /\ commits[n] = c + 1 - n
      BY <1>3
    <3>2. m \in Int /\ n \in Int
      OBVIOUS
    <3> QED BY <3>1, <3>2
  <2>4. \A x \in Git!Range(commits) : \E n \in 1..shown : commits[n] = x
    BY <2>1
  <2>5. commits \in Surjection(1..shown, Git!Range(commits))
    BY <2>2, <2>4 DEF Surjection
  <2>6. commits \in Injection(1..shown, Git!Range(commits))
    <3>1. IsInjective(commits)
      BY <1>4, <2>3 DEF IsInjective
    <3> QED BY <2>2, <3>1 DEF Injection
  <2> QED BY <2>5, <2>6 DEF Bijection
<1>6. IsFiniteSet(1..shown) /\ Cardinality(1..shown) = shown
  <2>1. 1 \in Int /\ shown \in Int
    OBVIOUS
  <2>2. /\ IsFiniteSet(1..shown)
        /\ Cardinality(1..shown) = IF 1 > shown THEN 0 ELSE shown - 1 + 1
    BY <2>1, FS_Interval
  <2> QED BY <2>2
<1>7. Git!Cardinality(Git!Range(commits)) = shown
  BY <1>5, <1>6, FS_Bijection, SameGitCardinality DEF ExistsBijection
<1>8. commits[1] = c
  <2>1. 1 \in 1..shown
    OBVIOUS
  <2> QED BY <1>3, <2>1
<1>9. commits # << >>
  <2>1. Len(commits) # 0
    BY <1>2
  <2> QED BY <2>1
<1> QED BY <1>2, <1>7, <1>8, <1>9 DEF AreLatest

\* The commits of a log that ends at c, as they are told.
LEMMA LogIsNormalized ==
  ASSUME NEW c \in Nat \ {0}, NEW log,
         log = LogOf(c, Git!Min({c, MaxHistory + 1})),
         NEW normalized, normalized = Git!Normalized(log),
         NEW commits, commits = normalized.commits
  PROVE  /\ Git!Cardinality(Git!Range(commits)) = Len(commits)
         /\ Len(commits) <= MaxHistory
         /\ normalized.truncated => Len(commits) = MaxHistory
         /\ commits # << >> /\ commits[1] = c
<1>1. MaxHistory \in Nat \ {0}
  BY InspectionAssumption
<1>2. PICK length : length = Git!Min({c, MaxHistory + 1})
  OBVIOUS
<1>3. length = IF c <= MaxHistory + 1 THEN c ELSE MaxHistory + 1
  BY <1>1, <1>2, MinOfTwo
<1>4. length \in Nat \ {0}
  BY <1>1, <1>3
<1>5. log = LogOf(c, length)
  BY <1>2
<1>6. Len(log) = length
  BY <1>4, <1>5, LogIsSequence DEF LogOf
<1>7. PICK shown : shown = Git!Min({length, MaxHistory})
  OBVIOUS
<1>8. shown = IF length <= MaxHistory THEN length ELSE MaxHistory
  BY <1>1, <1>4, <1>7, MinOfTwo
<1>9. shown \in 1..length /\ shown <= MaxHistory
  BY <1>1, <1>4, <1>8
<1>10. /\ commits = SubSeq(log, 1, shown)
       /\ normalized.truncated <=> length > MaxHistory
  BY <1>6, <1>7 DEF Git!Normalized
<1>11. AreLatest(commits, shown, c)
  <2>1. c \in Nat /\ length \in Nat /\ shown \in 1..length
    BY <1>4, <1>9
  <2>2. commits = SubSeq(log, 1, shown)
    BY <1>10
  <2> QED BY <1>5, <2>1, <2>2, LogIsCut
<1>12. length > MaxHistory => shown = MaxHistory
  BY <1>1, <1>4, <1>8
<1> QED BY <1>9, <1>10, <1>11, <1>12 DEF AreLatest

\* What is read of the commits is an answer.
LEMMA HistoryReadFits ==
  ASSUME NEW known, IsObserved(known), known.status = "ready",
         NEW got, NEW hs, NEW rs, NEW selected,
         "log" \in DOMAIN got => IsPrinted("log", got["log"], selected, hs),
         NEW o \in Git!HistoryRead(known, got)
  PROVE  Fits(o, hs, rs)
<1>1. "inspection_failed" # Null /\ "invalid_output" # Null
  BY InspectionAssumption
<1>2. known.root # Null
  BY DEF IsObserved, Git!ValidRepository
<1>3. CASE /\ known.headCommit = Null
           /\ o = Git!History("empty", known.root, Null, <<>>, FALSE, Null)
  <2>1. PICK status, root, none, cut :
          /\ status = "empty" /\ root = known.root /\ none = Null
          /\ cut = FALSE
    OBVIOUS
  <2>2. o = Git!History(status, root, none, <<>>, cut, none)
    BY <1>3, <2>1
  <2>3. status \in {"error", "empty", "not_repository"}
    BY <2>1
  <2> QED BY <1>2, <2>1, <2>2, <2>3, EmptyHistoryFits
<1>4. CASE \E error \in {"inspection_failed", "invalid_output"} :
             o = Git!HistoryError(known.root, known.headCommit, error)
  <2>1. PICK error \in {"inspection_failed", "invalid_output"} :
               o = Git!HistoryError(known.root, known.headCommit, error)
    BY <1>4
  <2>2. PICK status, root, head, cut :
          /\ status = "error" /\ root = known.root
          /\ head = known.headCommit /\ cut = FALSE
    OBVIOUS
  <2>3. o = Git!History(status, root, head, <<>>, cut, error)
    BY <2>1, <2>2 DEF Git!HistoryError
  <2>4. status \in {"error", "empty", "not_repository"}
    BY <2>2
  <2> QED BY <1>1, <1>2, <2>1, <2>2, <2>3, <2>4, EmptyHistoryFits
<1>5. CASE /\ "log" \in DOMAIN got /\ got["log"].exit = 0
           /\ got["log"].sound
           /\ LET log == Git!Normalized(got["log"].out) IN
              o = Git!History("ready", known.root, log.commits[1],
                              log.commits, log.truncated, Null)
  <2>1. PICK c \in Nat \ {0} :
          /\ c \in hs
          /\ got["log"].out
               = [n \in 1..Git!Min({c, MaxHistory + 1}) |-> c + 1 - n]
    BY <1>5 DEF IsPrinted
  <2>2. PICK log : log = got["log"].out
    OBVIOUS
  <2>3. PICK normalized, commits, truncated :
          /\ normalized = Git!Normalized(log)
          /\ commits = normalized.commits
          /\ truncated = normalized.truncated
    OBVIOUS
  <2>4. /\ Git!Cardinality(Git!Range(commits)) = Len(commits)
        /\ Len(commits) <= MaxHistory
        /\ truncated => Len(commits) = MaxHistory
        /\ commits # << >> /\ commits[1] = c
    <3>1. log = LogOf(c, Git!Min({c, MaxHistory + 1}))
      BY <2>1, <2>2 DEF LogOf
    <3>2. /\ Git!Cardinality(Git!Range(commits)) = Len(commits)
          /\ Len(commits) <= MaxHistory
          /\ normalized.truncated => Len(commits) = MaxHistory
          /\ commits # << >> /\ commits[1] = c
      BY <2>3, <3>1, LogIsNormalized
    <3> QED BY <2>3, <3>2
  <2>5. PICK root : root = known.root
    OBVIOUS
  <2>6. o = [of |-> "history", status |-> "ready", root |-> root,
             headCommit |-> c, commits |-> commits,
             truncated |-> truncated, error |-> Null]
    BY <1>5, <2>2, <2>3, <2>4, <2>5 DEF Git!History
  <2>7. /\ o.of = "history" /\ o.status = "ready" /\ o.root = root
        /\ o.headCommit = c /\ o.commits = commits
        /\ o.truncated = truncated /\ o.error = Null
    BY <2>6
  <2>8. Git!ValidHistory(o)
    BY <1>2, <2>4, <2>5, <2>7 DEF Git!ValidHistory
  <2>9. EvidenceOf(o, hs, rs)
    BY <2>1, <2>7 DEF EvidenceOf
  <2>10. DOMAIN o = {"of", "status", "root", "headCommit", "commits",
                     "truncated", "error"}
    BY <2>6
  <2> QED BY <2>7, <2>8, <2>9, <2>10 DEF Fits, HasForm, Git!Coherent
<1> QED BY <1>3, <1>4, <1>5 DEF Git!HistoryRead

\* Of a larger set there are not fewer.
LEMMA TwoAreIn ==
  ASSUME NEW rs, IsFiniteSet(rs), NEW a \in rs, NEW b \in rs, a # b
  PROVE  Git!Cardinality(rs) > 1
<1>1. IsFiniteSet({a, b}) /\ Cardinality({a, b}) = 2
  BY TwoElements
<1>2. {a, b} \in SUBSET rs
  OBVIOUS
<1>3. Cardinality({a, b}) <= Cardinality(rs) /\ Cardinality(rs) \in Nat
  BY <1>2, FS_Subset, FS_CardinalityType
<1> QED BY <1>1, <1>3, SameGitCardinality

\* More than one stay more than one.
LEMMA MoreStayMany ==
  ASSUME NEW rs, NEW more, IsFiniteSet(more), rs \subseteq more,
         Git!Cardinality(rs) > 1
  PROVE  Git!Cardinality(more) > 1
<1>1. rs \in SUBSET more
  OBVIOUS
<1>2. Cardinality(rs) <= Cardinality(more) /\ IsFiniteSet(rs)
  BY <1>1, FS_Subset
<1>3. Cardinality(rs) \in Nat /\ Cardinality(more) \in Nat
  BY <1>2, FS_CardinalityType
<1> QED BY <1>2, <1>3, SameGitCardinality

\* A run that starts.
LEMMA RunningIsRun ==
  ASSUME NEW ps, NEW preset \in ps, NEW rs, NEW head \in rs \cup {Null},
         NEW r, r = Git!Running(preset, head)
  PROVE  IsRun(r, ps, rs) /\ r.status = "running"
<1>1. Null # "changed"
  BY InspectionAssumption
<1>2. PICK forced : forced = FALSE
  OBVIOUS
<1>3. r = [preset |-> preset, status |-> "running",
           headCommitAtStart |-> head, duration |-> Null,
           headCommitAtEnd |-> Null,
           headComparison |-> Null, exitCode |-> Null, signal |-> Null,
           forced |-> forced, error |-> Null]
  BY <1>2 DEF Git!Running
<1>4. /\ r.preset = preset /\ r.status = "running"
      /\ r.headCommitAtStart = head /\ r.duration = Null
      /\ r.headCommitAtEnd = Null
      /\ r.headComparison = Null /\ r.exitCode = Null /\ r.signal = Null
      /\ r.forced = forced /\ r.error = Null
  BY <1>3
<1>5. DOMAIN r = {"preset", "status", "headCommitAtStart", "duration",
                  "headCommitAtEnd", "headComparison", "exitCode",
                  "signal", "forced", "error"}
  BY <1>3
<1>6. \A field \in DOMAIN Git!NoEvidence : r[field] = Git!NoEvidence[field]
  <2>1. PICK none : none = [duration |-> Null,
                            headCommitAtEnd |-> Null, headComparison |-> Null,
                            exitCode |-> Null, signal |-> Null,
                            forced |-> forced, error |-> Null]
    OBVIOUS
  <2>2. Git!NoEvidence = none
    BY <1>2, <2>1 DEF Git!NoEvidence
  <2>3. \A field \in DOMAIN none : r[field] = none[field]
    BY <1>4, <2>1
  <2> QED BY <2>2, <2>3
<1>7. Git!ValidRun(r)
  BY <1>4, <1>6 DEF Git!ValidRun
<1> QED BY <1>1, <1>4, <1>5, <1>7 DEF IsRun

\* A run that is asked to end.
LEMMA CancellingIsRun ==
  ASSUME NEW run0, NEW ps, NEW rs, IsRun(run0, ps, rs),
         run0.status \in {"running", "cancelling"},
         NEW r, r = [run0 EXCEPT !.status = "cancelling"]
  PROVE  IsRun(r, ps, rs) /\ r.status = "cancelling"
<1>1. /\ r.preset = run0.preset /\ r.status = "cancelling"
      /\ r.headCommitAtStart = run0.headCommitAtStart
      /\ r.duration = run0.duration
      /\ r.headCommitAtEnd = run0.headCommitAtEnd
      /\ r.headComparison = run0.headComparison
      /\ r.exitCode = run0.exitCode /\ r.signal = run0.signal
      /\ r.forced = run0.forced /\ r.error = run0.error
      /\ DOMAIN r = DOMAIN run0
  BY DEF IsRun
<1>2. \A field \in DOMAIN Git!NoEvidence : r[field] = Git!NoEvidence[field]
  <2>1. \A field \in DOMAIN Git!NoEvidence :
          run0[field] = Git!NoEvidence[field]
    BY DEF IsRun, Git!ValidRun
  <2>2. DOMAIN Git!NoEvidence
          = {"duration", "headCommitAtEnd", "headComparison", "exitCode",
             "signal", "forced", "error"}
    BY DEF Git!NoEvidence
  <2>3. \A field \in DOMAIN Git!NoEvidence : r[field] = run0[field]
    BY <2>2 DEF IsRun
  <2> QED BY <2>1, <2>3
<1>3. Git!ValidRun(r)
  BY <1>1, <1>2 DEF Git!ValidRun
<1> QED BY <1>1, <1>3 DEF IsRun

\* An exit fits the status it gave a run.
ExitFits(status, exit, forced, error) ==
  /\ status \in {"passed", "failed", "error", "cancelled", "timed_out"}
  /\ status = "passed" => exit.code = 0 /\ exit.signal = Null /\ ~forced
  /\ status = "failed" =>
       {exit.code, exit.signal} # {Null} /\ exit.code # 0 /\ ~forced
  /\ status = "error" => ~forced
  /\ (status = "error") <=> (error # Null)

\* A run that ended.
LEMMA CompletedIsRun ==
  ASSUME NEW run0, NEW ps, NEW rs, IsFiniteSet(rs), IsRun(run0, ps, rs),
         NEW took \in Nat, took <= MaxDuration, NEW head \in rs \cup {Null},
         NEW status, NEW exit, NEW forced, NEW error,
         ExitFits(status, exit, forced, error),
         NEW r,
         r = Git!Completed(run0, took, head, status, exit, forced, error)
  PROVE  IsRun(r, ps, rs) /\ r.status \notin {"running", "cancelling"}
<1>1. PICK compared : compared = Git!Compared(run0.headCommitAtStart, head)
  OBVIOUS
<1>2. r = [run0 EXCEPT !.status = status, !.duration = took,
                       !.headCommitAtEnd = head,
                       !.headComparison = compared,
                       !.exitCode = exit.code, !.signal = exit.signal,
                       !.forced = forced, !.error = error]
  BY <1>1 DEF Git!Completed
<1>3. /\ r.preset = run0.preset /\ r.status = status
      /\ r.headCommitAtStart = run0.headCommitAtStart
      /\ r.duration = took
      /\ r.headCommitAtEnd = head /\ r.headComparison = compared
      /\ r.exitCode = exit.code /\ r.signal = exit.signal
      /\ r.forced = forced /\ r.error = error
      /\ DOMAIN r = DOMAIN run0
  BY <1>2 DEF IsRun
<1>4. r.headComparison = Git!Compared(r.headCommitAtStart, r.headCommitAtEnd)
  BY <1>1, <1>3
<1>5. Git!ValidRun(r)
  <2>1. r.duration # Null /\ r.duration <= MaxDuration
    BY <1>3, InspectionAssumption
  <2> QED BY <1>3, <1>4, <2>1 DEF Git!ValidRun, ExitFits
<1>6. r.headComparison = "changed" => Git!Cardinality(rs) > 1
  <2>1. PICK start : start = run0.headCommitAtStart
    OBVIOUS
  <2>2. start \in rs \cup {Null}
    BY <2>1 DEF IsRun
  <2>3. ASSUME compared = "changed"
        PROVE  start \in rs /\ head \in rs /\ start # head
    BY <1>1, <2>1, <2>2, <2>3 DEF Git!Compared
  <2> QED BY <1>3, <2>3, TwoAreIn
<1> QED BY <1>3, <1>5, <1>6 DEF IsRun, ExitFits

\* A run whose process closed.
LEMMA ClosedIsRun ==
  ASSUME NEW run0, NEW ps, NEW rs, IsFiniteSet(rs), IsRun(run0, ps, rs),
         NEW took \in Nat, took <= MaxDuration,
         NEW head \in rs \cup {Null}, NEW exit \in Git!Exits,
         NEW reason \in {Null, "cancelled", "timed_out"},
         NEW forced \in BOOLEAN, forced => reason # Null,
         NEW r, r = Git!Closed(run0, took, head, exit, reason, forced)
  PROVE  IsRun(r, ps, rs) /\ r.status \notin {"running", "cancelling"}
<1>1. /\ Null \notin {0, 1, "SIGTERM"} /\ Null # "invalid_result"
  BY InspectionAssumption
<1>2. PICK status : status = Git!ClosedStatus(exit, reason)
  OBVIOUS
<1>3. PICK error : error = IF status = "error" THEN "invalid_result" ELSE Null
  OBVIOUS
<1>4. r = Git!Completed(run0, took, head, status, exit, forced, error)
  BY <1>2, <1>3 DEF Git!Closed
<1>5. CASE reason # Null
  <2>1. status = reason /\ status \in {"cancelled", "timed_out"}
    BY <1>2, <1>5 DEF Git!ClosedStatus
  <2>2. error = Null
    BY <1>3, <2>1
  <2>3. ExitFits(status, exit, forced, error)
    BY <2>1, <2>2 DEF ExitFits
  <2> QED BY <1>4, <2>3, CompletedIsRun
<1>6. CASE reason = Null
  <2>1. ~forced
    BY <1>6
  <2>2. status \in {"passed", "failed", "error"}
    BY <1>2, <1>6 DEF Git!ClosedStatus
  <2>3. status = "passed" => exit.code = 0 /\ exit.signal = Null
    BY <1>2, <1>6 DEF Git!ClosedStatus
  <2>4. status = "failed" =>
          {exit.code, exit.signal} # {Null} /\ exit.code # 0
    BY <1>1, <1>2, <1>6 DEF Git!ClosedStatus, Git!Exits
  <2>5. (status = "error") <=> (error # Null)
    BY <1>1, <1>3
  <2>6. ExitFits(status, exit, forced, error)
    BY <2>1, <2>2, <2>3, <2>4, <2>5 DEF ExitFits
  <2> QED BY <1>4, <2>6, CompletedIsRun
<1> QED BY <1>5, <1>6

\* What is told of the verification of a repository.
VerificationOf(ps, rep, r) ==
  [of |-> "verification",
   status |-> IF ps = Null THEN "unconfigured"
              ELSE IF rep.status \in {"not_repository", "error"}
              THEN rep.status
              ELSE IF ps = {} THEN "no_presets" ELSE "ready",
   configured |-> ps # Null,
   root |-> IF ps = Null \/ rep.status = "not_repository" THEN Null
            ELSE rep.root,
   presets |-> IF ps = Null \/ rep.status \in {"not_repository", "error"}
               THEN {} ELSE ps,
   run |-> IF ps = Null \/ rep.status \in {"not_repository", "error"} \/ ps = {}
           THEN Null ELSE r,
   error |-> IF ps # Null /\ rep.status = "error"
             THEN "repository_unavailable" ELSE Null]

\* The observation of the verification is put together from these.
LEMMA VerificationObservedIsOf ==
  Git!VerificationObserved = VerificationOf(presets, repository, run)
<1>1. CASE presets = Null
  BY <1>1 DEF Git!VerificationObserved, Git!Verification, VerificationOf
<1>2. CASE presets # Null /\ repository.status = "not_repository"
  BY <1>2 DEF Git!VerificationObserved, Git!Verification, VerificationOf
<1>3. CASE presets # Null /\ repository.status = "error"
  BY <1>3 DEF Git!VerificationObserved, Git!Verification, VerificationOf
<1>4. CASE /\ presets # Null
           /\ repository.status \notin {"not_repository", "error"}
  BY <1>4 DEF Git!VerificationObserved, Git!Verification, VerificationOf
<1> QED BY <1>1, <1>2, <1>3, <1>4

\* The observation of a verification is valid, whatever run it shows.
LEMMA VerificationFits ==
  ASSUME NEW ps, NEW rep, IsObserved(rep), NEW rs, NEW hs,
         NEW r, r # Null => IsRun(r, ps, rs),
         NEW o, o = VerificationOf(ps, rep, r)
  PROVE  Fits(o, hs, rs)
<1>1. Null # "repository_unavailable"
  BY InspectionAssumption
<1>2. rep.status \in {"ready", "not_repository", "error"}
  BY DEF IsObserved
<1>3. rep.status = "ready" => rep.root # Null
  BY DEF IsObserved, Git!ValidRepository
<1>4. PICK status, configured, root, advertised, shown, error :
        /\ o = [of |-> "verification", status |-> status,
                configured |-> configured, root |-> root,
                presets |-> advertised, run |-> shown, error |-> error]
        /\ status = IF ps = Null THEN "unconfigured"
                    ELSE IF rep.status \in {"not_repository", "error"}
                    THEN rep.status
                    ELSE IF ps = {} THEN "no_presets" ELSE "ready"
        /\ configured <=> ps # Null
        /\ root = IF ps = Null \/ rep.status = "not_repository" THEN Null
                  ELSE rep.root
        /\ advertised
             = IF ps = Null \/ rep.status \in {"not_repository", "error"}
               THEN {} ELSE ps
        /\ shown = IF \/ ps = Null
                      \/ rep.status \in {"not_repository", "error"}
                      \/ ps = {}
                   THEN Null ELSE r
        /\ error = IF ps # Null /\ rep.status = "error"
                   THEN "repository_unavailable" ELSE Null
  BY ZenonT(60) DEF VerificationOf
<1>5. /\ o.of = "verification" /\ o.status = status
      /\ o.configured = configured /\ o.root = root
      /\ o.presets = advertised /\ o.run = shown /\ o.error = error
  BY <1>4
<1>6. shown # Null =>
        /\ IsRun(shown, ps, rs) /\ advertised = ps /\ status = "ready"
  BY <1>2, <1>4
<1>7. Git!ValidVerification(o)
  BY <1>1, <1>2, <1>3, <1>4, <1>5, <1>6 DEF Git!ValidVerification, IsRun
<1>8. EvidenceOf(o, hs, rs)
  BY <1>5, <1>6 DEF EvidenceOf, IsRun
<1>9. DOMAIN o = {"of", "status", "configured", "root", "presets", "run",
                  "error"}
  BY <1>4
<1> QED BY <1>5, <1>7, <1>8, <1>9 DEF Fits, HasForm, Git!Coherent

\* A message may hold less than the answer, and stays one.
LEMMA ShortenedDiffFits ==
  ASSUME NEW o, NEW hs, NEW rs, Fits(o, hs, rs), o.of = "diff",
         o.status = "ready", NEW s, s = Git!Shortened(o)
  PROVE  Fits(s, hs, rs)
<1>1. PICK none : none = << >>
  OBVIOUS
<1>2. s = [o EXCEPT !.status = "too_large", !.sections = none, !.error = Null]
  BY <1>1 DEF Git!Shortened
<1>3. DOMAIN o = {"of", "status", "root", "headCommit", "path",
                  "previousPath", "sections", "error"}
  BY DEF Fits, HasForm
<1>4. PICK root, head, path, previous, status :
        /\ root = o.root /\ head = o.headCommit /\ path = o.path
        /\ previous = o.previousPath /\ status = "too_large"
  OBVIOUS
<1>5. root # Null
  BY <1>4 DEF Fits, Git!Coherent, Git!ValidDiff
<1>6. /\ s.of = "diff" /\ s.status = status /\ s.root = root
      /\ s.headCommit = head /\ s.path = path /\ s.previousPath = previous
      /\ s.sections = none /\ s.error = Null
      /\ DOMAIN s = {"of", "status", "root", "headCommit", "path",
                     "previousPath", "sections", "error"}
      /\ s = [x \in DOMAIN s |-> s[x]]
  BY <1>2, <1>3, <1>4
<1>7. s = [of |-> "diff", status |-> status, root |-> root,
           headCommit |-> head, path |-> path, previousPath |-> previous,
           sections |-> none, error |-> Null]
  BY <1>6
<1>8. PICK error : error = Null
  OBVIOUS
<1>9. s = Git!Diff(status, root, head, path, previous, <<>>, error)
  BY <1>1, <1>7, <1>8 DEF Git!Diff
<1> QED BY <1>4, <1>5, <1>8, <1>9, EmptyDiffFits

\* A history too large to send is replaced by an error.
LEMMA ShortenedHistoryFits ==
  ASSUME NEW o, NEW hs, NEW rs, Fits(o, hs, rs), o.of = "history",
         o.status = "ready", NEW s, s = Git!Shortened(o)
  PROVE  Fits(s, hs, rs)
<1>1. PICK none, cut, status, error :
        /\ none = << >> /\ cut = FALSE
        /\ status = "error" /\ error = "invalid_output"
  OBVIOUS
<1>2. s = [o EXCEPT !.status = status, !.commits = none, !.truncated = cut,
                    !.error = error]
  BY <1>1 DEF Git!Shortened
<1>3. DOMAIN o = {"of", "status", "root", "headCommit", "commits",
                  "truncated", "error"}
  BY DEF Fits, HasForm
<1>4. PICK root, head : root = o.root /\ head = o.headCommit
  OBVIOUS
<1>5. root # Null
  BY <1>4 DEF Fits, Git!Coherent, Git!ValidHistory
<1>6. /\ s.of = "history" /\ s.status = status /\ s.root = root
      /\ s.headCommit = head /\ s.commits = none /\ s.truncated = cut
      /\ s.error = error
      /\ DOMAIN s = {"of", "status", "root", "headCommit", "commits",
                     "truncated", "error"}
      /\ s = [x \in DOMAIN s |-> s[x]]
  BY <1>2, <1>3, <1>4
<1>7. s = [of |-> "history", status |-> status, root |-> root,
           headCommit |-> head, commits |-> none, truncated |-> cut,
           error |-> error]
  BY <1>6
<1>8. s = Git!History(status, root, head, <<>>, cut, error)
  BY <1>1, <1>7 DEF Git!History
<1>9. error # Null
  BY <1>1, InspectionAssumption
<1>10. status \in {"error", "empty", "not_repository"}
  BY <1>1
<1> QED BY <1>1, <1>5, <1>8, <1>9, <1>10, EmptyHistoryFits

\* So is a verification.
LEMMA ShortenedVerificationFits ==
  ASSUME NEW o, NEW hs, NEW rs, Fits(o, hs, rs), o.of = "verification",
         o.status = "ready", NEW s, s = Git!Shortened(o)
  PROVE  Fits(s, hs, rs)
<1>1. s = [o EXCEPT !.status = "error", !.presets = {}, !.run = Null,
                    !.error = "invalid_state"]
  BY DEF Git!Shortened
<1>2. DOMAIN o = {"of", "status", "configured", "root", "presets", "run",
                  "error"}
  BY DEF Fits, HasForm
<1>3. /\ s.of = "verification" /\ s.status = "error"
      /\ s.presets = {} /\ s.run = Null /\ s.error = "invalid_state"
      /\ DOMAIN s = DOMAIN o
  BY <1>1, <1>2
<1>4. s.error # Null
  BY <1>3, InspectionAssumption
<1>5. Git!ValidVerification(s)
  BY <1>3, <1>4 DEF Git!ValidVerification
<1>6. EvidenceOf(s, hs, rs)
  BY <1>3 DEF EvidenceOf
<1> QED BY <1>2, <1>3, <1>5, <1>6 DEF Fits, HasForm, Git!Coherent

\* What is sent of an answer is an answer.
LEMMA SentFits ==
  ASSUME NEW o, NEW hs, NEW rs, Fits(o, hs, rs), NEW s \in Git!Sent(o)
  PROVE  Fits(s, hs, rs)
<1>1. \/ s = o
      \/ /\ s = Git!Shortened(o) /\ o.status = "ready"
         /\ o.of \in {"diff", "history", "verification"}
  BY DEF Git!Sent
<1> QED BY <1>1, ShortenedDiffFits, ShortenedHistoryFits,
           ShortenedVerificationFits

\* The answer where the repository is not ready.
LEMMA UnavailableFits ==
  ASSUME IsObserved(repository), repository.status # "ready",
         NEW op \in {"changes", "diff", "history"}, NEW path,
         NEW hs, NEW rs, NEW o, o = Git!Unavailable(op, path)
  PROVE  Fits(o, hs, rs)
<1>1. /\ repository.status \in {"not_repository", "error"}
      /\ repository.headCommit = Null
  BY DEF IsObserved, Git!ValidRepository
<1>2. PICK unavailable, failed, none, root :
        /\ unavailable = "repository_unavailable" /\ failed = "error"
        /\ none = "not_repository" /\ root = repository.root
  OBVIOUS
<1>3. unavailable # Null
  BY <1>2, InspectionAssumption
<1>4. PICK null, cut : null = Null /\ cut = FALSE
  OBVIOUS
<1>5. CASE op = "changes"
  <2>1. \/ o = Git!UnavailableChanges(none, null, null)
        \/ o = Git!UnavailableChanges(failed, root, unavailable)
    BY <1>2, <1>4, <1>5 DEF Git!Unavailable
  <2>2. none \in {"error", "not_repository"} /\ failed \in {"error", "not_repository"}
    BY <1>2
  <2>3. o.of = "changes" /\ o.status # "ready" /\ Git!ValidChanges(o)
    BY <1>2, <1>3, <1>4, <2>1, <2>2, NoChangesAreValid
  <2> QED BY <2>3 DEF Fits, Git!Coherent, EvidenceOf, HasForm
<1>6. CASE op = "diff"
  <2>1. \/ o = Git!Diff(none, null, null, path, null, <<>>, null)
        \/ o = Git!Diff(failed, root, null, path, null, <<>>, unavailable)
    BY <1>2, <1>4, <1>6 DEF Git!Unavailable, Git!DiffError
  <2>2. /\ none # "ready" /\ failed # "ready"
        /\ (none = "error") <=> (null # Null)
        /\ (failed = "error") <=> (unavailable # Null)
        /\ null = Null => /\ null = Null /\ null = Null
                          /\ none \in {"not_repository", "error"}
        /\ failed \in {"not_repository", "error"}
        /\ failed # "not_repository"
    BY <1>2, <1>3, <1>4
  <2>3. CASE o = Git!Diff(none, null, null, path, null, <<>>, null)
    BY <1>4, <2>2, <2>3, EmptyDiffFits
  <2>4. CASE o = Git!Diff(failed, root, null, path, null, <<>>, unavailable)
    BY <1>4, <2>2, <2>4, EmptyDiffFits
  <2> QED BY <2>1, <2>3, <2>4
<1>7. CASE op = "history"
  <2>1. \/ o = Git!History(none, null, null, <<>>, cut, null)
        \/ o = Git!History(failed, root, null, <<>>, cut, unavailable)
    BY <1>1, <1>2, <1>4, <1>7 DEF Git!Unavailable, Git!HistoryError
  <2>2. /\ none \in {"error", "empty", "not_repository"}
        /\ failed \in {"error", "empty", "not_repository"}
        /\ (none = "error") <=> (null # Null)
        /\ (failed = "error") <=> (unavailable # Null)
        /\ none # "empty" /\ failed # "empty" /\ failed # "not_repository"
        /\ none # "error"
    BY <1>2, <1>3, <1>4
  <2>3. CASE o = Git!History(none, null, null, <<>>, cut, null)
    BY <1>4, <2>2, <2>3, EmptyHistoryFits
  <2>4. CASE o = Git!History(failed, root, null, <<>>, cut, unavailable)
    BY <1>4, <2>2, <2>4, EmptyHistoryFits
  <2> QED BY <2>1, <2>3, <2>4
<1> QED BY <1>5, <1>6, <1>7

\* A command that fails has a reason.
LEMMA FailureIsTold ==
  ASSUME NEW child, NEW code, code = Git!FailureCode(child)
  PROVE  code # Null
<1>1. code \in {"git_unavailable", "timeout", "invalid_output"}
  BY DEF Git!FailureCode
<1> QED BY <1>1, InspectionAssumption

\* The answer when a command could not be read.
LEMMA FailedFits ==
  ASSUME RequestOK, inspection.op # "idle", NEW code, code # Null,
         NEW o, o = Git!Failed(code)
  PROVE  /\ Fits(o, heads, ran)
         /\ inspection.op = "refresh" => o.of = "repository"
<1>1. PICK root, error, none, ready, large :
        /\ root = "root" /\ error = "error" /\ none = Null
        /\ ready = "ready" /\ large = "too_large"
  OBVIOUS
<1>2. root # Null
  BY <1>1, InspectionAssumption
<1>3. CASE inspection.op = "refresh"
  <2>1. PICK top \in {Null, "root"}, worktree \in {"main", "unknown"} :
               o = Git!RepositoryError(top, worktree, code)
    BY <1>3 DEF Git!Failed
  <2>2. IsObserved(o) /\ o.status # "ready"
    BY <2>1, RepositoryErrorIsObserved
  <2>3. Fits(o, heads, ran)
    BY <2>2, ObservedFits
  <2> QED BY <2>2, <2>3 DEF IsObserved
<1>4. CASE inspection.op = "history"
  <2>1. PICK known : known = inspection.known
    OBVIOUS
  <2>2. IsObserved(known) /\ known.status = "ready"
    BY <1>4, <2>1 DEF RequestOK
  <2>3. known.root # Null
    BY <2>2 DEF IsObserved, Git!ValidRepository
  <2>4. PICK top, head, cut :
          top = known.root /\ head = known.headCommit /\ cut = FALSE
    OBVIOUS
  <2>5. o = Git!History(error, top, head, <<>>, cut, code)
    BY <1>1, <1>4, <2>1, <2>4 DEF Git!Failed, Git!HistoryError
  <2>6. /\ error \in {"error", "empty", "not_repository"}
        /\ (error = "error") <=> (code # Null)
        /\ error # "empty" /\ error # "not_repository"
    BY <1>1
  <2>7. Fits(o, heads, ran)
    BY <2>3, <2>4, <2>5, <2>6, EmptyHistoryFits
  <2> QED BY <1>4, <2>7
<1>5. CASE inspection.op = "changes"
  <2>1. o = Git!UnavailableChanges(error, root, code)
    BY <1>1, <1>5 DEF Git!Failed
  <2>2. error \in {"error", "not_repository"} /\ error = "error"
    BY <1>1
  <2>3. o.of = "changes" /\ o.status = error /\ Git!ValidChanges(o)
    BY <2>1, <2>2, NoChangesAreValid
  <2>4. Fits(o, heads, ran)
    BY <2>2, <2>3 DEF Fits, Git!Coherent, EvidenceOf, HasForm
  <2> QED BY <1>5, <2>4
<1>6. CASE inspection.op = "diff"
  <2>1. PICK selected, path :
          selected = inspection.selected /\ path = inspection.path
    OBVIOUS
  <2>2. \/ o = Git!Diff(error, root, none, path, none, <<>>, code)
        \/ o = Git!OfFile(large, selected, <<>>, none)
        \/ o = Git!OfFile(error, selected, <<>>, code)
    BY <1>1, <1>2, <1>6, <2>1 DEF Git!Failed, Git!DiffError
  <2>3. /\ error # "ready" /\ error # "not_repository"
        /\ (error = "error") <=> (code # Null)
    BY <1>1
  <2>4. /\ large # "ready" /\ large # "not_repository"
        /\ (large = "error") <=> (none # Null)
    BY <1>1
  <2>5. none = Null
    BY <1>1
  <2>6. CASE o = Git!Diff(error, root, none, path, none, <<>>, code)
    <3>1. Fits(o, heads, ran)
      BY <1>2, <2>3, <2>5, <2>6, EmptyDiffFits
    <3> QED BY <1>6, <3>1
  <2>7. CASE o = Git!OfFile(large, selected, <<>>, none)
    <3>1. large \notin {"ready", "not_repository"}
      BY <2>4
    <3>2. Fits(o, heads, ran)
      BY <2>4, <2>7, <3>1, EmptyFileFits
    <3> QED BY <1>6, <3>2
  <2>8. CASE o = Git!OfFile(error, selected, <<>>, code)
    <3>1. error \notin {"ready", "not_repository"}
      BY <2>3
    <3>2. Fits(o, heads, ran)
      BY <2>3, <2>8, <3>1, EmptyFileFits
    <3> QED BY <1>6, <3>2
  <2> QED BY <2>2, <2>6, <2>7, <2>8
<1> QED BY <1>3, <1>4, <1>5, <1>6 DEF RequestOK

\* The answer to what is read so far.
LEMMA ReadSoFarFits ==
  ASSUME RequestOK, inspection.op # "idle", NEW got,
         \A k \in DOMAIN got :
           IsPrinted(k, got[k], inspection.selected, heads),
         NEW o \in Git!ReadSoFar(got)
  PROVE  /\ Fits(o, heads, ran)
         /\ inspection.op = "refresh" => o.of = "repository"
         /\ inspection.op # "diff" => o.of # "diff"
<1>1. PICK selected : selected = inspection.selected
  OBVIOUS
<1>2. \A k \in DOMAIN got : IsPrinted(k, got[k], selected, heads)
  BY <1>1
<1>3. "head" \in DOMAIN got /\ got["head"].sound => got["head"].out \in heads
  BY <1>2 DEF IsPrinted
<1>4. StatusIsRead(got)
  BY <1>2 DEF IsPrinted, StatusIsRead
<1>5. CASE inspection.op = "refresh"
  <2>1. o \in Git!RepositoryRead(got)
    BY <1>5 DEF Git!ReadSoFar
  <2>2. IsObserved(o) /\ Fits(o, heads, ran)
    BY <1>3, <2>1, RepositoryReadFits
  <2> QED BY <1>5, <2>2 DEF IsObserved
<1>6. CASE inspection.op = "changes"
  <2>1. o \in Git!ChangesRead(got)
    BY <1>6 DEF Git!ReadSoFar
  <2>2. IsChanges(o, heads)
    BY <1>3, <1>4, <2>1, ChangesReadAreChanges
  <2> QED BY <1>6, <2>2, ChangesFit DEF IsChanges
<1>7. CASE inspection.op = "history"
  <2>1. PICK known : known = inspection.known
    OBVIOUS
  <2>2. IsObserved(known) /\ known.status = "ready"
    BY <1>7, <2>1 DEF RequestOK
  <2>3. o \in Git!HistoryRead(known, got)
    BY <1>7, <2>1 DEF Git!ReadSoFar
  <2>4. "log" \in DOMAIN got => IsPrinted("log", got["log"], selected, heads)
    BY <1>2
  <2>5. Fits(o, heads, ran)
    BY <2>2, <2>3, <2>4, HistoryReadFits
  <2>6. o.of = "history"
    BY <2>3 DEF Git!HistoryRead, Git!History, Git!HistoryError
  <2> QED BY <1>7, <2>5, <2>6
<1>8. CASE inspection.op = "diff" /\ selected = Null
  <2>1. PICK path : path = inspection.path
    OBVIOUS
  <2>2. PICK c \in Git!ChangesRead(got) : o \in Git!DiffRead(path, c)
    BY <1>1, <1>8, <2>1 DEF Git!ReadSoFar
  <2>3. IsChanges(c, heads)
    BY <1>3, <1>4, ChangesReadAreChanges
  <2> QED BY <1>8, <2>2, <2>3, DiffReadFits
<1>9. CASE inspection.op = "diff" /\ selected # Null
  <2>1. o \in Git!FileRead(selected, got)
    BY <1>1, <1>9 DEF Git!ReadSoFar
  <2>2. selected.headCommit \in heads
    BY <1>1, <1>9 DEF RequestOK, IsSelected
  <2> QED BY <1>2, <1>9, <2>1, <2>2, FileReadFits
<1> QED BY <1>5, <1>6, <1>7, <1>8, <1>9 DEF RequestOK

\* What a command prints just now.
LEMMA OutputsArePrinted ==
  ASSUME commit \in Nat, Git!HeadOf(commit) \in heads, NEW selected,
         selected = inspection.selected,
         NEW k, NEW x \in Git!Outputs(k)
  PROVE  IsPrinted(k, x, selected, heads)
<1>1. commit = 0 => Null \in heads
  BY DEF Git!HeadOf
<1>2. commit # 0 => commit \in heads
  BY DEF Git!HeadOf
<1>3. k = "head" /\ x.sound => x.out \in heads
  <2> SUFFICES ASSUME k = "head", x.sound
               PROVE  x.out \in heads
    OBVIOUS
  <2>1. x \in {Git!Malformed, IF commit = 0 THEN Git!Exited(128)
                              ELSE Git!Printed(commit)}
    BY DEF Git!Outputs
  <2>2. x # Git!Malformed
    BY DEF Git!Malformed
  <2> QED BY <1>1, <1>2, <2>1, <2>2 DEF Git!Exited, Git!Printed
<1>4. k = "status" /\ x.exit = 0 /\ x.sound => x.out \in Git!Statuses
  <2> SUFFICES ASSUME k = "status", x.exit = 0, x.sound
               PROVE  x.out \in Git!Statuses
    OBVIOUS
  <2>1. x \in {Git!Printed(files) : files \in Git!Statuses}
                \cup {Git!Malformed, Git!Exited(128)}
    BY DEF Git!Outputs
  <2>2. x # Git!Malformed /\ x # Git!Exited(128)
    BY DEF Git!Malformed, Git!Exited
  <2>3. PICK files \in Git!Statuses : x = Git!Printed(files)
    BY <2>1, <2>2
  <2> QED BY <2>3 DEF Git!Printed
<1>5. k = "log" /\ x.exit = 0 /\ x.sound =>
        \E c \in Nat \ {0} :
          /\ c \in heads
          /\ x.out = [n \in 1..Git!Min({c, MaxHistory + 1}) |-> c + 1 - n]
  <2> SUFFICES ASSUME k = "log", x.exit = 0, x.sound
               PROVE  \E c \in Nat \ {0} :
                        /\ c \in heads
                        /\ x.out = [n \in 1..Git!Min({c, MaxHistory + 1}) |->
                                      c + 1 - n]
    OBVIOUS
  <2>1. PICK log : log = [n \in 1..Git!Min({commit, MaxHistory + 1}) |->
                            commit + 1 - n]
    OBVIOUS
  <2>2. x \in {Git!Malformed, IF commit = 0 THEN Git!Exited(128)
                              ELSE Git!Printed(log)}
    BY <2>1 DEF Git!Outputs
  <2>3. x # Git!Malformed /\ x # Git!Exited(128)
    BY DEF Git!Malformed, Git!Exited
  <2>4. commit # 0 /\ x = Git!Printed(log)
    BY <2>2, <2>3
  <2>5. x.out = log
    BY <2>4 DEF Git!Printed
  <2>6. commit \in Nat \ {0} /\ commit \in heads
    BY <1>2, <2>4
  <2> QED BY <2>1, <2>5, <2>6
<1>6. k \in Sections /\ x.exit = 0 =>
        \E patch \in Git!Patches, base \in {Null, selected.headCommit} :
          /\ x.out = Git!Section(k, patch, base)
          /\ k = "combined" => base = selected.headCommit
  <2> SUFFICES ASSUME k \in Sections, x.exit = 0
               PROVE  \E patch \in Git!Patches,
                         base \in {Null, selected.headCommit} :
                        /\ x.out = Git!Section(k, patch, base)
                        /\ k = "combined" => base = selected.headCommit
    OBVIOUS
  <2>1. x \in {Git!SectionRead(k, patch) : patch \in Git!Patches}
                \cup {Git!Exited(128)}
    BY DEF Git!Outputs, Sections
  <2>2. x # Git!Exited(128)
    BY DEF Git!Exited
  <2>3. PICK patch \in Git!Patches : x = Git!SectionRead(k, patch)
    BY <2>1, <2>2
  <2>4. PICK base : base = IF k = "combined" THEN selected.headCommit ELSE Null
    OBVIOUS
  <2>5. x.out = Git!Section(k, patch, base)
    BY <2>3, <2>4 DEF Git!SectionRead, Git!Printed
  <2>6. base \in {Null, selected.headCommit}
    BY <2>4
  <2> QED BY <2>4, <2>5, <2>6
<1> QED BY <1>3, <1>4, <1>5, <1>6 DEF IsPrinted

\* An answer about a repository is an observation of it.
LEMMA RepositoryAnswerIsObserved ==
  ASSUME NEW o, NEW hs, NEW rs, Fits(o, hs, rs), o.of = "repository"
  PROVE  IsObserved(o)
BY DEF Fits, HasForm, Git!Coherent, IsObserved

\* An answer that is cut is about the same path.
LEMMA SentPath ==
  ASSUME NEW o, HasForm(o), PathFits(o), NEW s \in Git!Sent(o)
  PROVE  PathFits(s)
<1>1. CASE s = o
  BY <1>1
<1>2. CASE s # o /\ o.of = "diff"
  <2>1. s = [o EXCEPT !.status = "too_large", !.sections = << >>,
                      !.error = Null]
    BY <1>2 DEF Git!Sent, Git!Shortened
  <2>2. s.path = o.path
    BY <1>2, <2>1 DEF HasForm
  <2> QED BY <1>2, <2>2 DEF PathFits
<1>3. CASE s # o /\ o.of \in {"history", "verification"}
  <2>1. s.of = o.of
    BY <1>3 DEF Git!Sent, Git!Shortened, HasForm
  <2> QED BY <1>3, <2>1 DEF PathFits
<1> QED BY <1>1, <1>2, <1>3 DEF Git!Sent

\* What is read of a file is about its path.
LEMMA FileReadPath ==
  ASSUME NEW selected, NEW got, NEW o \in Git!FileRead(selected, got)
  PROVE  o.path = selected.file.path
<1>1. \E status, sections, error :
        o = Git!OfFile(status, selected, sections, error)
  BY DEF Git!FileRead, Git!NormalizeDiff
<1> QED BY <1>1 DEF Git!OfFile, Git!Diff

\* What the changes decide of a diff is about the path asked for.
LEMMA DiffReadPath ==
  ASSUME NEW path, NEW c, NEW o \in Git!DiffRead(path, c)
  PROVE  o.path = path
<1>1. CASE c.status # "ready"
  BY <1>1 DEF Git!DiffRead, Git!DiffError, Git!Diff
<1>2. CASE c.status = "ready" /\ Git!Named(c, path) = {}
  BY <1>2 DEF Git!DiffRead, Git!Diff
<1>3. CASE c.status = "ready" /\ Git!Named(c, path) # {}
  <2>1. PICK selected, got : selected = Git!Selected(c, path) /\ got = << >>
    OBVIOUS
  <2>2. o \in Git!FileRead(selected, got)
    BY <1>3, <2>1 DEF Git!DiffRead
  <2>3. PICK chosen : chosen = CHOOSE f \in Git!Named(c, path) : TRUE
    OBVIOUS
  <2>4. chosen \in Git!Named(c, path) /\ selected.file = chosen
    BY <1>3, <2>1, <2>3 DEF Git!Selected
  <2> QED BY <2>2, <2>4, FileReadPath DEF Git!Named
<1> QED BY <1>1, <1>2, <1>3

\* What is read so far is about the path asked for.
LEMMA ReadSoFarPath ==
  ASSUME RequestOK, inspection.op # "idle", NEW got,
         NEW o \in Git!ReadSoFar(got), inspection.op # "diff" => o.of # "diff"
  PROVE  PathFits(o)
<1>1. Git!ValidPath(inspection.path)
  BY DEF RequestOK
<1>2. CASE inspection.op = "diff" /\ inspection.selected = Null
  <2>1. PICK c \in Git!ChangesRead(got) : o \in Git!DiffRead(inspection.path, c)
    BY <1>2 DEF Git!ReadSoFar
  <2> QED BY <1>1, <2>1, DiffReadPath DEF PathFits
<1>3. CASE inspection.op = "diff" /\ inspection.selected # Null
  <2>1. o \in Git!FileRead(inspection.selected, got)
    BY <1>3 DEF Git!ReadSoFar
  <2>2. inspection.selected.file.path = inspection.path
    BY <1>3 DEF RequestOK
  <2> QED BY <1>1, <2>1, <2>2, FileReadPath DEF PathFits
<1> QED BY <1>2, <1>3 DEF PathFits

\* An answer ends the request, and is stored if it is of a repository.
LEMMA AnswerKeeps ==
  ASSUME NEW o, Fits(o, heads', ran'), PathFits(o),
         o.of = "repository" \/ IsObserved(repository), Git!Answer(o)
  PROVE  /\ answered' # Null =>
              Fits(answered', heads', ran') /\ PathFits(answered')
         /\ IsObserved(repository') /\ RequestOK'
<1>1. PICK told : told = answered'
  OBVIOUS
<1>2. told \in Git!Sent(o)
  BY <1>1 DEF Git!Answer
<1>3. PICK hs, rs : hs = heads' /\ rs = ran'
  OBVIOUS
<1>4. Fits(told, hs, rs)
  BY <1>2, <1>3, SentFits
<1>5. PICK stored1 : stored1 = IF o.of = "repository" THEN o ELSE repository
  OBVIOUS
<1>6. IsObserved(stored1)
  <2>1. CASE o.of = "repository"
    BY <1>3, <1>5, <2>1, RepositoryAnswerIsObserved
  <2>2. CASE o.of # "repository"
    BY <1>5, <2>2
  <2> QED BY <2>1, <2>2
<1>7. repository' = stored1
  BY <1>5 DEF Git!Answer
<1>8. inspection' = Git!Idle /\ inspection'.op = "idle"
  BY DEF Git!Answer, Git!Idle
<1>9. RequestOK'
  BY <1>8 DEF RequestOK
<1>10. PathFits(told)
  BY <1>2, SentPath DEF Fits
<1> QED BY <1>1, <1>3, <1>4, <1>6, <1>7, <1>9, <1>10

\* The runs stay as they are.
LEMMA RunsStay ==
  ASSUME RunOK, UNCHANGED commit, UNCHANGED <<inspects, presets, run, ran>>
  PROVE  RunOK'
BY DEF RunOK, Git!HeadOf

\* A request that reads on.
LEMMA ReadsOn ==
  ASSUME RequestOK, inspection.op # "idle", UNCHANGED heads,
         NEW next, next.op = inspection.op, next.known = inspection.known,
         DOMAIN next = {"op", "path", "known", "selected", "got"},
         \A k \in DOMAIN next.got :
           IsPrinted(k, next.got[k], next.selected, heads),
         next.path = inspection.path,
         next.selected # Null =>
           /\ IsSelected(next.selected, heads)
           /\ next.selected.file.path = next.path,
         inspection' = next
  PROVE  RequestOK'
BY DEF RequestOK

\* A request is made.
LEMMA AskKeepsGit ==
  ASSUME GitInv,
         NEW op \in {"refresh", "changes", "diff", "history", "verification"},
         NEW path, Git!Ask(op, path)
  PROVE  GitInv'
<1>1. /\ inspection.op = "idle"
      /\ heads' = {Git!HeadOf(commit)}
      /\ UNCHANGED commit /\ UNCHANGED <<inspects, presets, run, ran>>
  BY DEF Git!Ask, Git!Idle, Git!verificationVars
<1>2. IsObserved(repository) /\ RunOK
  BY <1>1 DEF GitInv
<1>3. RunOK'
  BY <1>1, <1>2, RunsStay
<1>4. commit' \in Nat /\ Git!HeadOf(commit') \in heads'
  BY <1>1 DEF GitInv, Git!HeadOf
<1>5. ASSUME NEW o, Fits(o, heads', ran'), PathFits(o), Git!Answer(o)
      PROVE  GitInv'
  <2>1. /\ answered' # Null =>
             Fits(answered', heads', ran') /\ PathFits(answered')
        /\ IsObserved(repository') /\ RequestOK'
    BY <1>2, <1>5, AnswerKeeps
  <2> QED BY <1>3, <1>4, <2>1 DEF GitInv
<1>6. CASE op = "verification"
  <2>1. Git!Answer(Git!VerificationObserved)
    BY <1>6 DEF Git!Ask
  <2>2. PICK o, rep, ps, r, hs, rs :
          /\ o = Git!VerificationObserved /\ rep = repository
          /\ ps = presets /\ r = run /\ hs = heads' /\ rs = ran'
    OBVIOUS
  <2>3. o = VerificationOf(ps, rep, r)
    BY <2>2, VerificationObservedIsOf
  <2>4. r # Null => IsRun(r, ps, rs)
    BY <1>1, <1>2, <2>2 DEF RunOK
  <2>5. IsObserved(rep)
    BY <1>2, <2>2
  <2>6. Fits(o, hs, rs)
    BY <2>3, <2>4, <2>5, VerificationFits
  <2>7. PathFits(o)
    BY <2>3 DEF VerificationOf, PathFits
  <2> QED BY <1>5, <2>1, <2>2, <2>6, <2>7
<1>7. CASE /\ op # "verification"
           /\ op = "refresh" \/ repository.status = "ready"
  <2>1. PICK known : known = IF op = "history" THEN repository ELSE Null
    OBVIOUS
  <2>2. /\ inspection' = [Git!Asked(op, path) EXCEPT !.known = known]
        /\ answered' = Null /\ UNCHANGED repository
    BY <1>7, <2>1 DEF Git!Ask
  <2>3. PICK none : none = << >>
    OBVIOUS
  <2>4. inspection' = [op |-> op, path |-> path, known |-> known,
                       selected |-> Null, got |-> none]
    BY <2>2, <2>3 DEF Git!Asked
  <2>5. /\ inspection'.op = op /\ inspection'.known = known
        /\ inspection'.selected = Null /\ inspection'.got = none
        /\ inspection'.path = path
        /\ DOMAIN inspection' = {"op", "path", "known", "selected", "got"}
    BY <2>4
  <2>6. op \in {"refresh", "changes", "diff", "history"}
    BY <1>7
  <2>7. \A k \in DOMAIN inspection'.got :
          IsPrinted(k, inspection'.got[k], inspection'.selected, heads')
    BY <2>3, <2>5
  <2>8. op = "history" => IsObserved(known) /\ known.status = "ready"
    BY <1>2, <1>7, <2>1
  <2>9. Git!ValidPath(path)
    BY DEF Git!Ask
  <2>10. RequestOK'
    BY <2>5, <2>6, <2>7, <2>8, <2>9 DEF RequestOK, Git!ValidPath
  <2> QED BY <1>2, <1>3, <1>4, <2>2, <2>10 DEF GitInv
<1>8. CASE /\ op \notin {"verification", "refresh"}
           /\ repository.status # "ready"
  <2>1. Git!Answer(Git!Unavailable(op, path))
    BY <1>8 DEF Git!Ask
  <2>2. PICK o, hs, rs : /\ o = Git!Unavailable(op, path)
                         /\ hs = heads' /\ rs = ran'
    OBVIOUS
  <2>3. op \in {"changes", "diff", "history"}
    BY <1>8
  <2>4. Fits(o, hs, rs)
    BY <1>2, <1>8, <2>2, <2>3, UnavailableFits
  <2>5. Git!ValidPath(path)
    BY DEF Git!Ask
  <2>6. o.of = "diff" => o.path = path
    BY <2>2, <2>3
       DEF Git!Unavailable, Git!UnavailableChanges, Git!Changes, Git!Diff,
           Git!DiffError, Git!History, Git!HistoryError
  <2> QED BY <1>5, <2>1, <2>2, <2>4, <2>5, <2>6 DEF PathFits
<1> QED BY <1>6, <1>7, <1>8

\* A command could not be read.
LEMMA CommandFailsKeepsGit ==
  ASSUME GitInv, NEW k, NEW child, Git!CommandFails(k, child)
  PROVE  GitInv'
<1>1. PICK code : code = Git!FailureCode(child)
  OBVIOUS
<1>2. PICK o : o = Git!Failed(code)
  OBVIOUS
<1>3. /\ Git!Answer(o) /\ UNCHANGED commit /\ UNCHANGED heads
      /\ UNCHANGED <<inspects, presets, run, ran>>
  BY <1>1, <1>2 DEF Git!CommandFails, Git!verificationVars
<1>4. inspection.op # "idle"
  BY DEF Git!CommandFails, Git!Awaited, Git!Idle, GitInv, RequestOK
<1>5. RequestOK /\ RunOK
  BY DEF GitInv
<1>6. code # Null
  BY <1>1, FailureIsTold
<1>7. /\ Fits(o, heads, ran)
      /\ inspection.op = "refresh" => o.of = "repository"
  BY <1>2, <1>4, <1>5, <1>6, FailedFits
<1>8. o.of = "repository" \/ IsObserved(repository)
  BY <1>7 DEF GitInv
<1>9. Fits(o, heads', ran')
  BY <1>3, <1>7
<1>10. PathFits(o)
  BY <1>2, <1>4, <1>5
     DEF PathFits, RequestOK, Git!Failed, Git!RepositoryError, Git!Observed,
         Git!HistoryError, Git!History, Git!UnavailableChanges, Git!Changes,
         Git!DiffError, Git!OfFile, Git!Diff
<1>11. /\ answered' # Null =>
            Fits(answered', heads', ran') /\ PathFits(answered')
       /\ IsObserved(repository') /\ RequestOK'
  BY <1>3, <1>8, <1>9, <1>10, AnswerKeeps
<1>12. RunOK'
  BY <1>3, <1>5, RunsStay
<1>13. commit' \in Nat /\ Git!HeadOf(commit') \in heads'
  BY <1>3 DEF GitInv, Git!HeadOf
<1> QED BY <1>11, <1>12, <1>13 DEF GitInv

\* A command ends, and what it printed is read.
LEMMA CommandEndsKeepsGit ==
  ASSUME GitInv, NEW k, Git!CommandEnds(k)
  PROVE  GitInv'
<1>1. PICK x \in Git!Outputs(k) : Git!Read(k, x)
  BY DEF Git!CommandEnds
<1>2. PICK got : got = [c \in DOMAIN inspection.got \cup {k} |->
                          IF c = k THEN x ELSE inspection.got[c]]
  OBVIOUS
<1>3. /\ UNCHANGED commit /\ UNCHANGED heads
      /\ UNCHANGED <<inspects, presets, run, ran>>
  BY <1>1 DEF Git!Read, Git!verificationVars
<1>4. RequestOK /\ RunOK
  BY DEF GitInv
<1>5. k \in Git!Awaited /\ inspection.op # "idle"
  BY <1>4 DEF Git!CommandEnds, Git!Awaited, RequestOK
<1>6. IsPrinted(k, x, inspection.selected, heads)
  BY OutputsArePrinted DEF GitInv
<1>7. \A c \in DOMAIN got :
        IsPrinted(c, got[c], inspection.selected, heads)
  <2> SUFFICES ASSUME NEW c \in DOMAIN got
               PROVE  IsPrinted(c, got[c], inspection.selected, heads)
    OBVIOUS
  <2>1. CASE c = k
    <3>1. got[c] = x
      BY <1>2, <2>1
    <3> QED BY <1>6, <2>1, <3>1
  <2>2. CASE c # k
    <3>1. c \in DOMAIN inspection.got /\ got[c] = inspection.got[c]
      BY <1>2, <2>2
    <3> QED BY <1>4, <1>5, <3>1 DEF RequestOK
  <2> QED BY <2>1, <2>2
<1>8. RunOK'
  BY <1>3, <1>4, RunsStay
<1>9. commit' \in Nat /\ Git!HeadOf(commit') \in heads'
  BY <1>3 DEF GitInv, Git!HeadOf
<1>10. CASE \E o \in Git!ReadSoFar(got) : Git!Answer(o)
  <2>1. PICK o \in Git!ReadSoFar(got) : Git!Answer(o)
    BY <1>10
  <2>2. /\ Fits(o, heads, ran)
        /\ inspection.op = "refresh" => o.of = "repository"
        /\ inspection.op # "diff" => o.of # "diff"
    BY <1>4, <1>5, <1>7, ReadSoFarFits
  <2>3. o.of = "repository" \/ IsObserved(repository)
    BY <2>2 DEF GitInv
  <2>4. Fits(o, heads', ran')
    BY <1>3, <2>2
  <2>5. PathFits(o)
    BY <1>4, <1>5, <2>2, ReadSoFarPath
  <2>6. /\ answered' # Null =>
             Fits(answered', heads', ran') /\ PathFits(answered')
        /\ IsObserved(repository') /\ RequestOK'
    BY <2>1, <2>3, <2>4, <2>5, AnswerKeeps
  <2> QED BY <1>8, <1>9, <2>6 DEF GitInv
<1>11. ASSUME NEW next, next.op = inspection.op,
              next.known = inspection.known,
              DOMAIN next = {"op", "path", "known", "selected", "got"},
              \A c \in DOMAIN next.got :
                IsPrinted(c, next.got[c], next.selected, heads),
              next.path = inspection.path,
              next.selected # Null =>
                /\ IsSelected(next.selected, heads)
                /\ next.selected.file.path = next.path,
              Git!GoesOn(next)
       PROVE  GitInv'
  <2>1. inspection' = next /\ UNCHANGED repository /\ UNCHANGED answered
    BY <1>11 DEF Git!GoesOn
  <2>2. RequestOK'
    BY <1>3, <1>4, <1>5, <1>11, <2>1, ReadsOn
  <2>3. \/ repository' = Null /\ inspection'.op = "refresh" /\ run' = Null
        \/ IsObserved(repository')
    BY <1>3, <1>11, <2>1 DEF GitInv
  <2>4. answered' # Null =>
          Fits(answered', heads', ran') /\ PathFits(answered')
    BY <1>3, <2>1 DEF GitInv
  <2> QED BY <1>8, <1>9, <2>2, <2>3, <2>4 DEF GitInv
<1>12. DOMAIN inspection = {"op", "path", "known", "selected", "got"}
  BY <1>4, <1>5 DEF RequestOK
<1>13. CASE /\ Git!ReadSoFar(got) = {}
            /\ inspection.op = "diff" /\ k = "sizes"
            /\ \E c \in Git!ChangesRead(got) :
                 Git!GoesOn([inspection EXCEPT !.got = << >>, !.selected =
                               Git!Selected(c, inspection.path)])
  <2>1. PICK c \in Git!ChangesRead(got) :
               Git!GoesOn([inspection EXCEPT !.got = << >>, !.selected =
                             Git!Selected(c, inspection.path)])
    BY <1>13
  <2>2. PICK path, selected, none :
          /\ path = inspection.path /\ selected = Git!Selected(c, path)
          /\ none = << >>
    OBVIOUS
  <2>3. inspection.selected = Null
    <3> SUFFICES ASSUME inspection.selected # Null
                 PROVE  FALSE
      OBVIOUS
    <3>1. PICK chosen, commands : /\ chosen = inspection.selected
                                /\ commands = Git!DiffCommands(chosen)
      OBVIOUS
    <3>2. k \in {"target"} \/ k \in Git!Range(commands)
      BY <1>5, <1>13, <3>1 DEF Git!Awaited, Git!Pending, Git!Idle
    <3>3. Git!Range(commands) \subseteq Sections
      <4>1. \/ commands = << >> \/ commands = <<"staged", "unstaged">>
            \/ \E l \in Sections : commands = <<l>>
        BY <3>1, CommandsOfFile
      <4> QED BY <4>1 DEF Git!Range, Sections
    <3> QED BY <1>13, <3>2, <3>3 DEF Sections
  <2>4. Git!DiffRead(path, c) = {}
    BY <1>13, <2>1, <2>2, <2>3 DEF Git!ReadSoFar
  <2>5. IsChanges(c, heads)
    <3>1. "head" \in DOMAIN got /\ got["head"].sound
            => got["head"].out \in heads
      BY <1>7 DEF IsPrinted
    <3>2. StatusIsRead(got)
      BY <1>7 DEF IsPrinted, StatusIsRead
    <3> QED BY <3>1, <3>2, ChangesReadAreChanges
  <2>6. c.status = "ready" /\ Git!Named(c, path) # {}
    BY <2>4, <2>5, UndecidedIsNamed
  <2>7. IsSelected(selected, heads) /\ selected.file.path = path
    BY <2>2, <2>5, <2>6, SelectedIsSelected
  <2>8. PICK next :
          next = [inspection EXCEPT !.got = none, !.selected = selected]
    OBVIOUS
  <2>9. Git!GoesOn(next)
    BY <2>1, <2>2, <2>8
  <2>10. /\ next.op = inspection.op /\ next.known = inspection.known
         /\ DOMAIN next = {"op", "path", "known", "selected", "got"}
         /\ next.got = none /\ next.selected = selected
         /\ next.path = path
    BY <1>12, <2>2, <2>8
  <2>11. \A l \in DOMAIN next.got :
           IsPrinted(l, next.got[l], next.selected, heads)
    BY <2>2, <2>10
  <2> QED BY <1>11, <2>2, <2>7, <2>9, <2>10, <2>11
<1>14. CASE Git!GoesOn([inspection EXCEPT !.got = got])
  <2>1. PICK next : next = [inspection EXCEPT !.got = got]
    OBVIOUS
  <2>2. /\ next.op = inspection.op /\ next.known = inspection.known
        /\ DOMAIN next = {"op", "path", "known", "selected", "got"}
        /\ next.got = got /\ next.selected = inspection.selected
        /\ next.path = inspection.path
    BY <1>12, <2>1
  <2>3. \A c \in DOMAIN next.got :
          IsPrinted(c, next.got[c], next.selected, heads)
    BY <1>7, <2>2
  <2>4. next.selected # Null =>
          /\ IsSelected(next.selected, heads)
          /\ next.selected.file.path = next.path
    BY <1>4, <1>5, <2>2 DEF RequestOK
  <2> QED BY <1>11, <1>14, <2>1, <2>2, <2>3, <2>4
<1> QED BY <1>1, <1>2, <1>10, <1>13, <1>14 DEF Git!Read

\* A run changes, and its clients are told.
LEMMA RunBecomesKeepsGit ==
  ASSUME GitInv, IsObserved(repository), UNCHANGED heads,
         NEW next, Git!RunBecomes(next), IsFiniteSet(ran'),
         IsRun(next, presets, ran'),
         next.status \in {"running", "cancelling"}
           => Git!HeadOf(commit) \in ran'
  PROVE  GitInv'
<1>1. /\ run' = next /\ UNCHANGED commit /\ UNCHANGED repository
      /\ UNCHANGED inspection /\ UNCHANGED presets
      /\ answered' \in Git!Sent(Git!VerificationObserved')
  BY DEF Git!RunBecomes
<1>2. PICK o, rep, ps, r, hs, rs :
        /\ o = Git!VerificationObserved' /\ rep = repository'
        /\ ps = presets' /\ r = run' /\ hs = heads' /\ rs = ran'
  OBVIOUS
<1>3. o = VerificationOf(ps, rep, r)
  <2>1. (Git!VerificationObserved = VerificationOf(presets, repository, run))'
    BY VerificationObservedIsOf, PTL
  <2>2. Git!VerificationObserved' = VerificationOf(presets', repository', run')
    BY <2>1
  <2> QED BY <1>2, <2>2
<1>4. r # Null => IsRun(r, ps, rs)
  BY <1>1, <1>2
<1>5. IsObserved(rep)
  BY <1>1, <1>2
<1>6. Fits(o, hs, rs)
  BY <1>3, <1>4, <1>5, VerificationFits
<1>7. PICK told : told = answered'
  OBVIOUS
<1>8. told \in Git!Sent(o)
  BY <1>1, <1>2, <1>7
<1>9. Fits(told, hs, rs)
  BY <1>6, <1>8, SentFits
<1>10. PathFits(told)
  <2>1. PathFits(o)
    BY <1>3 DEF VerificationOf, PathFits
  <2> QED BY <1>6, <1>8, <2>1, SentPath DEF Fits
<1>11. RunOK'
  BY <1>1 DEF RunOK, Git!HeadOf
<1>12. RequestOK'
  BY <1>1 DEF GitInv, RequestOK
<1>13. commit' \in Nat /\ Git!HeadOf(commit') \in heads'
  BY <1>1 DEF GitInv, Git!HeadOf
<1> QED BY <1>1, <1>2, <1>7, <1>9, <1>10, <1>11, <1>12, <1>13 DEF GitInv

\* A run that starts is one of a preset, at the HEAD observed.
LEMMA RunStartsKeepsGit ==
  ASSUME GitInv, Git!RunStarts
  PROVE  GitInv'
<1>1. IsObserved(repository) /\ UNCHANGED heads
  BY DEF GitInv, Git!RunStarts, Git!Idle
<1>2. PICK preset \in presets, head \in Git!ObservedHeads :
             Git!RunBecomes(Git!Running(preset, head))
  BY DEF Git!RunStarts
<1>3. PICK rs : rs = {Git!HeadOf(commit)}
  OBVIOUS
<1>4. ran' = rs /\ head \in rs \cup {Null}
  BY <1>3 DEF Git!RunStarts, Git!ObservedHeads
<1>5. IsFiniteSet(rs)
  BY <1>3, FS_Singleton
<1>6. PICK next, ps : next = Git!Running(preset, head) /\ ps = presets
  OBVIOUS
<1>7. IsRun(next, ps, rs)
  BY <1>4, <1>6, RunningIsRun
<1>8. Git!RunBecomes(next)
  BY <1>2, <1>6
<1>9. /\ IsFiniteSet(ran') /\ IsRun(next, presets, ran')
      /\ Git!HeadOf(commit) \in ran'
  BY <1>3, <1>4, <1>5, <1>6, <1>7
<1> QED BY <1>1, <1>8, <1>9, RunBecomesKeepsGit

\* What an active run is, with what is seen of HEAD meanwhile.
LEMMA ActiveIsRun ==
  ASSUME GitInv, Git!IsActive
  PROVE  /\ IsObserved(repository) /\ IsRun(run, presets, ran)
         /\ IsFiniteSet(ran) /\ Git!HeadOf(commit) \in ran
         /\ run.status \in {"running", "cancelling"}
BY DEF GitInv, RunOK, Git!IsActive

\* A run that is cancelled stays that run.
LEMMA RunIsCancelledKeepsGit ==
  ASSUME GitInv, Git!RunIsCancelled
  PROVE  GitInv'
<1>1. /\ IsObserved(repository) /\ IsRun(run, presets, ran)
      /\ IsFiniteSet(ran) /\ Git!HeadOf(commit) \in ran
      /\ run.status \in {"running", "cancelling"}
  BY ActiveIsRun DEF Git!RunIsCancelled
<1>2. PICK run0, ps, rs, next :
        /\ run0 = run /\ ps = presets /\ rs = ran
        /\ next = [run0 EXCEPT !.status = "cancelling"]
  OBVIOUS
<1>3. IsRun(next, ps, rs)
  BY <1>1, <1>2, CancellingIsRun
<1>4. Git!RunBecomes(next) /\ UNCHANGED heads /\ ran' = rs
  BY <1>2 DEF Git!RunIsCancelled
<1>5. /\ IsFiniteSet(ran') /\ IsRun(next, presets, ran')
      /\ Git!HeadOf(commit) \in ran'
  BY <1>1, <1>2, <1>3, <1>4
<1> QED BY <1>1, <1>4, <1>5, RunBecomesKeepsGit

\* A run that ends has an outcome that its process and the HEADs account
\* for.
LEMMA RunEndsKeepsGit ==
  ASSUME GitInv, Git!RunEnds
  PROVE  GitInv'
<1>1. /\ IsObserved(repository) /\ IsRun(run, presets, ran)
      /\ IsFiniteSet(ran) /\ Git!HeadOf(commit) \in ran
      /\ run.status \in {"running", "cancelling"}
  BY ActiveIsRun DEF Git!RunEnds
<1>2. PICK run0, ps, rs : run0 = run /\ ps = presets /\ rs = ran
  OBVIOUS
<1>3. UNCHANGED heads /\ ran' = rs
  BY <1>2 DEF Git!RunEnds
<1>4. ASSUME NEW next, Git!RunBecomes(next), IsRun(next, ps, rs)
      PROVE  GitInv'
  <2>1. /\ IsFiniteSet(ran') /\ IsRun(next, presets, ran')
        /\ Git!HeadOf(commit) \in ran'
    BY <1>1, <1>2, <1>3, <1>4
  <2> QED BY <1>1, <1>3, <1>4, <2>1, RunBecomesKeepsGit
<1>5. PICK head \in Git!ObservedHeads, took \in 0..(MaxDuration + 1) :
        \/ \E exit \in Git!Exits,
              reason \in IF run0.status = "cancelling" THEN {"cancelled"}
                         ELSE {Null, "timed_out"},
              forced \in BOOLEAN :
             /\ forced => reason # Null
             /\ Git!Publish(
                  Git!Closed(run0, took, head, exit, reason, forced))
        \/ \E code \in {"spawn_failed", "process_error"} :
             Git!Publish(
               Git!Completed(run0, took, head, "error",
                 [code |-> Null, signal |-> Null], FALSE, code))
  BY <1>2 DEF Git!RunEnds
<1>6. head \in rs \cup {Null} /\ IsFiniteSet(rs) /\ IsRun(run0, ps, rs)
  BY <1>1, <1>2 DEF Git!ObservedHeads
<1>7. took \in Nat
  BY InspectionAssumption
<1>8. ASSUME NEW status, NEW exit, NEW forced, NEW error,
             Git!Publish(
               Git!Completed(run0, took, head, status, exit, forced, error))
      PROVE  took <= MaxDuration
  <2>1. Git!Completed(run0, took, head, status, exit, forced, error).duration
          = took
    BY <1>6 DEF Git!Completed, IsRun
  <2> QED BY <1>8, <2>1 DEF Git!Publish
<1>9. ASSUME NEW exit \in Git!Exits,
             NEW reason \in IF run0.status = "cancelling" THEN {"cancelled"}
                            ELSE {Null, "timed_out"},
             NEW forced \in BOOLEAN, forced => reason # Null,
             Git!Publish(Git!Closed(run0, took, head, exit, reason, forced))
      PROVE  GitInv'
  <2>1. reason \in {Null, "cancelled", "timed_out"}
    OBVIOUS
  <2>2. PICK next : next = Git!Closed(run0, took, head, exit, reason, forced)
    OBVIOUS
  <2>3. took <= MaxDuration
    BY <1>8, <1>9 DEF Git!Closed
  <2>4. IsRun(next, ps, rs)
    BY <1>6, <1>7, <1>9, <2>1, <2>2, <2>3, ClosedIsRun
  <2>5. Git!RunBecomes(next)
    BY <1>9, <2>2 DEF Git!Publish
  <2> QED BY <1>4, <2>4, <2>5
<1>10. ASSUME NEW code \in {"spawn_failed", "process_error"},
              Git!Publish(
                Git!Completed(run0, took, head, "error",
                  [code |-> Null, signal |-> Null], FALSE, code))
       PROVE  GitInv'
  <2>1. PICK status, exit, forced :
          /\ status = "error" /\ exit = [code |-> Null, signal |-> Null]
          /\ forced = FALSE
    OBVIOUS
  <2>2. code # Null
    BY InspectionAssumption
  <2>3. ExitFits(status, exit, forced, code)
    BY <2>1, <2>2 DEF ExitFits
  <2>4. PICK next :
          next = Git!Completed(run0, took, head, status, exit, forced, code)
    OBVIOUS
  <2>5. Git!Publish(next)
    BY <1>10, <2>1, <2>4
  <2>6. took <= MaxDuration
    BY <1>8, <2>4, <2>5
  <2>7. IsRun(next, ps, rs)
    BY <1>6, <1>7, <2>3, <2>4, <2>6, CompletedIsRun
  <2>8. Git!RunBecomes(next)
    BY <2>5 DEF Git!Publish
  <2> QED BY <1>4, <2>7, <2>8
<1> QED BY <1>5, <1>9, <1>10

\* What HEAD named stays what it named.
LEMMA FitsLater ==
  ASSUME NEW o, NEW hs, NEW rs, Fits(o, hs, rs), NEW more, hs \subseteq more,
         NEW many, IsFiniteSet(many), rs \subseteq many
  PROVE  Fits(o, more, many)
<1>1. Git!Cardinality(rs) > 1 => Git!Cardinality(many) > 1
  BY MoreStayMany
<1>2. EvidenceOf(o, more, many)
  BY <1>1 DEF Fits, EvidenceOf
<1> QED BY <1>2 DEF Fits

\* What was printed was printed, however HEAD moves.
LEMMA PrintedLater ==
  ASSUME NEW k, NEW x, NEW selected, NEW hs, IsPrinted(k, x, selected, hs),
         NEW more, hs \subseteq more
  PROVE  IsPrinted(k, x, selected, more)
BY DEF IsPrinted

\* A run stays a run, however HEAD moves.
LEMMA RunLater ==
  ASSUME NEW r, NEW ps, NEW rs, IsRun(r, ps, rs),
         NEW many, IsFiniteSet(many), rs \subseteq many
  PROVE  IsRun(r, ps, many)
<1>1. Git!Cardinality(rs) > 1 => Git!Cardinality(many) > 1
  BY MoreStayMany
<1>2. {r.headCommitAtStart, r.headCommitAtEnd} \subseteq many \cup {Null}
  BY DEF IsRun
<1> QED BY <1>1, <1>2 DEF IsRun

\* The user moves HEAD, whatever is going on.
LEMMA HeadMovesKeepsGit ==
  ASSUME GitInv, Git!HeadMoves
  PROVE  GitInv'
<1>1. /\ UNCHANGED repository /\ UNCHANGED inspection /\ UNCHANGED answered
      /\ UNCHANGED presets /\ UNCHANGED run
  BY DEF Git!HeadMoves
<1>2. commit' \in Nat /\ Git!HeadOf(commit') \in heads'
  <2>1. MaxCommits \in Nat
    BY InspectionAssumption
  <2>2. PICK n \in 0..MaxCommits : commit' = n
    BY DEF Git!HeadMoves
  <2>3. commit' \in Nat
    BY <2>1, <2>2
  <2>4. Git!HeadOf(commit') \in heads'
    BY DEF Git!HeadMoves
  <2> QED BY <2>3, <2>4
<1>3. PICK hs, more, rs, many :
        hs = heads /\ more = heads' /\ rs = ran /\ many = ran'
  OBVIOUS
<1>4. hs \subseteq more
  BY <1>3 DEF Git!HeadMoves
<1>5. PICK head : head = Git!HeadOf(commit')
  OBVIOUS
<1>6. many = IF Git!IsActive THEN rs \cup {head} ELSE rs
  BY <1>3, <1>5 DEF Git!HeadMoves
<1>7. IsFiniteSet(rs)
  BY <1>3 DEF GitInv, RunOK
<1>8. rs \subseteq many /\ IsFiniteSet(many)
  BY <1>6, <1>7, FS_AddElement
<1>9. answered' # Null => Fits(answered', heads', ran') /\ PathFits(answered')
  <2>1. PICK o : o = answered
    OBVIOUS
  <2>2. o # Null => Fits(o, hs, rs) /\ PathFits(o)
    BY <1>3, <2>1 DEF GitInv
  <2>3. o # Null => Fits(o, more, many)
    BY <1>4, <1>8, <2>2, FitsLater
  <2> QED BY <1>1, <1>3, <2>1, <2>2, <2>3
<1>10. RequestOK'
  <2>1. RequestOK
    BY DEF GitInv
  <2>2. inspection.op # "idle" =>
          \A k \in DOMAIN inspection.got :
            IsPrinted(k, inspection.got[k], inspection.selected, heads')
    <3> SUFFICES ASSUME inspection.op # "idle",
                        NEW k \in DOMAIN inspection.got
                 PROVE  IsPrinted(k, inspection.got[k],
                                  inspection.selected, heads')
      OBVIOUS
    <3>1. PICK x, selected :
            x = inspection.got[k] /\ selected = inspection.selected
      OBVIOUS
    <3>2. IsPrinted(k, x, selected, hs)
      BY <1>3, <2>1, <3>1 DEF RequestOK
    <3>3. IsPrinted(k, x, selected, more)
      BY <1>4, <3>2, PrintedLater
    <3> QED BY <1>3, <3>1, <3>3
  <2>3. inspection.op # "idle" /\ inspection.selected # Null
          => IsSelected(inspection.selected, heads')
    BY <1>3, <1>4, <2>1 DEF RequestOK, IsSelected
  <2> QED BY <1>1, <2>1, <2>2, <2>3 DEF RequestOK
<1>11. RunOK'
  <2>1. ASSUME run # Null
        PROVE  IsRun(run, presets, ran')
    <3>1. PICK r, ps : r = run /\ ps = presets
      OBVIOUS
    <3>2. IsRun(r, ps, rs)
      BY <1>3, <2>1, <3>1 DEF GitInv, RunOK
    <3>3. IsRun(r, ps, many)
      BY <1>8, <3>2, RunLater
    <3> QED BY <1>3, <3>1, <3>3
  <2>2. ASSUME run # Null, run.status \in {"running", "cancelling"}
        PROVE  Git!HeadOf(commit') \in ran'
    BY <1>3, <1>5, <1>6, <2>2 DEF Git!IsActive
  <2> QED BY <1>1, <1>3, <1>8, <2>1, <2>2 DEF RunOK
<1> QED BY <1>1, <1>2, <1>9, <1>10, <1>11 DEF GitInv

\* A session starts with its first refresh, and no run.
LEMMA GitStarts ==
  ASSUME Git!InspectionInit
  PROVE  GitInv
<1>1. /\ commit \in 0..1 /\ heads = {Git!HeadOf(commit)}
      /\ repository = Null /\ answered = Null /\ run = Null /\ ran = {}
      /\ inspection = Git!Asked("refresh", Null)
  BY DEF Git!InspectionInit
<1>2. PICK none : none = << >>
  OBVIOUS
<1>3. inspection = [op |-> "refresh", path |-> Null, known |-> Null,
                    selected |-> Null, got |-> none]
  BY <1>1, <1>2 DEF Git!Asked
<1>4. /\ inspection.op = "refresh" /\ inspection.selected = Null
      /\ inspection.got = none /\ inspection.path = Null
      /\ DOMAIN inspection = {"op", "path", "known", "selected", "got"}
  BY <1>3
<1>5. RequestOK
  <2>1. Git!ValidPath(Null)
    BY InspectionAssumption DEF Git!ValidPath
  <2> QED BY <1>2, <1>4, <2>1 DEF RequestOK
<1>6. RunOK
  BY <1>1, FS_EmptySet DEF RunOK
<1> QED BY <1>1, <1>4, <1>5, <1>6 DEF GitInv

\* Every step of a session's inspections and runs keeps the invariant.
LEMMA GitStepKeeps ==
  ASSUME GitInv, Git!InspectionNext
  PROVE  GitInv'
<1>1. ASSUME NEW op \in {"refresh", "changes", "diff", "history",
                         "verification"},
             NEW path \in Paths \cup {Null}, Git!Ask(op, path)
      PROVE  GitInv'
  BY <1>1, AskKeepsGit
<1>2. ASSUME NEW k \in Git!Awaited, Git!CommandEnds(k)
      PROVE  GitInv'
  BY <1>2, CommandEndsKeepsGit
<1>3. ASSUME NEW k \in Git!Awaited, NEW child, Git!CommandFails(k, child)
      PROVE  GitInv'
  BY <1>3, CommandFailsKeepsGit
<1>4. CASE Git!RunStarts
  BY <1>4, RunStartsKeepsGit
<1>5. CASE Git!RunIsCancelled
  BY <1>5, RunIsCancelledKeepsGit
<1>6. CASE Git!RunEnds
  BY <1>6, RunEndsKeepsGit
<1>7. CASE Git!HeadMoves
  BY <1>7, HeadMovesKeepsGit
<1> QED BY <1>1, <1>2, <1>3, <1>4, <1>5, <1>6, <1>7 DEF Git!InspectionNext

\* The inductive invariant of the inspection of repositories.
LEMMA GitInvariance == WorkspaceSpec => []GitInv
<1>1. WorkspaceInit => GitInv
  BY GitStarts DEF WorkspaceInit
<1>2. ASSUME GitInv, [WorkspaceNext]_workspaceVars
      PROVE  GitInv'
  <2>1. CASE Git!InspectionNext
    BY <1>2, <2>1, GitStepKeeps
  <2>2. CASE UNCHANGED gitVars
    <3>1. /\ commit' = commit /\ repository' = repository
          /\ inspection' = inspection /\ heads' = heads
          /\ answered' = answered /\ presets' = presets /\ run' = run
          /\ ran' = ran
      BY <2>2 DEF gitVars
    <3>2. RequestOK'
      BY <1>2, <3>1 DEF GitInv, RequestOK
    <3>3. RunOK'
      BY <1>2, <3>1 DEF GitInv, RunOK, Git!HeadOf
    <3>4. Git!HeadOf(commit') \in heads'
      BY <1>2, <3>1 DEF GitInv, Git!HeadOf
    <3> QED BY <1>2, <3>1, <3>2, <3>3, <3>4 DEF GitInv
  <2> QED BY <1>2, <2>1, <2>2
          DEF WorkspaceNext, QueueMoves, GitMoves, ContextMoves,
              DefinitionMoves, workspaceVars
<1> QED BY <1>1, <1>2, PTL DEF WorkspaceSpec

\* An answer about a repository or the control context satisfies the schema
\* its browser checks: an answer put together from inconsistent readings
\* would be dropped (packages/contracts/src/protocol.ts).  An answer that
\* shows a path with a leading backslash satisfies all but the rule for
\* paths.
THEOREM ObservationsFit == WorkspaceSpec => []ObservationsAreValid
<1>1. ASSUME GitInv
      PROVE  Git!ObservationsAreValid
  <2> SUFFICES ASSUME answered # Null
               PROVE  /\ Git!Coherent(answered)
                      /\ Git!Shown(answered) \cap Backslashed = {}
                           => Git!Valid(answered)
    BY DEF Git!ObservationsAreValid
  <2>1. Git!Coherent(answered) /\ PathFits(answered)
    BY <1>1 DEF GitInv, Fits
  <2>2. Git!Shown(answered) \cap Backslashed = {}
          => \A path \in Git!Shown(answered) : Git!ValidPath(path)
    BY DEF Git!ValidPath
  <2> QED BY <2>1, <2>2 DEF PathFits, Git!Valid, Git!ValidPaths
<1> QED BY <1>1, GitInvariance, ContextAnswersAreValid, PTL
        DEF ObservationsAreValid

\* A ready answer about a repository is evidence of a commit HEAD named while
\* it was put together, and a run that ended names commits of its time
\* (inspectGitChanges, inspectGitDiff, inspectGitHistory and
\* completeVerificationRun).
THEOREM EvidenceStaysCurrent == WorkspaceSpec => []EvidenceIsCurrent
<1>1. GitInv => EvidenceIsCurrent
  BY DEF GitInv, Fits, EvidenceOf, EvidenceIsCurrent, Git!EvidenceIsCurrent
<1> QED BY <1>1, GitInvariance, PTL
==============================================================================
