------------------------ MODULE WorkspaceDefinition ------------------------
(***************************************************************************)
(* The workspace a configuration defines: what its schema asks of the      *)
(* references in it, how the server makes its paths canonical before it    *)
(* stores it, and how it validates it again whenever it reads it, while    *)
(* directories are moved and linked, files come and go, sessions end and   *)
(* the server restarts with other presets.                                 *)
(*                                                                         *)
(* A directory is a name of the root: a directory, a link to another name, *)
(* or missing.  A path is a directory's name and a leaf in it.  Labels,    *)
(* formats and the limits on the number of entries are left out, and so    *)
(* are the revisions, which PaciumConfig has.                              *)
(***************************************************************************)
EXTENDS Naturals, FiniteSets, SequencesExt

CONSTANTS
  Directories,       \* names
  Leaves,            \* names of files
  DataHome,          \* the directory with the data directory
  VerificationHome,  \* the directory with the verification configuration
  VerificationFile,  \* its repositories: their roots and presets, in order
  Drafts,            \* the workspaces that are proposed
  Sessions,
  LaunchPresets,
  MaxEvents,         \* bound: changes of the file system, restarts
  Null

VARIABLES
  directory,    \* what each name is
  leaf,         \* what each leaf of each directory is
  live,         \* the sessions of this server
  launchable,   \* the launch presets of this server
  catalog,      \* the verification presets of each canonical root
  stored,       \* the workspace in pacium.json, or Null
  disturbed,    \* something stored names is not what it was
  events

fileSystem == <<directory, leaf>>
serverVars == <<live, launchable, catalog>>
definitionVars == <<fileSystem, serverVars, stored, disturbed, events>>

-----------------------------------------------------------------------------
(* PaciumWorkspaceSchema.                                                  *)

Files == Directories \X Leaves

SlotBindings ==
  [type : {"session"}, session : STRING]
    \cup [type : {"launch_preset"}, preset : STRING,
          repository : STRING \cup {Null}]

Methods ==
  [id : STRING, type : {"answer_file"}, path : Files, role : {Null}]
    \cup [id : STRING, type : {"role_prompt"}, path : {Null},
          role : {"meta", "orchestrator"}]

Workspaces ==
  [repositories : Seq([id : STRING, root : Directories,
                       presets : SUBSET STRING]),
   roles : [meta : SlotBindings \cup {Null},
            orchestrator : SlotBindings \cup {Null}],
   workers : Seq([id : STRING, binding : SlotBindings]),
   sources : Seq([id : STRING, path : Files, method : STRING \cup {Null}]),
   methods : Seq(Methods),
   objective : Files \cup {Null}, plan : Files \cup {Null}]

-----------------------------------------------------------------------------
(* validateWorkspaceGraph.                                                 *)

Distinct(s) == IsInjective(s)

KeysOf(s, Key(_)) == [n \in DOMAIN s |-> Key(s[n])]

AnswerFiles(w) == {m \in ToSet(w.methods) : m.type = "answer_file"}

Roles(w) == {r \in {"meta", "orchestrator"} : w.roles[r] # Null}

\* The bindings of the roles and of the workers, in this order.
Bindings(w) ==
  SelectSeq(<<w.roles["meta"], w.roles["orchestrator"]>>
              \o KeysOf(w.workers, LAMBDA worker : worker.binding),
            LAMBDA b : b # Null)

UniqueEntries(w) ==
  /\ Distinct(KeysOf(w.repositories, LAMBDA r : r.id))
  /\ Distinct(KeysOf(w.repositories, LAMBDA r : r.root))
  /\ Distinct(KeysOf(w.workers, LAMBDA worker : worker.id))
  /\ Distinct(KeysOf(w.sources, LAMBDA source : source.id))
  /\ Distinct(KeysOf(w.sources, LAMBDA source : source.path))
  /\ Distinct(KeysOf(w.methods, LAMBDA method : method.id))
  /\ \A m, other \in AnswerFiles(w) : m.path = other.path => m = other

KnownReferences(w) ==
  /\ \A source \in ToSet(w.sources) :
       source.method # Null => \E m \in ToSet(w.methods) : m.id = source.method
  /\ \A b \in ToSet(Bindings(w)) :
       b.type = "launch_preset" /\ b.repository # Null
         => \E r \in ToSet(w.repositories) : r.id = b.repository
  /\ \A m \in ToSet(w.methods) : m.type = "role_prompt" => m.role \in Roles(w)

\* A session has one slot.
OneSlotEach(w) ==
  Distinct(KeysOf(SelectSeq(Bindings(w), LAMBDA b : b.type = "session"),
                  LAMBDA b : b.session))

\* An answer's file and a queue's are two, and so are the objective's and
\* the plan's.
DistinctFiles(w) ==
  /\ \A m \in AnswerFiles(w), source \in ToSet(w.sources) :
       m.path # source.path
  /\ w.objective # Null /\ w.plan # Null => w.objective # w.plan

ValidGraph(w) ==
  UniqueEntries(w) /\ KnownReferences(w) /\ OneSlotEach(w) /\ DistinctFiles(w)

-----------------------------------------------------------------------------
(* Paths.                                                                  *)

\* realpath of a directory; Null when there is none.  A link to a link is
\* taken for a loop, which it is among two names.
Real(d) ==
  IF d = Null THEN Null
  ELSE IF directory[d] = "directory" THEN d
  ELSE IF directory[d] \in Directories /\ directory[directory[d]] = "directory"
    THEN directory[d]
  ELSE Null

\* Faulty variant: a file that is missing keeps the path it was given.
CanonicalAsGiven(path) ==
  IF Real(path[1]) = Null \/ leaf[<<Real(path[1]), path[2]>>] = "link" THEN Null
  ELSE IF leaf[<<Real(path[1]), path[2]>>] = "missing" THEN path
  ELSE <<Real(path[1]), path[2]>>

\* canonicalMetadataFile: a regular file or a missing leaf; Null otherwise.
CanonicalFile(path) ==
  IF Real(path[1]) = Null \/ leaf[<<Real(path[1]), path[2]>>] = "link" THEN Null
  ELSE <<Real(path[1]), path[2]>>

OptionalFile(path) == IF path = Null THEN Null ELSE CanonicalFile(path)

\* The data directory lies in its home, or in the root if that is missing;
\* it cannot be found through a link that leads nowhere.
HoldsDataDirectory(root) == root = Real(DataHome)
DataDirectoryFound == Real(DataHome) # Null \/ directory[DataHome] = "missing"

Refused == [refused |-> TRUE]

Canonical(w) ==
  [w EXCEPT
     !.repositories = KeysOf(@, LAMBDA r : [r EXCEPT !.root = Real(@)]),
     !.sources = KeysOf(@, LAMBDA s : [s EXCEPT !.path = CanonicalFile(@)]),
     !.methods = KeysOf(@, LAMBDA m : [m EXCEPT !.path = OptionalFile(@)]),
     !.objective = OptionalFile(@),
     !.plan = OptionalFile(@)]

\* Every directory is there, and every file is one or missing.
PathsAreSafe(w) ==
  /\ DataDirectoryFound
  /\ \A r \in ToSet(w.repositories) :
       Real(r.root) # Null /\ ~HoldsDataDirectory(Real(r.root))
  /\ \A s \in ToSet(w.sources) : CanonicalFile(s.path) # Null
  /\ \A m \in AnswerFiles(w) : CanonicalFile(m.path) # Null
  /\ \A path \in {w.objective, w.plan} \ {Null} : CanonicalFile(path) # Null

\* The presets of the repository with this root: a catalog has at most one.
PresetsOf(root) == UNION {r.presets : r \in {r \in ToSet(catalog) : r.root = root}}

ValidBindings(w, sessions) ==
  \A b \in ToSet(Bindings(w)) :
    /\ b.type = "session" => b.session \in sessions
    /\ b.type = "launch_preset" => b.preset \in launchable

ValidPresets(w) ==
  \A r \in ToSet(w.repositories) : r.presets \subseteq PresetsOf(r.root)

\* normalizePaciumWorkspace, for the sessions that exist.
Normalized(w, sessions) ==
  IF ValidGraph(w) /\ PathsAreSafe(w)
     /\ ValidGraph(Canonical(w))
     /\ ValidBindings(Canonical(w), sessions) /\ ValidPresets(Canonical(w))
    THEN Canonical(w) ELSE Refused

\* inspect: the stored workspace is one that would be stored as it is; its
\* sessions may have ended.
Readable(w) == ValidGraph(w) /\ Normalized(w, Sessions) = w

-----------------------------------------------------------------------------
(* Steps.                                                                  *)

\* loadVerificationCatalog; Refused when the server does not start.
Loaded ==
  LET repositories ==
        KeysOf(VerificationFile, LAMBDA r : [r EXCEPT !.root = Real(@)])
      roots == KeysOf(repositories, LAMBDA r : r.root)
  IN IF /\ Real(VerificationHome) # Null
        /\ Distinct(roots)
        /\ ToSet(roots) \cap {Null, Real(VerificationHome)} = {}
       THEN repositories ELSE <<Refused>>

Starts ==
  /\ Loaded # <<Refused>>
  /\ catalog' = Loaded
  /\ live' = Sessions
  /\ \E presets \in SUBSET LaunchPresets : launchable' = presets

\* A server without launch presets, and no verification file as yet.
DefinitionInit ==
  /\ directory = [d \in Directories |-> "directory"]
  /\ leaf = [f \in Files |-> "missing"]
  /\ live = {} /\ launchable = {} /\ catalog = << >>
  /\ stored = Null /\ disturbed = FALSE
  /\ events = 0

\* replaceOnce, of the latest revision: a stored workspace that cannot be
\* read must be repaired first.
Replace(w) ==
  /\ stored # Null => Readable(stored)
  /\ LET accepted == Normalized(w, live)
     IN accepted # Refused /\ stored' = accepted
  /\ disturbed' = FALSE
  /\ UNCHANGED <<fileSystem, serverVars, events>>

SessionEnds(s) ==
  /\ s \in live
  /\ live' = live \ {s}
  /\ UNCHANGED <<fileSystem, launchable, catalog, stored, disturbed, events>>

\* The files and directories that a stored workspace names, and the home of
\* the data directory with what it leads to.
NamedFiles ==
  IF stored = Null THEN {}
  ELSE ({source.path : source \in ToSet(stored.sources)}
          \cup {m.path : m \in AnswerFiles(stored)}
          \cup {stored.objective, stored.plan}) \ {Null}

NamedDirectories ==
  IF stored = Null THEN {}
  ELSE {DataHome, Real(DataHome)} \cup {r.root : r \in ToSet(stored.repositories)}
         \cup {path[1] : path \in NamedFiles}

Event == events < MaxEvents /\ events' = events + 1

\* A directory is removed, made, or replaced by a link.
DirectoryChanges(d, what) ==
  /\ Event
  /\ what # directory[d] /\ what # d
  /\ directory' = [directory EXCEPT ![d] = what]
  /\ disturbed' = (disturbed \/ d \in NamedDirectories)
  /\ UNCHANGED <<leaf, serverVars, stored>>

\* A file is created, removed, or replaced by a link.
FileChanges(f, what) ==
  /\ Event
  /\ what # leaf[f]
  /\ leaf' = [leaf EXCEPT ![f] = what]
  /\ disturbed' = (disturbed \/ (what = "link" /\ f \in NamedFiles))
  /\ UNCHANGED <<directory, serverVars, stored>>

\* The server starts, with what it is then configured with.
Restarts ==
  /\ Event
  /\ Starts
  /\ disturbed' = (disturbed \/ launchable' # launchable \/ catalog' # catalog)
  /\ UNCHANGED <<fileSystem, stored>>

DefinitionNext ==
  \/ \E w \in Drafts : Replace(w)
  \/ \E s \in Sessions : SessionEnds(s)
  \/ \E d \in Directories, what \in {"directory", "missing"} \cup Directories :
       DirectoryChanges(d, what)
  \/ \E f \in Files, what \in {"file", "missing", "link"} :
       FileChanges(f, what)
  \/ Restarts

DefinitionSpec == DefinitionInit /\ [][DefinitionNext]_definitionVars

-----------------------------------------------------------------------------
\* A workspace that was accepted can be read, and so replaced, for as long
\* as the directories it was stored with, no file of which became a link,
\* and the presets of the server are what they were: whatever names the
\* proposal used for them, files come and go, sessions end and the server
\* restarts.
DefinitionStaysReadable == stored # Null /\ ~disturbed => Readable(stored)
=============================================================================
