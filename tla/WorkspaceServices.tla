------------------------- MODULE WorkspaceServices -------------------------
(***************************************************************************)
(* What the server does for the workspace of the operator: the decisions   *)
(* of its queues, the inspection of its repositories, its control context  *)
(* and its definition.  Each follows what it uses of the others by itself  *)
(* (ContextInspection the configuration and one delivery), so that they    *)
(* share no state here, and a behaviour is one of a single service.        *)
(***************************************************************************)
EXTENDS QueueDelivery

CONSTANTS
  Paths, Backslashed, Codes, MaxFiles, MaxPatch, MaxCommits, MaxHistory,
  MaxMoves, MaxDuration,
  MaxBytes, Ticks, MaxChanges, SourceSets, Decisions, Delivered, MaxRecent,
  Directories, Leaves, DataHome, VerificationHome, VerificationFile, Drafts,
  Sessions, LaunchPresets, MaxEvents,
  Null

VARIABLES
  commit, moves, repository, inspection, heads, answered, inspects, presets,
  run, ran,
  setting, node, nodes, rest, clock, part, changes, decisions, delivery,
  context, reading, answer, seen,
  directory, leaf, live, launchable, catalog, stored, disturbed, events,
  service   \* the service of this behaviour

Git == INSTANCE RepositoryInspection
Context == INSTANCE ContextInspection
Definition == INSTANCE WorkspaceDefinition

\* What is proposed fits the schema, and names are not taken for others.
ASSUME DefinitionAssumption ==
  /\ Drafts \subseteq Definition!Workspaces
  /\ DataHome \in Directories
  /\ Directories \cap {Null, "directory", "missing"} = {}
  /\ Null \notin Directories \X Leaves

\* What Git may print and how much of it is told; what says that there is
\* nothing is no number and no text.
ASSUME InspectionAssumption ==
  /\ Paths \subseteq Nat /\ IsFiniteSet(Paths)
  /\ Backslashed \subseteq Paths
  /\ \A xy \in Codes : xy[1] # "." \/ xy[2] # "."
  /\ MaxFiles \in Nat /\ MaxPatch \in Nat /\ MaxCommits \in Nat
  /\ MaxHistory \in Nat \ {0} /\ MaxDuration \in Nat
  /\ Null \notin Nat
  /\ Null \notin {"root", "SIGTERM", "git_unavailable", "timeout",
                 "invalid_output", "inspection_failed", "unsafe_path",
                 "repository_unavailable", "invalid_state", "invalid_result",
                 "spawn_failed", "process_error", "changed"}

\* What the file system, the clock and the queue state may hold.
ASSUME ContextAssumption ==
  /\ MaxBytes \in Nat /\ MaxRecent \in Nat
  /\ Ticks \subseteq Nat \ {0}
  /\ Decisions \subseteq [id : Nat, at : Nat] /\ IsFiniteSet(Decisions)
  /\ Null \notin Seq(Nat)

queueVars == vars

gitVars ==
  <<commit, moves, repository, inspection, heads, answered, inspects, presets,
    run, ran>>

contextVars ==
  <<setting, node, nodes, rest, clock, part, changes, decisions, delivery,
    context, reading, answer, seen>>

definitionVars ==
  <<directory, leaf, live, launchable, catalog, stored, disturbed, events>>

workspaceVars ==
  <<queueVars, gitVars, contextVars, definitionVars, service>>

\* What the other services start with does not tell behaviours apart.
WorkspaceInit ==
  /\ service \in {"queue", "git", "context", "definition"}
  /\ Init
  /\ Git!InspectionInit
  /\ service # "git" => commit = 0 /\ inspects = "tree"
  /\ Context!ContextInit
  /\ service # "context" =>
       /\ setting.sources = CHOOSE sources \in SourceSets : TRUE
       /\ part = "files" /\ nodes = << >>
  /\ Definition!DefinitionInit

QueueMoves ==
  /\ service = "queue"
  /\ Next
  /\ UNCHANGED <<gitVars, contextVars, definitionVars>>

GitMoves ==
  /\ service = "git"
  /\ Git!InspectionNext
  /\ UNCHANGED <<queueVars, contextVars, definitionVars>>

ContextMoves ==
  /\ service = "context"
  /\ Context!ContextNext
  /\ UNCHANGED <<queueVars, gitVars, definitionVars>>

DefinitionMoves ==
  /\ service = "definition"
  /\ Definition!DefinitionNext
  /\ UNCHANGED <<queueVars, gitVars, contextVars>>

WorkspaceNext ==
  /\ QueueMoves \/ GitMoves \/ ContextMoves \/ DefinitionMoves
  /\ UNCHANGED service

WorkspaceSpec == WorkspaceInit /\ [][WorkspaceNext]_workspaceVars

-----------------------------------------------------------------------------
(* The properties of the services; those of the queue keep their names.    *)

\* An answer about a repository or the control context satisfies the schema
\* its browser checks, and which the server makes the latter with, but for
\* paths with a leading backslash.
ObservationsAreValid ==
  Git!ObservationsAreValid /\ Context!ContextsAreValid

\* A ready answer is evidence of a commit HEAD named meanwhile.
EvidenceIsCurrent == Git!EvidenceIsCurrent

\* What an answer about the control context shows existed as a whole.
ContextIsWhole == Context!ContextIsWhole

\* A workspace that was accepted can be read until what it names changes.
DefinitionStaysReadable == Definition!DefinitionStaysReadable
=============================================================================
