--------------------------- MODULE LocalServices ---------------------------
(***************************************************************************)
(* Services of the local server that share no state: the configuration     *)
(* store, the observers of Claude and of Codex, the requests of a browser  *)
(* and the delivery of queue decisions, whose safety has a run of its own. *)
(* What one does is the same whatever the others do, so that a behaviour   *)
(* is one of a single service, and the states of all of them are checked   *)
(* in one run.                                                             *)
(***************************************************************************)
EXTENDS PaciumConfig

CONSTANTS
  ProviderSessions, Subjects, ActivityLimit, FingerprintLimit,
  ClaudeMethods, CodexMethods, Bridges,
  ViewSets, MaxRequests, MaxVersion,
  Items, Intents, Undecided, MaxDecisions,
  Callers, Labels, MaxAttemptIds, MaxRestarts

\* A bridge is not the name of there being none, and an activity that is
\* listed is among the events that are recognised.
ASSUME ServicesAssumption ==
  /\ "none" \notin Bridges
  /\ ActivityLimit \in Nat /\ FingerprintLimit \in Nat
  /\ ActivityLimit <= FingerprintLimit

VARIABLES
  claude, claudeShown,
  codex, active, bridge, crashed,
  link, toServer, toBrowser, tasks, view, now, requests,
  queueFile, queueDurable, queueTail, queueRead, renamed, queueCall,
  deliveries, nextId, restarts, sent,
  service   \* the service of this behaviour

Provider == INSTANCE ProviderObservation

Claude == INSTANCE ClaudeObserver WITH
  ClaudeInputs <- {e \in Provider!ClaudeEvents : e.method \in ClaudeMethods}

Codex == INSTANCE CodexRuntime WITH
  CodexInputs <- {e \in Provider!CodexEvents : e.method \in CodexMethods}

Browser == INSTANCE ClientRequests

Queue == INSTANCE QueueDelivery WITH
  file <- queueFile, durable <- queueDurable, writeTail <- queueTail,
  read <- queueRead,
  call <- queueCall, active <- deliveries

configVars == vars
claudeVars == <<claude, claudeShown>>
codexVars == <<codex, active, bridge, crashed>>
clientVars == <<link, toServer, toBrowser, tasks, view, now, requests>>
queueVars ==
  <<queueFile, queueDurable, queueTail, queueRead, renamed, queueCall,
    deliveries, nextId, restarts, sent>>

allVars ==
  <<configVars, claudeVars, codexVars, clientVars, queueVars, service>>

Services == {"config", "claude", "codex", "browser", "queue"}

ServicesInit ==
  /\ service \in Services
  /\ Init
  /\ Claude!ClaudeInit /\ Codex!CodexInit
  /\ Browser!ClientInit /\ Queue!Init

ConfigMoves ==
  /\ service = "config"
  /\ Next
  /\ UNCHANGED <<claudeVars, codexVars, clientVars, queueVars>>

ClaudeMoves ==
  /\ service = "claude"
  /\ Claude!ClaudeNext
  /\ UNCHANGED <<configVars, codexVars, clientVars, queueVars>>

CodexMoves ==
  /\ service = "codex"
  /\ Codex!CodexNext
  /\ UNCHANGED <<configVars, claudeVars, clientVars, queueVars>>

BrowserMoves ==
  /\ service = "browser"
  /\ Browser!ClientNext
  /\ UNCHANGED <<configVars, claudeVars, codexVars, queueVars>>

QueueMoves ==
  /\ service = "queue"
  /\ Queue!Next
  /\ UNCHANGED <<configVars, claudeVars, codexVars, clientVars>>

ServicesNext ==
  /\ ConfigMoves \/ ClaudeMoves \/ CodexMoves \/ BrowserMoves
     \/ QueueMoves
  /\ UNCHANGED service

ServicesSpec ==
  /\ ServicesInit /\ [][ServicesNext]_allVars
  /\ ConfigFairness
  /\ Codex!CodexFairness
  /\ Browser!ClientFairness
  /\ Queue!QueueFairness

-----------------------------------------------------------------------------
(* The properties of the services, where each module explains its own.     *)

\* The observer of Claude never rejects what it made of the hooks.
ClaudeNeverThrows == Claude!ClaudeNeverThrows

\* A Codex session has one App Server at most, and the map knows it.
OneRuntime == Codex!OneRuntime

\* The App Server of a bridge that ended ends.
EveryChildEnds == Codex!EveryChildEnds

\* No view of a browser goes back to an older observation.
ViewsNeverGoBack == Browser!ViewsNeverGoBack

\* No view of a browser that can be told of errors waits forever.
EveryViewSettles == Browser!EveryViewSettles

\* Every request for the queue returns, even behind failed mutations.
EveryDeliveryReturns == Queue!EveryCallReturns

-----------------------------------------------------------------------------
(* A claim of the repository that the code does not keep.                  *)

\* An event of Codex never ends the server.
ServerSurvives == Codex!ServerSurvives
=============================================================================
