-------------------------- MODULE StartupServices --------------------------
(***************************************************************************)
(* Services that the local server starts with and that share no state: the *)
(* queue observer, the keep-alive catalog and the host setup.  As in       *)
(* LocalServices a behaviour is one of a single service.                   *)
(***************************************************************************)
EXTENDS QueueObserver

CONSTANTS
  Launches, MaxManifests, MaxRestored, MaxCreated, MaxTmux,
  Callers, Names, NoName, Environments, MaxClients

\* Nobody is no caller, and a setup always names a session.
ASSUME SetupAssumption ==
  "nobody" \notin Callers /\ NoName \notin Names /\ MaxClients \in Nat

ASSUME KeepAssumption == {MaxManifests, MaxRestored} \subseteq Nat

VARIABLES
  tmux, catalog, stored, server, toRestore, launch, clients, created, unsure,
  serve, document, environment, metaName, remote, caller, applying, attaching,
  metaSession, tmuxClients,
  service   \* the service of this behaviour

Keep == INSTANCE KeepAlive
Setup == INSTANCE HostSetup WITH Requests <- Callers, request <- caller

\* The environment names sessions as the setup does.
ASSUME EnvironmentAssumption == Environments \subseteq Setup!AllEnvironments

observerVars == vars
keepVars ==
  <<tmux, catalog, stored, server, toRestore, launch, clients, created, unsure>>
setupVars ==
  <<serve, document, environment, metaName, remote, caller, applying,
    attaching, metaSession, tmuxClients>>

allVars == <<observerVars, keepVars, setupVars, service>>

Services == {"observer", "keep-alive", "setup"}

\* The environment matters to the setup alone.
StartupInit ==
  /\ service \in Services
  /\ Init /\ Keep!KeepInit /\ Setup!SetupInit
  /\ service # "setup" => environment = CHOOSE e \in Environments : TRUE

ObserverMoves ==
  /\ service = "observer"
  /\ Next
  /\ UNCHANGED <<keepVars, setupVars>>

KeepMoves ==
  /\ service = "keep-alive"
  /\ Keep!KeepNext
  /\ UNCHANGED <<observerVars, setupVars>>

SetupMoves ==
  /\ service = "setup"
  /\ Setup!SetupNext
  /\ UNCHANGED <<observerVars, keepVars>>

StartupNext ==
  /\ ObserverMoves \/ KeepMoves \/ SetupMoves
  /\ UNCHANGED service

StartupSpec == StartupInit /\ [][StartupNext]_allVars

-----------------------------------------------------------------------------
(* The properties of the services, where each module explains its own.     *)

\* No manifest leaves the file but for newer ones.
ManifestsAreKept == Keep!ManifestsAreKept

\* A restart finds the target of every keep-alive client.
TargetsRecoverable == Keep!TargetsRecoverable

\* A restart attaches one client to each target it keeps alive.
RestoredOnce == Keep!RestoredOnce

\* Pacium attaches one client to Meta.
OneMetaClient == Setup!OneMetaClient

\* Remote access that a setup granted is recorded.
RemoteIsRecorded == Setup!RemoteIsRecorded
=============================================================================
