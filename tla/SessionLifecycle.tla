-------------------------- MODULE SessionLifecycle --------------------------
(***************************************************************************)
(* The life of the server's terminal sessions: creation, the PTY process,  *)
(* forced close with its timer, removal, server shutdown, and what the     *)
(* clients are told.                                                       *)
(*                                                                         *)
(* Every call of create() has an id of its own, which the session and its  *)
(* PTY process share.  Methods run up to their next await and are then     *)
(* interleaved with events and with each other.  A process may end at any  *)
(* time, and may ignore any signal but SIGKILL.  Output, names, sizes and  *)
(* the choice of presets are left out.  A manifest is only the wait for    *)
(* its write, which may fail: KeepAlive has the catalog and the targets.   *)
(***************************************************************************)
EXTENDS Naturals

CONSTANTS
  Ids,        \* the calls of create()
  MaxCloses,  \* bound on the close requests that find a session
  MaxReads    \* bound on the repository reads

ASSUME LifecycleAssumption == MaxCloses \in Nat /\ MaxReads \in Nat

VARIABLES
  mode,          \* how each session runs: pty, attached or keep_alive
  creation,      \* how far each create() is
  sessions,      \* the registry
  listening,     \* sessions subscribed to the exit of their process
  processState,  \* SessionSummary.processState
  process,       \* the PTY process, or the tmux client in its place
  signals,       \* what was sent to it ("detach" by the tmux server)
  closeRequests, \* sessions with a closeRequestId
  forceTimers,   \* sessions whose force timer runs
  detaching,     \* awaited detachClient calls
  reading,       \* awaited repository inspections of refreshRepository
  retaining,     \* awaited manifest updates of retainResumeReference
  server,        \* running, stopping or stopped
  shown,         \* sessions in the list of a connected client
  closes, reads, \* how often the two happened
  closedTwice,   \* history: removed by a close while closing
  unseen,        \* history: ended before anyone listened
  readLate       \* history: inspected for a session already removed

registry == <<sessions, listening, processState, closeRequests, forceTimers,
              shown>>
pty      == <<process, signals, detaching>>
awaited  == <<reading, retaining>>
counters == <<closes, reads>>
history  == <<closedTwice, unseen, readLate>>
vars == <<mode, creation, registry, pty, awaited, server, counters, history>>

Modes   == {"pty", "attached", "keep_alive"}
Signals == {"SIGTERM", "SIGHUP", "SIGKILL", "detach"}

Init ==
  /\ mode \in [Ids -> Modes]
  /\ creation = [i \in Ids |-> "none"]
  /\ sessions = {} /\ listening = {}
  /\ processState = [i \in Ids |-> "none"]
  /\ process = [i \in Ids |-> "none"]
  /\ signals = [i \in Ids |-> {}]
  /\ closeRequests = {} /\ forceTimers = {} /\ detaching = {}
  /\ reading = {} /\ retaining = {}
  /\ server = "running"
  /\ shown = {}
  /\ closes = 0 /\ reads = 0
  /\ closedTwice = {} /\ unseen = {} /\ readLate = {}

Goes(i, stage) == creation' = [creation EXCEPT ![i] = stage]

\* kill() ignores the error of a process that is gone.
Send(signal, I) ==
  signals' = [i \in Ids |->
                IF i \in I /\ process[i] # "none"
                  THEN signals[i] \cup {signal} ELSE signals[i]]

IsTmux(i) == mode[i] # "pty"

-----------------------------------------------------------------------------
(* create()                                                                *)

Create(i) ==
  /\ creation[i] = "none"
  /\ server # "stopped"
  /\ Goes(i, "preparing")
  /\ UNCHANGED <<mode, registry, pty, awaited, server, counters,
                 history>>

\* The directory or the preset is refused, tmux fails, or the PTY cannot be
\* spawned.
PrepareFails(i) ==
  /\ creation[i] = "preparing"
  /\ Goes(i, "failed")
  /\ UNCHANGED <<mode, registry, pty, awaited, server, counters, history>>

Spawn(i) == process' = [process EXCEPT ![i] = "running"]

\* The client of a keep-alive target is spawned once its manifest is written,
\* every other process before.
Prepare(i) ==
  /\ creation[i] = "preparing"
  /\ IF mode[i] = "keep_alive"
       THEN Goes(i, "retaining") /\ UNCHANGED process
       ELSE Goes(i, "recording") /\ Spawn(i)
  /\ UNCHANGED <<mode, registry, signals, detaching, awaited, server, counters,
                 history>>

\* The session is registered and listens to its process from now on.  The
\* client that asked for it lists it.
Register(i) ==
  /\ Goes(i, "created")
  /\ sessions' = sessions \cup {i}
  /\ listening' = listening \cup {i}
  /\ processState' = [processState EXCEPT ![i] = "live"]
  /\ shown' = IF server = "stopped" THEN shown ELSE shown \cup {i}
  /\ UNCHANGED <<closeRequests, forceTimers>>

Retained(i) ==
  /\ creation[i] = "retaining"
  /\ Register(i)
  /\ Spawn(i)
  /\ UNCHANGED <<mode, signals, detaching, awaited, server, counters,
                 history>>

\* The manifest cannot be written, or the client cannot be spawned.
RetainFails(i) ==
  /\ creation[i] = "retaining"
  /\ Goes(i, "failed")
  /\ UNCHANGED <<mode, registry, pty, awaited, server, counters,
                 history>>

Recorded(i) ==
  /\ creation[i] = "recording"
  /\ Register(i)
  /\ UNCHANGED <<mode, pty, awaited, server, counters, history>>

\* The manifest cannot be written: the process is asked to end and forgotten.
RecordFails(i) ==
  /\ creation[i] = "recording"
  /\ Goes(i, "failed")
  /\ Send("SIGTERM", {i})
  /\ UNCHANGED <<mode, registry, process, detaching, awaited, server,
                 counters, history>>

-----------------------------------------------------------------------------
(* The process.                                                            *)

Ends(i) ==
  /\ process[i] = "running"
  /\ process' = [process EXCEPT ![i] = "exiting"]
  /\ UNCHANGED <<mode, creation, registry, signals, detaching, awaited,
                 server, counters, history>>

\* removeSession: the timer is cleared, the listeners are disposed and the
\* clients are told.
RemoveSession(i) ==
  /\ sessions' = sessions \ {i}
  /\ listening' = listening \ {i}
  /\ forceTimers' = forceTimers \ {i}
  /\ shown' = shown \ {i}

\* The exit reaches handleExit: the session is exited, and removed if its
\* close was asked for.  Before registration nobody listens.
Exit(i) ==
  /\ process[i] = "exiting"
  /\ process' = [process EXCEPT ![i] = "ended"]
  /\ IF i \in sessions \cap listening
       THEN /\ processState' = [processState EXCEPT ![i] = "exited"]
            /\ IF i \in closeRequests
                 THEN RemoveSession(i)
                 ELSE /\ forceTimers' = forceTimers \ {i}
                      /\ shown' = IF server = "stopped" THEN shown
                                                       ELSE shown \cup {i}
                      /\ UNCHANGED <<sessions, listening>>
            /\ UNCHANGED unseen
       ELSE /\ unseen' = unseen \cup {i}
            /\ UNCHANGED <<sessions, listening, processState, forceTimers,
                           shown>>
  /\ UNCHANGED <<mode, creation, closeRequests, signals, detaching,
                 awaited, server, counters, closedTwice, readLate>>

-----------------------------------------------------------------------------
(* close(sessionId, force)                                                 *)

\* Faulty variant: a live session is removed at once.
CloseForcedAtOnce(i) ==
  /\ server # "stopped"
  /\ i \in sessions /\ processState[i] = "live"
  /\ closes < MaxCloses /\ closes' = closes + 1
  /\ Send("SIGTERM", {i})
  /\ RemoveSession(i)
  /\ UNCHANGED <<mode, creation, processState, closeRequests, process,
                 detaching, awaited, server, reads, history>>

\* A live session, with force: it is closing until its process ends.  The
\* process is signalled, or its client detached, and the force timer set.
CloseForced(i) ==
  /\ server # "stopped"
  /\ i \in sessions /\ processState[i] = "live"
  /\ closes < MaxCloses /\ closes' = closes + 1
  /\ processState' = [processState EXCEPT ![i] = "closing"]
  /\ closeRequests' = closeRequests \cup {i}
  /\ forceTimers' = forceTimers \cup {i}
  /\ shown' = shown \cup {i}
  /\ IF IsTmux(i) THEN detaching' = detaching \cup {i} /\ UNCHANGED signals
                  ELSE Send("SIGTERM", {i}) /\ UNCHANGED detaching
  /\ UNCHANGED <<mode, creation, sessions, listening, process, awaited,
                 server, reads, history>>

\* Any session that is not live is removed at once.
CloseNotLive(i) ==
  /\ server # "stopped"
  /\ i \in sessions /\ processState[i] # "live"
  /\ closes < MaxCloses /\ closes' = closes + 1
  /\ RemoveSession(i)
  /\ closedTwice' = IF processState[i] = "closing" THEN closedTwice \cup {i}
                                                   ELSE closedTwice
  /\ UNCHANGED <<mode, creation, processState, closeRequests, pty,
                 awaited, server, reads, unseen, readLate>>

Detached(i) ==
  /\ i \in detaching
  /\ detaching' = detaching \ {i}
  /\ Send("detach", {i})
  /\ UNCHANGED <<mode, creation, registry, process, awaited, server,
                 counters, history>>

DetachFails(i) ==
  /\ i \in detaching
  /\ detaching' = detaching \ {i}
  /\ Send("SIGKILL", {i})
  /\ UNCHANGED <<mode, creation, registry, process, awaited, server,
                 counters, history>>

\* Faulty variant: the timer asks again instead of forcing.
ForceTimerAsks(i) ==
  /\ i \in forceTimers
  /\ forceTimers' = forceTimers \ {i}
  /\ Send("SIGTERM", {i})
  /\ UNCHANGED <<mode, creation, sessions, listening, processState,
                 closeRequests, shown, process, detaching, awaited,
                 server, counters, history>>

ForceTimer(i) ==
  /\ i \in forceTimers
  /\ forceTimers' = forceTimers \ {i}
  /\ IF i \in sessions /\ processState[i] = "closing"
       THEN Send("SIGKILL", {i}) ELSE UNCHANGED signals
  /\ UNCHANGED <<mode, creation, sessions, listening, processState,
                 closeRequests, shown, process, detaching, awaited,
                 server, counters, history>>

-----------------------------------------------------------------------------
(* Work that outlives an await.                                            *)

\* refreshRepository: Git is read, then the session updated and announced.
RefreshRepository(i) ==
  /\ server # "stopped"
  /\ i \in sessions \ reading
  /\ reads < MaxReads /\ reads' = reads + 1
  /\ reading' = reading \cup {i}
  /\ UNCHANGED <<mode, creation, registry, pty, retaining, server,
                 closes, history>>

RepositoryRead(i) ==
  /\ i \in reading
  /\ reading' = reading \ {i}
  /\ shown' = IF server = "stopped" THEN shown ELSE shown \cup {i}
  /\ readLate' = IF i \in sessions THEN readLate ELSE readLate \cup {i}
  /\ UNCHANGED <<mode, creation, sessions, listening, processState,
                 closeRequests, forceTimers, pty, retaining, server,
                 counters, closedTwice, unseen>>

\* An observed provider reports the thread to resume: its reference is stored.
ResumeReference(i) ==
  /\ server = "running"
  /\ i \in sessions \ retaining
  /\ mode[i] = "pty" /\ processState[i] # "exited"
  /\ reads < MaxReads /\ reads' = reads + 1
  /\ retaining' = retaining \cup {i}
  /\ UNCHANGED <<mode, creation, registry, pty, reading, server,
                 closes, history>>

\* Faulty variant: the session is announced whether it still exists or not.
ResumeRetainedUnchecked(i) ==
  /\ i \in retaining
  /\ retaining' = retaining \ {i}
  /\ shown' = shown \cup {i}
  /\ UNCHANGED <<mode, creation, sessions, listening, processState,
                 closeRequests, forceTimers, pty, reading, server,
                 counters, history>>

\* Announced only while the session exists; a failed write changes nothing.
ResumeRetained(i) ==
  /\ i \in retaining
  /\ retaining' = retaining \ {i}
  /\ shown' \in {shown, IF i \in sessions /\ server # "stopped"
                          THEN shown \cup {i} ELSE shown}
  /\ UNCHANGED <<mode, creation, sessions, listening, processState,
                 closeRequests, forceTimers, pty, reading, server,
                 counters, history>>

-----------------------------------------------------------------------------
(* shutdown()                                                              *)

\* Timers are cleared, listeners disposed, live and closing processes told.
Shutdown ==
  /\ server = "running"
  /\ server' = "stopping"
  /\ forceTimers' = forceTimers \ sessions
  /\ listening' = listening \ sessions
  /\ LET alive == {i \in sessions : processState[i] \in {"live", "closing"}}
     IN /\ Send("SIGHUP", {i \in alive : ~IsTmux(i)})
        /\ detaching' = detaching \cup {i \in alive : IsTmux(i)}
  /\ UNCHANGED <<mode, creation, sessions, processState, closeRequests, shown,
                 process, awaited, counters, history>>

\* When the clients are detached the registry is emptied and the hub closed.
ShutdownDone ==
  /\ server = "stopping"
  /\ detaching = {}
  /\ server' = "stopped"
  /\ sessions' = {}
  /\ shown' = {}
  /\ UNCHANGED <<mode, creation, listening, processState, closeRequests,
                 forceTimers, pty, awaited, counters, history>>

-----------------------------------------------------------------------------

Creating(i) ==
  \/ PrepareFails(i) \/ Prepare(i)
  \/ Retained(i) \/ RetainFails(i)
  \/ Recorded(i) \/ RecordFails(i)

Requested(i) ==
  \/ Create(i) \/ CloseForced(i) \/ CloseNotLive(i)
  \/ RefreshRepository(i) \/ ResumeReference(i)

Continued(i) ==
  \/ Detached(i) \/ DetachFails(i) \/ ForceTimer(i)
  \/ RepositoryRead(i) \/ ResumeRetained(i)

Next ==
  \/ \E i \in Ids : Creating(i) \/ Requested(i) \/ Continued(i)
                    \/ Ends(i) \/ Exit(i)
  \/ Shutdown
  \/ ShutdownDone

Spec == Init /\ [][Next]_vars

\* Awaited work settles, timers fire, exits are reported, and a process that
\* is killed or detached ends; nothing else makes a process end.
Doomed(i) == signals[i] \cap {"SIGKILL", "detach"} # {}

FairSpec ==
  /\ Spec
  /\ \A i \in Ids :
       /\ WF_vars(Creating(i)) /\ WF_vars(Exit(i))
       /\ WF_vars(Doomed(i) /\ Ends(i))
       /\ WF_vars(ForceTimer(i))
       /\ WF_vars(Detached(i) \/ DetachFails(i))
  /\ WF_vars(ShutdownDone)

-----------------------------------------------------------------------------
(* Properties.                                                             *)

TypeOK ==
  /\ mode \in [Ids -> Modes]
  /\ creation \in [Ids -> {"none", "preparing", "retaining", "recording",
                           "created", "failed"}]
  /\ processState \in [Ids -> {"none", "live", "closing", "exited"}]
  /\ process \in [Ids -> {"none", "running", "exiting", "ended"}]
  /\ signals \in [Ids -> SUBSET Signals]
  /\ {sessions, listening, closeRequests, forceTimers, detaching, reading,
      retaining, shown, closedTwice, unseen, readLate} \subseteq SUBSET Ids
  /\ server \in {"running", "stopping", "stopped"}
  /\ closes \in Nat /\ reads \in Nat

\* A session leaves a running server only when its process has ended, unless
\* it is closed a second time while closing.
Gone(i) == creation[i] = "created" /\ i \notin sessions

ClosedHasEnded ==
  server = "running" =>
    \A i \in Ids : Gone(i) /\ i \notin closedTwice => process[i] = "ended"

\* No work that outlives its session brings it back into a client's list,
\* but for a repository read.
NoLateUpdate == shown \subseteq sessions \cup readLate

\* A forced close ends with the removal of the session, whatever its process
\* ignores and whether tmux answers or not, unless the exit was not seen.
ForcedCloseEnds ==
  \A i \in Ids :
    i \in sessions /\ processState[i] = "closing"
      ~> i \notin sessions \/ i \in unseen

-----------------------------------------------------------------------------
(* Two claims of the repository that the code does not keep.               *)

\* No process outlives the session that was closed on a running server.
NoLeakedProcess ==
  server = "running" => \A i \in Ids : Gone(i) => process[i] = "ended"

\* A session that closed is removed from the clients' lists, and stays so.
ClosedLeavesLists == shown \subseteq sessions
=============================================================================
