-------------------------- MODULE VerificationRuns --------------------------
(***************************************************************************)
(* The verification runner and its use by the session manager: a run is    *)
(* reserved, its process started after HEAD was observed, ended by itself, *)
(* by its timeout or by a cancellation that is forced after a grace time,  *)
(* and published after HEAD was observed again.                            *)
(*                                                                         *)
(* Runs are numbered in the order of their reservations, for the random    *)
(* ids of the code.  Code between two awaits is one step.  A process may   *)
(* end at any time, may ignore SIGTERM and may have changed its user, so   *)
(* that the system refuses to signal it.  Output, commits and presets are  *)
(* left out, and so are durations: that a run of more than fifteen minutes *)
(* by the wall clock is never told is in RepositoryInspection.             *)
(***************************************************************************)
EXTENDS Naturals, FiniteSets

CONSTANTS
  Owners,            \* the sessions
  MaxRuns,           \* bound on the runs that are started
  MaxConcurrentRuns

ASSUME RunsAssumption ==
  /\ MaxRuns \in Nat
  /\ MaxConcurrentRuns \in Nat
  /\ IsFiniteSet(Owners)

Runs == 1 .. MaxRuns
None == 0

VARIABLES
  server,        \* running or stopping
  sessions,      \* the owners in the session manager's registry
  verificationRuns, \* the latest run the manager knows of each owner
  owner,         \* whose each run is, None before start()
  stage,         \* how far each start() is
  pendingOwners, \* owners with a reservation
  activeByOwner, \* the run of each owner, or None
  finishing,     \* runs that began to finish
  timeouts,      \* runs whose timeout is set
  forceTimers,   \* runs whose grace timer is set
  reason,        \* terminationReason
  forced,        \* runs with terminationForced
  status,        \* the status of each run, once finished its outcome
  process,       \* the child
  killed,        \* runs whose group was sent SIGKILL
  refused,       \* history: runs whose group could not be signalled while
                 \* it was running
  orphaned       \* history: runs whose owner was removed, or the runner shut
                 \* down, while they were being started

manager == <<sessions, verificationRuns>>
slots   == <<pendingOwners, activeByOwner>>
run     == <<finishing, timeouts, forceTimers, reason, forced, status>>
child   == <<process, killed, refused>>
vars == <<server, manager, owner, stage, slots, run, child, orphaned>>

Reasons  == {"none", "cancelled", "timed_out"}
Final    == {"passed", "failed", "cancelled", "timed_out", "error"}
Statuses == Final \cup {"none", "running", "cancelling"}

\* A child that ran has ended "clean" (exit code 0) or "unclean"; one that
\* could not be spawned reports an error, then closes as well.
Ended == {"clean", "unclean", "spawn_failed"}

Init ==
  /\ server = "running"
  /\ sessions = Owners
  /\ verificationRuns = [o \in Owners |-> None]
  /\ owner = [r \in Runs |-> None]
  /\ stage = [r \in Runs |-> "none"]
  /\ pendingOwners = {}
  /\ activeByOwner = [o \in Owners |-> None]
  /\ finishing = {} /\ timeouts = {} /\ forceTimers = {}
  /\ reason = [r \in Runs |-> "none"]
  /\ forced = {}
  /\ status = [r \in Runs |-> "none"]
  /\ process = [r \in Runs |-> "none"]
  /\ killed = {}
  /\ refused = {}
  /\ orphaned = {}

ActiveOwners == {o \in Owners : activeByOwner[o] # None}

\* The listener of the session manager keeps the run of a known owner.
Emit(r) ==
  verificationRuns' =
    IF owner[r] \in sessions /\ server = "running"
      THEN [verificationRuns EXCEPT ![owner[r]] = r]
      ELSE verificationRuns

-----------------------------------------------------------------------------
(* start()                                                                 *)

\* Faulty variant: the reservations of other owners are not counted.
BusyActive(o) ==
  \/ activeByOwner[o] # None \/ o \in pendingOwners
  \/ Cardinality(ActiveOwners) >= MaxConcurrentRuns

Busy(o) ==
  \/ activeByOwner[o] # None \/ o \in pendingOwners
  \/ Cardinality(ActiveOwners) + Cardinality(pendingOwners)
       >= MaxConcurrentRuns

\* A run asked for by a registered session.  A busy runner refuses it and
\* nothing changes.
Start(r, o) ==
  /\ o \in sessions
  /\ ~Busy(o)
  /\ stage[r] = "none" /\ \A s \in Runs : s < r => stage[s] # "none"
  /\ stage' = [stage EXCEPT ![r] = "reserved"]
  /\ owner' = [owner EXCEPT ![r] = o]
  /\ pendingOwners' = pendingOwners \cup {o}
  /\ UNCHANGED <<server, manager, activeByOwner, run, child, orphaned>>

\* spawn() throws.
StartFails(r) ==
  /\ stage[r] = "reserved"
  /\ stage' = [stage EXCEPT ![r] = "failed"]
  /\ pendingOwners' = pendingOwners \ {owner[r]}
  /\ UNCHANGED <<server, manager, owner, activeByOwner, run, child, orphaned>>

\* HEAD was observed: the child is started and its run published.  The
\* session manager stores the run it gets back, whether it still has the
\* session or not.
Started(r) ==
  /\ stage[r] = "reserved"
  /\ stage' = [stage EXCEPT ![r] = "started"]
  /\ pendingOwners' = pendingOwners \ {owner[r]}
  /\ activeByOwner' = [activeByOwner EXCEPT ![owner[r]] = r]
  /\ timeouts' = timeouts \cup {r}
  /\ status' = [status EXCEPT ![r] = "running"]
  /\ \E p \in {"running", "spawn_failed"} :
       process' = [process EXCEPT ![r] = p]
  /\ verificationRuns' = [verificationRuns EXCEPT ![owner[r]] = r]
  /\ UNCHANGED <<server, sessions, owner, finishing, forceTimers, reason,
                 forced, killed, refused, orphaned>>

-----------------------------------------------------------------------------
(* Termination.                                                            *)

\* The group of a running process cannot be signalled (EPERM): kill() emits
\* "error" on the child at once, and finish() ends the run although the
\* process goes on.
Refused(r) ==
  /\ process[r] = "running"
  /\ refused' = refused \cup {r}
  /\ finishing' = finishing \cup {r}
  /\ timeouts' = timeouts \ {r}
  /\ status' = [status EXCEPT ![r] = "error"]
  /\ stage' = [stage EXCEPT ![r] = "completing"]

\* What a signal that arrives leaves alone.  SIGTERM itself is left out: a
\* child may end at any time, asked to or not.
Delivered == UNCHANGED <<refused, finishing, stage>>

\* Faulty variant: no grace timer is set.
RequestTerminationOnce(r, why) ==
  IF r \in finishing \/ reason[r] # "none"
    THEN UNCHANGED <<reason, forceTimers>>
    ELSE /\ reason' = [reason EXCEPT ![r] = why]
         /\ UNCHANGED forceTimers

\* The grace timer is set after the signal, so that it stays set, to no
\* effect, when the signal was refused.
RequestTermination(r, why) ==
  IF r \in finishing \/ reason[r] # "none"
    THEN UNCHANGED <<reason, forceTimers>>
    ELSE /\ reason' = [reason EXCEPT ![r] = why]
         /\ forceTimers' = forceTimers \cup {r}

\* cancel(), for a run that is active and not finishing.
Cancels(r) ==
  /\ RequestTermination(r, "cancelled")
  /\ \/ /\ Delivered
        /\ status' = IF reason[r] = "none"
                       THEN [status EXCEPT ![r] = "cancelling"] ELSE status
        /\ UNCHANGED timeouts
     \/ reason[r] = "none" /\ Refused(r)
  /\ UNCHANGED <<forced, process, killed>>

\* A cancellation asked for by the session, which keeps the run it gets back.
Cancel(r) ==
  /\ owner[r] \in sessions /\ activeByOwner[owner[r]] = r
  /\ r \notin finishing
  /\ Cancels(r)
  /\ verificationRuns' = [verificationRuns EXCEPT ![owner[r]] = r]
  /\ UNCHANGED <<server, sessions, owner, slots, orphaned>>

Timeout(r) ==
  /\ r \in timeouts
  /\ RequestTermination(r, "timed_out")
  /\ \/ /\ Delivered
        /\ timeouts' = timeouts \ {r}
        /\ UNCHANGED status
     \/ /\ r \notin finishing /\ reason[r] = "none"
        /\ Refused(r)
  /\ UNCHANGED <<server, manager, owner, slots, forced, process, killed,
                 orphaned>>

\* A group that is gone cannot be killed.
Kill(R) == killed' = killed \cup {r \in R : process[r] = "running"}

\* The grace timer of a run that has not finished forces it.
Forces(r) ==
  /\ r \notin finishing
  /\ forced' = forced \cup {r}
  /\ \/ Kill({r}) /\ Delivered /\ UNCHANGED <<timeouts, status>>
     \/ Refused(r) /\ UNCHANGED killed

ForceTimer(r) ==
  /\ r \in forceTimers
  /\ forceTimers' = forceTimers \ {r}
  /\ \/ Forces(r)
     \/ /\ r \in finishing
        /\ UNCHANGED <<finishing, timeouts, forced, status, stage, killed,
                       refused>>
  /\ UNCHANGED <<server, manager, owner, slots, reason, process, orphaned>>

-----------------------------------------------------------------------------
(* The child and finish().                                                 *)

\* How a process ends is looked at only when its run is not over.
Ends(r) ==
  /\ process[r] = "running"
  /\ \E p \in {"clean", "unclean"} :
       /\ p = "clean" => r \notin finishing
       /\ process' = [process EXCEPT ![r] = p]
  /\ UNCHANGED <<server, manager, owner, stage, slots, run, killed, refused,
                 orphaned>>

\* Faulty variant: the reason is not looked up when the child closes.
OutcomeByExit(r) ==
  IF process[r] = "spawn_failed" THEN "error"
  ELSE IF process[r] = "clean" THEN "passed" ELSE "failed"

\* completeVerificationRun.
Outcome(r) ==
  IF process[r] = "spawn_failed" THEN "error"
  ELSE IF reason[r] # "none" THEN reason[r]
  ELSE IF process[r] = "clean" THEN "passed" ELSE "failed"

\* Faulty variant: every event finishes the run.
FinishEvery(r) ==
  /\ finishing' = finishing \cup {r}
  /\ timeouts' = timeouts \ {r} /\ forceTimers' = forceTimers \ {r}
  /\ status' = [status EXCEPT ![r] = Outcome(r)]
  /\ stage' = [stage EXCEPT ![r] = "completing"]

\* The first event of the child finishes its run; others are ignored.
Finish(r) ==
  IF r \in finishing
    THEN UNCHANGED <<finishing, timeouts, forceTimers, status, stage>>
    ELSE /\ finishing' = finishing \cup {r}
         /\ timeouts' = timeouts \ {r} /\ forceTimers' = forceTimers \ {r}
         /\ status' = [status EXCEPT ![r] = Outcome(r)]
         /\ stage' = [stage EXCEPT ![r] = "completing"]

\* The error event of a child that could not be spawned, then its close
\* event; a child that runs reports an error when a signal is refused.
ChildError(r) ==
  /\ process[r] = "spawn_failed"
  /\ Finish(r)
  /\ process' = [process EXCEPT ![r] = "unclean"]
  /\ UNCHANGED <<server, manager, owner, slots, reason, forced, killed,
                 refused, orphaned>>

ChildClose(r) ==
  /\ process[r] \in {"clean", "unclean"}
  /\ Finish(r)
  /\ process' = [process EXCEPT ![r] = "closed"]
  /\ UNCHANGED <<server, manager, owner, slots, reason, forced, killed,
                 refused, orphaned>>

\* HEAD was observed again: the owner is free and the outcome published.
Completed(r) ==
  /\ stage[r] = "completing"
  /\ stage' = [stage EXCEPT ![r] = "done"]
  /\ activeByOwner' = [activeByOwner EXCEPT ![owner[r]] = None]
  /\ Emit(r)
  /\ UNCHANGED <<server, sessions, owner, pendingOwners, run, child, orphaned>>

-----------------------------------------------------------------------------
(* The session manager.                                                    *)

StartingFor(O) == {r \in Runs : stage[r] = "reserved" /\ owner[r] \in O}

\* Faulty variant: the run is left to its timeout.
RemoveSessionOnly(o) ==
  /\ o \in sessions
  /\ sessions' = sessions \ {o}
  /\ verificationRuns' = [verificationRuns EXCEPT ![o] = None]
  /\ orphaned' = orphaned \cup StartingFor({o})
  /\ UNCHANGED <<server, owner, stage, slots, run, child>>

\* The active run of a removed session is cancelled and its result forgotten.
RemoveSession(o) ==
  /\ o \in sessions
  /\ sessions' = sessions \ {o}
  /\ LET r == activeByOwner[o]
     IN IF r # None /\ r \notin finishing
          THEN Cancels(r) ELSE UNCHANGED <<stage, run, child>>
  /\ verificationRuns' = [verificationRuns EXCEPT ![o] = None]
  /\ orphaned' = orphaned \cup StartingFor({o})
  /\ UNCHANGED <<server, owner, slots>>

\* Active groups are killed, or refuse to be, and the runner is emptied.  The
\* manager then awaits its terminals, with the WebSocket hub still open; the
\* model does not end this wait.
Shutdown ==
  /\ server = "running"
  /\ server' = "stopping"
  /\ LET active == {activeByOwner[o] : o \in ActiveOwners}
     IN /\ finishing' = finishing \cup active
        /\ timeouts' = timeouts \ active
        /\ forceTimers' = forceTimers \ active
        /\ \E R \in SUBSET {r \in active : process[r] = "running"} :
             Kill(active \ R) /\ refused' = refused \cup R
  /\ activeByOwner' = [o \in Owners |-> None]
  /\ pendingOwners' = {}
  /\ orphaned' = orphaned \cup StartingFor(Owners)
  /\ UNCHANGED <<manager, owner, stage, reason, forced, status, process>>

-----------------------------------------------------------------------------

Awaited(r) == StartFails(r) \/ Started(r) \/ Completed(r)

Event(r) == Timeout(r) \/ ForceTimer(r) \/ ChildError(r) \/ ChildClose(r)

Next ==
  \/ \E r \in Runs, o \in Owners : Start(r, o)
  \/ \E r \in Runs : Cancel(r) \/ Awaited(r) \/ Event(r) \/ Ends(r)
  \/ \E o \in Owners : RemoveSession(o)
  \/ Shutdown

Spec == Init /\ [][Next]_vars

\* HEAD observations have a timeout, timers fire and events are delivered;
\* a child need not end unless it is killed.
FairSpec ==
  /\ Spec
  /\ \A r \in Runs :
       /\ WF_vars(Awaited(r))
       /\ WF_vars(Timeout(r)) /\ WF_vars(ForceTimer(r))
       /\ WF_vars(ChildError(r)) /\ WF_vars(ChildClose(r))
       /\ WF_vars(r \in killed /\ Ends(r))

-----------------------------------------------------------------------------
(* Properties.                                                             *)

TypeOK ==
  /\ server \in {"running", "stopping"}
  /\ sessions \subseteq Owners
  /\ verificationRuns \in [Owners -> Runs \cup {None}]
  /\ owner \in [Runs -> Owners \cup {None}]
  /\ stage \in [Runs -> {"none", "reserved", "started", "completing", "done",
                         "failed"}]
  /\ pendingOwners \subseteq Owners
  /\ activeByOwner \in [Owners -> Runs \cup {None}]
  /\ finishing \subseteq Runs /\ timeouts \subseteq Runs
  /\ forceTimers \subseteq Runs /\ forced \subseteq Runs
  /\ killed \subseteq Runs /\ refused \subseteq Runs
  /\ orphaned \subseteq Runs
  /\ reason \in [Runs -> Reasons]
  /\ status \in [Runs -> Statuses]
  /\ process \in [Runs -> Ended \cup {"none", "running", "closed"}]

Executing == {r \in Runs : process[r] = "running"}

\* On a running server no session has two processes, and no more than
\* MaxConcurrentRuns run, though each start awaits between its reservation
\* and its process.  The exception is a process the system refused to signal:
\* its run is over, as an error, and its slot is free while it goes on.
RunsAreReserved ==
  server = "running" =>
    /\ \A r, s \in Executing \ refused : owner[r] = owner[s] => r = s
    /\ Cardinality({owner[r] : r \in Executing \ refused})
         <= MaxConcurrentRuns
    /\ \A r \in Executing \cap refused : status[r] = "error"

\* The published outcome is what happened: passed and failed runs were never
\* asked to end, cancelled and timed out ones were, for that reason first,
\* and a group that was killed is recorded as forced, unless its run is over
\* as an error already.
OutcomeIsEvidence ==
  \A r \in Runs : stage[r] \in {"completing", "done"} =>
    /\ status[r] \in {"passed", "failed"} => reason[r] = "none"
    /\ status[r] \in {"cancelled", "timed_out"} => reason[r] = status[r]
    /\ r \in killed => r \in forced \/ status[r] = "error"

\* A run has one outcome, whatever events its process reports.
OneOutcome ==
  [][\A r \in Runs : status[r] \in Final => status'[r] = status[r]]_vars

\* A session that was removed leaves no run behind that nobody asked to end,
\* and no result, but for a run that was being started.
RemovedLeaveNothing ==
  server = "running" =>
    \A o \in Owners \ sessions :
      /\ \A r \in Executing \ orphaned :
           owner[r] = o => reason[r] # "none"
      /\ verificationRuns[o] \in orphaned \cup {None}

\* Every run that was started ends, whatever its process ignores; only a
\* process that cannot be signalled may go on, and on a server that keeps
\* running it holds no slot.
EveryRunEnds ==
  \A r \in Runs :
    stage[r] = "reserved" ~>
      \/ process[r] \in {"none", "closed"} /\ stage[r] # "reserved"
      \/ r \in refused /\ r \notin {activeByOwner[o] : o \in Owners}

-----------------------------------------------------------------------------
(* A claim of the repository that the code does not keep.                  *)

\* A graceful stop terminates the process groups of all the runs, those that
\* can be signalled.
StopTerminatesRuns ==
  server = "stopping" => Executing \ refused \subseteq killed
=============================================================================
