----------------------- MODULE VerificationRunsProofs -----------------------
(***************************************************************************)
(* The safety properties of VerificationRuns, proved for any finite set of *)
(* sessions and any bounds.                                                *)
(*                                                                         *)
(* The argument: until the runner shuts down, a run that is being started  *)
(* holds its owner's reservation and a run with a process is its owner's   *)
(* active one (Reserved, Slots), so the two maps count every process but   *)
(* those the system refused to signal, whose runs are over as errors; the  *)
(* reason of a run is fixed when it begins to finish, and only runs that   *)
(* did not are signalled (Lifecycle, Killed).                              *)
(***************************************************************************)
EXTENDS VerificationRuns, FiniteSetTheorems, TLAPS

\* What a run can have at each stage.
Lifecycle ==
  \A r \in Runs :
    /\ stage[r] # "none" => owner[r] \in Owners
    /\ stage[r] \in {"none", "reserved", "failed"} =>
         /\ process[r] = "none" /\ status[r] = "none" /\ reason[r] = "none"
         /\ r \notin finishing /\ r \notin timeouts /\ r \notin forceTimers
    /\ r \in forceTimers => reason[r] # "none"
    /\ stage[r] = "started" => status[r] \notin Final
    /\ stage[r] \in {"completing", "done"} =>
         /\ r \in finishing
         /\ process[r] # "running" \/ (r \in refused /\ status[r] = "error")

\* Until shutdown, reservations and active runs are what is being started
\* and what was started.
Reserved ==
  server = "running" =>
    /\ \A r \in Runs : stage[r] = "reserved" =>
         /\ owner[r] \in pendingOwners
         /\ owner[r] \notin sessions => r \in orphaned
    /\ \A r, s \in Runs :
         stage[r] = "reserved" /\ stage[s] = "reserved"
           /\ owner[r] = owner[s] => r = s
    /\ \A o \in pendingOwners : activeByOwner[o] = None
    /\ \A r \in Runs : stage[r] \in {"started", "completing"} =>
         activeByOwner[owner[r]] = r
    /\ \A r \in Runs : stage[r] = "started" => r \notin finishing
    /\ \A r \in refused : reason[r] # "none" /\ stage[r] # "started"

\* An active run is its owner's, was started and is not published yet.
Active ==
  \A o \in Owners : activeByOwner[o] # None =>
    /\ owner[activeByOwner[o]] = o
    /\ stage[activeByOwner[o]] \in {"started", "completing"}

\* They never exceed the limit together.
Slots ==
  server = "running" =>
    Cardinality(ActiveOwners) + Cardinality(pendingOwners)
      <= MaxConcurrentRuns

\* A run was killed by its grace timer, or by a shutdown that ended it or
\* found it over as an error.
Killed ==
  \A r \in killed :
    \/ r \in forced
    \/ status[r] = "error"
    \/ stage[r] = "started" /\ r \in finishing

Inv ==
  /\ TypeOK
  /\ Lifecycle
  /\ Active
  /\ Reserved
  /\ Killed
  /\ OutcomeIsEvidence
  /\ RemovedLeaveNothing

IInv == Inv /\ Slots

-----------------------------------------------------------------------------

\* A runner starts empty.
LEMMA InitInv == Init => IInv
<1> SUFFICES ASSUME Init PROVE IInv
  OBVIOUS
<1>1. Inv
  BY DEF Init, Inv, TypeOK, Lifecycle, Active, Reserved, Killed,
         OutcomeIsEvidence, RemovedLeaveNothing, Executing, Reasons, Statuses,
         Final, Ended
<1>2. ActiveOwners = {} /\ pendingOwners = {}
  BY DEF Init, ActiveOwners
<1>3. Slots
  BY <1>2, FS_EmptySet, RunsAssumption DEF Slots
<1> QED BY <1>1, <1>3 DEF IInv

\* No run is numbered None.
LEMMA NoneIsNoRun == None \notin Runs
BY RunsAssumption DEF None, Runs

-----------------------------------------------------------------------------
(* The invariant but for the count of the slots.                           *)

\* A start keeps it: the owner was neither pending nor active.
LEMMA StartInv ==
  ASSUME Inv, NEW r \in Runs, NEW o \in Owners, Start(r, o)
  PROVE  Inv'
BY NoneIsNoRun
   DEF Start, Busy, Inv, TypeOK, Lifecycle, Active, Reserved, Killed,
       OutcomeIsEvidence, RemovedLeaveNothing, Executing, manager, run, child

\* So do the continuations after the observations of HEAD.
LEMMA AwaitedInv ==
  ASSUME Inv, NEW r \in Runs, Awaited(r)
  PROVE  Inv'
<1> USE NoneIsNoRun
    DEF Inv, TypeOK, Lifecycle, Active, Reserved, Killed, OutcomeIsEvidence,
        RemovedLeaveNothing, Executing, manager, run, child, slots,
        Statuses, Final, Ended, Reasons
<1>1. CASE StartFails(r)
  BY <1>1 DEF StartFails
<1>2. CASE Started(r)
  BY <1>2 DEF Started
<1>3. CASE Completed(r)
  BY <1>3 DEF Completed, Emit
<1> QED BY <1>1, <1>2, <1>3 DEF Awaited

\* So does the timeout, which leaves a finishing run alone.
LEMMA TimeoutInv ==
  ASSUME Inv, NEW r \in Runs, Timeout(r)
  PROVE  Inv'
BY NoneIsNoRun
   DEF Timeout, RequestTermination, Delivered, Refused, Inv, TypeOK, Lifecycle,
       Active, Reserved, Killed, OutcomeIsEvidence, RemovedLeaveNothing,
       Executing, manager, slots, Statuses, Final, Ended, Reasons

\* So does the grace timer, which kills the group, or ends the run of a group
\* that cannot be killed.
LEMMA ForceInv ==
  ASSUME Inv, NEW r \in Runs, ForceTimer(r)
  PROVE  Inv'
<1>1. /\ r \in forceTimers /\ forceTimers' = forceTimers \ {r}
      /\ UNCHANGED <<server, sessions, verificationRuns, owner, pendingOwners,
                     activeByOwner, reason, process, orphaned>>
  BY DEF ForceTimer, manager, slots
<1>2. CASE r \in finishing
  <2>1. UNCHANGED <<finishing, timeouts, forced, status, stage, killed,
                    refused>>
    BY <1>2 DEF ForceTimer, Forces
  <2> QED
    BY <1>1, <2>1 DEF Inv, TypeOK, Lifecycle, Active, Reserved, Killed,
                      OutcomeIsEvidence, RemovedLeaveNothing, Executing
<1>3. CASE Forces(r)
  <2>1. r \notin finishing /\ forced' = forced \cup {r}
    BY <1>3 DEF Forces
  <2>2. stage[r] = "started"
    BY <1>1, <2>1 DEF Inv, TypeOK, Lifecycle
  <2>3. CASE Kill({r}) /\ Delivered /\ UNCHANGED <<timeouts, status>>
    <3>1. /\ killed' \in SUBSET (killed \cup {r})
          /\ UNCHANGED <<refused, finishing, stage, timeouts, status>>
      BY <2>3 DEF Kill, Delivered
    <3> QED
      BY <1>1, <2>1, <2>2, <3>1
         DEF Inv, TypeOK, Lifecycle, Active, Reserved, Killed,
             OutcomeIsEvidence, RemovedLeaveNothing, Executing
  <2>4. CASE Refused(r) /\ UNCHANGED killed
    BY <1>1, <2>1, <2>2, <2>4
       DEF Refused, Inv, TypeOK, Lifecycle, Active, Reserved, Killed,
           OutcomeIsEvidence, RemovedLeaveNothing, Executing, Statuses, Final
  <2> QED BY <1>3, <2>3, <2>4 DEF Forces
<1> QED BY <1>2, <1>3 DEF ForceTimer

\* So do the child and its events.
LEMMA ChildInv ==
  ASSUME Inv, NEW r \in Runs, ChildError(r) \/ ChildClose(r) \/ Ends(r)
  PROVE  Inv'
<1> USE NoneIsNoRun
    DEF Inv, TypeOK, Lifecycle, Active, Reserved, Killed, OutcomeIsEvidence,
        RemovedLeaveNothing, Executing, manager, run, child, slots,
        Statuses, Final, Ended, Reasons
<1>1. CASE ChildError(r)
  BY <1>1 DEF ChildError, Finish, Outcome
<1>2. CASE ChildClose(r)
  BY <1>2 DEF ChildClose, Finish, Outcome
<1>3. CASE Ends(r)
  BY <1>3 DEF Ends
<1> QED BY <1>1, <1>2, <1>3

\* So do cancellations, which find the run active and not finishing.
LEMMA CancelInv ==
  ASSUME Inv, NEW r \in Runs, Cancel(r)
  PROVE  Inv'
BY NoneIsNoRun
   DEF Cancel, Cancels, RequestTermination, Delivered, Refused, Inv, TypeOK, Lifecycle, Active,
       Reserved, Killed, OutcomeIsEvidence, RemovedLeaveNothing, Executing,
       manager, run, child, slots, Statuses, Final, Ended, Reasons

\* So does the removal of a session, which cancels its active run.
LEMMA RemoveInv ==
  ASSUME Inv, NEW o \in Owners, RemoveSession(o)
  PROVE  Inv'
BY NoneIsNoRun
   DEF RemoveSession, StartingFor, Cancels, RequestTermination, Delivered, Refused, Inv, TypeOK,
       Lifecycle, Active, Reserved, Killed, OutcomeIsEvidence,
       RemovedLeaveNothing, Executing, manager, run, child, slots, Statuses, Final, Ended, Reasons

\* So does the shutdown, which kills no run that is completing.
LEMMA ShutdownInv ==
  ASSUME Inv, Shutdown
  PROVE  Inv'
<1>1. \A o \in ActiveOwners : activeByOwner[o] \in Runs
  BY DEF Inv, TypeOK, ActiveOwners
<1> DEFINE active == {activeByOwner[o] : o \in ActiveOwners}
<1>2. active \in SUBSET Runs
  BY <1>1
<1>3. /\ server' = "stopping" /\ server = "running"
      /\ finishing' = finishing \cup active
      /\ timeouts' = timeouts \ active
      /\ forceTimers' = forceTimers \ active
      /\ killed' \in SUBSET (killed \cup {r \in active : process[r] = "running"})
      /\ refused' \in SUBSET (refused \cup active)
  <2>1. PICK R \in SUBSET {r \in active : process[r] = "running"} :
          /\ Kill(active \ R)
          /\ refused' = refused \cup R
    BY DEF Shutdown
  <2> QED BY <2>1 DEF Shutdown, Kill
<1>4. /\ activeByOwner' = [o \in Owners |-> None]
      /\ pendingOwners' = {}
      /\ orphaned' = orphaned \cup StartingFor(Owners)
      /\ UNCHANGED <<sessions, verificationRuns, owner, stage, reason, forced,
                     status, process>>
  BY DEF Shutdown, manager
<1> HIDE DEF active
<1>5. TypeOK'
  BY <1>2, <1>3, <1>4 DEF Inv, TypeOK, StartingFor
<1>6. Lifecycle'
  <2>1. \A r \in active : stage[r] \notin {"none", "reserved", "failed"}
    <3>1. \A r \in active : stage[r] \in {"started", "completing"}
      BY DEF active, ActiveOwners, Inv, Active
    <3> QED BY <3>1
  <2>2. \A r \in Runs : r \in refused => r \in refused'
    BY DEF Shutdown
  <2> QED BY <1>2, <1>3, <1>4, <2>1, <2>2 DEF Inv, Lifecycle
<1>7. Killed'
  BY <1>2, <1>3, <1>4 DEF Inv, Killed, Lifecycle, Active, active, ActiveOwners
<1>8. Reserved' /\ Active' /\ RemovedLeaveNothing'
  BY <1>3, <1>4 DEF Reserved, Active, RemovedLeaveNothing
<1>9. OutcomeIsEvidence'
  BY <1>2, <1>3, <1>4 DEF Inv, OutcomeIsEvidence, Lifecycle
<1> QED BY <1>5, <1>6, <1>7, <1>8, <1>9 DEF Inv

-----------------------------------------------------------------------------
(* The count of the slots.                                                 *)

\* Both maps are finite.
LEMMA SlotsFinite ==
  ASSUME TypeOK
  PROVE  /\ IsFiniteSet(ActiveOwners) /\ IsFiniteSet(pendingOwners)
         /\ Cardinality(ActiveOwners) \in Nat
         /\ Cardinality(pendingOwners) \in Nat
<1>1. ActiveOwners \in SUBSET Owners /\ pendingOwners \in SUBSET Owners
  BY DEF TypeOK, ActiveOwners
<1>2. IsFiniteSet(ActiveOwners) /\ IsFiniteSet(pendingOwners)
  BY <1>1, FS_Subset, RunsAssumption
<1> QED BY <1>2, FS_CardinalityType

\* A reservation takes a slot that was free, a started run takes the slot of
\* its reservation, and a completed one gives it back.
LEMMA SlotsStep ==
  ASSUME IInv, [Next]_vars
  PROVE  Slots'
<1> SUFFICES ASSUME server' = "running"
             PROVE  Cardinality(ActiveOwners') + Cardinality(pendingOwners')
                      <= MaxConcurrentRuns
  BY DEF Slots
<1>0. /\ IsFiniteSet(ActiveOwners) /\ IsFiniteSet(pendingOwners)
      /\ Cardinality(ActiveOwners) \in Nat
      /\ Cardinality(pendingOwners) \in Nat /\ MaxConcurrentRuns \in Nat
  BY SlotsFinite, RunsAssumption DEF IInv, Inv
<1>1. ASSUME server = "running", UNCHANGED slots
      PROVE  Cardinality(ActiveOwners') + Cardinality(pendingOwners')
               <= MaxConcurrentRuns
  BY <1>1 DEF IInv, Slots, slots, ActiveOwners
<1>2. ASSUME NEW r \in Runs, NEW o \in Owners, Start(r, o)
      PROVE  Cardinality(ActiveOwners') + Cardinality(pendingOwners')
               <= MaxConcurrentRuns
  <2>1. /\ ActiveOwners' = ActiveOwners
        /\ pendingOwners' = pendingOwners \cup {o}
        /\ Cardinality(ActiveOwners) + Cardinality(pendingOwners)
             < MaxConcurrentRuns
    BY <1>0, <1>2 DEF Start, Busy, ActiveOwners
  <2>2. \/ Cardinality(pendingOwners') = Cardinality(pendingOwners)
        \/ Cardinality(pendingOwners') = Cardinality(pendingOwners) + 1
    BY <1>0, <2>1, FS_AddElement, Zenon
  <2>3. Cardinality(pendingOwners') \in Nat
    BY <1>0, <2>1, FS_AddElement, FS_CardinalityType
  <2> QED BY <1>0, <2>1, <2>2, <2>3
<1>3. ASSUME NEW r \in Runs, StartFails(r)
      PROVE  Cardinality(ActiveOwners') + Cardinality(pendingOwners')
               <= MaxConcurrentRuns
  <2>1. /\ ActiveOwners' = ActiveOwners
        /\ pendingOwners' = pendingOwners \ {owner[r]}
        /\ server = "running"
    BY <1>3 DEF StartFails, ActiveOwners
  <2>2. \/ Cardinality(pendingOwners') = Cardinality(pendingOwners)
        \/ Cardinality(pendingOwners') = Cardinality(pendingOwners) - 1
    BY <1>0, <2>1, FS_RemoveElement, Zenon
  <2>3. Cardinality(pendingOwners') \in Nat
    BY <1>0, <2>1, FS_RemoveElement, FS_CardinalityType
  <2> QED BY <1>0, <2>1, <2>2, <2>3 DEF IInv, Slots
<1>4. ASSUME NEW r \in Runs, Started(r)
      PROVE  Cardinality(ActiveOwners') + Cardinality(pendingOwners')
               <= MaxConcurrentRuns
  <2>1. server = "running" /\ owner[r] \in Owners
    BY <1>4 DEF Started, IInv, Inv, Lifecycle
  <2>2. owner[r] \in pendingOwners
    BY <1>4, <2>1 DEF Started, IInv, Inv, Reserved
  <2>3. pendingOwners' = pendingOwners \ {owner[r]}
    BY <1>4 DEF Started
  <2>4. Cardinality(pendingOwners') = Cardinality(pendingOwners) - 1
    BY <1>0, <2>2, <2>3, FS_RemoveElement
  <2>5. ActiveOwners' = ActiveOwners \cup {owner[r]}
    BY <1>4, <2>1, NoneIsNoRun DEF Started, ActiveOwners, IInv, Inv, TypeOK
  <2>6. /\ Cardinality(ActiveOwners') <= Cardinality(ActiveOwners) + 1
        /\ Cardinality(ActiveOwners') \in Nat
    BY SMTT(30), <1>0, <2>5, FS_AddElement
  <2> QED BY <1>0, <2>1, <2>4, <2>6 DEF IInv, Slots
<1>5. ASSUME NEW r \in Runs, Completed(r)
      PROVE  Cardinality(ActiveOwners') + Cardinality(pendingOwners')
               <= MaxConcurrentRuns
  <2>1. /\ ActiveOwners' \in SUBSET ActiveOwners
        /\ pendingOwners' = pendingOwners /\ server = "running"
    BY <1>5 DEF Completed, ActiveOwners, IInv, Inv, TypeOK
  <2>2. /\ Cardinality(ActiveOwners') <= Cardinality(ActiveOwners)
        /\ Cardinality(ActiveOwners') \in Nat
    BY <1>0, <2>1, FS_Subset, FS_CardinalityType
  <2> QED BY <1>0, <2>1, <2>2 DEF IInv, Slots
<1>6. ASSUME NEW r \in Runs, Cancel(r) \/ Event(r) \/ Ends(r)
      PROVE  server = "running" /\ UNCHANGED slots
  BY <1>6 DEF Cancel, Event, Ends, Timeout, ForceTimer, ChildError, ChildClose,
              slots
<1>7. ASSUME NEW o \in Owners, RemoveSession(o)
      PROVE  server = "running" /\ UNCHANGED slots
  BY <1>7 DEF RemoveSession, slots
<1>8. ~Shutdown
  BY DEF Shutdown
<1>9. UNCHANGED vars => server = "running" /\ UNCHANGED slots
  BY DEF vars, slots
<1> QED BY <1>1, <1>2, <1>3, <1>4, <1>5, <1>6, <1>7, <1>8, <1>9
        DEF Next, Awaited

-----------------------------------------------------------------------------

\* The inductive invariant: the stages of a run, the slots, and the safety
\* properties that rest on them.
THEOREM Invariance == Spec => []IInv
<1>1. IInv /\ [Next]_vars => IInv'
  <2> SUFFICES ASSUME IInv, [Next]_vars
               PROVE  IInv'
    OBVIOUS
  <2>1. CASE Next
    <3>1. Inv'
      BY <2>1, StartInv, AwaitedInv, TimeoutInv, ForceInv, ChildInv, CancelInv, RemoveInv,
         ShutdownInv DEF IInv, Next, Event
    <3> QED BY <3>1, SlotsStep DEF IInv
  <2>2. CASE UNCHANGED vars
    <3>1. Inv'
      BY <2>2 DEF vars, manager, slots, run, child, IInv, Inv, TypeOK,
                  Lifecycle, Active, Reserved, Killed, OutcomeIsEvidence,
                  RemovedLeaveNothing, Executing
    <3> QED BY <3>1, SlotsStep DEF IInv
  <2> QED BY <2>1, <2>2
<1> QED BY <1>1, InitInv, PTL DEF Spec

\* Every variable keeps its type.
THEOREM TypeCorrect == Spec => []TypeOK
BY Invariance, PTL DEF IInv, Inv

\* One process per session and at most MaxConcurrentRuns in all, until the
\* runner is shut down; processes the system refused to signal go on beside
\* them, and their runs are over as errors.
THEOREM ReservedRuns == Spec => []RunsAreReserved
<1>1. IInv => RunsAreReserved
  <2> SUFFICES ASSUME IInv, server = "running"
               PROVE  /\ \A r, s \in Executing \ refused :
                           owner[r] = owner[s] => r = s
                      /\ Cardinality({owner[r] : r \in Executing \ refused})
                           <= MaxConcurrentRuns
                      /\ \A r \in Executing \cap refused :
                           status[r] = "error"
    BY DEF RunsAreReserved
  <2> DEFINE Held == Executing \ refused
  <2>1. \A r \in Held : /\ stage[r] = "started" /\ owner[r] \in Owners
                        /\ activeByOwner[owner[r]] = r
    BY DEF Executing, IInv, Inv, TypeOK, Lifecycle, Reserved
  <2>2. {owner[r] : r \in Held} \in SUBSET ActiveOwners
    BY <2>1, NoneIsNoRun DEF ActiveOwners, Executing
  <2>3. /\ IsFiniteSet(ActiveOwners)
        /\ Cardinality(ActiveOwners) \in Nat
        /\ Cardinality(pendingOwners) \in Nat
    BY SlotsFinite DEF IInv, Inv
  <2>4. /\ Cardinality({owner[r] : r \in Held})
             <= Cardinality(ActiveOwners)
        /\ IsFiniteSet({owner[r] : r \in Held})
    BY <2>2, <2>3, FS_Subset
  <2>5. Cardinality({owner[r] : r \in Held}) \in Nat
    BY <2>4, FS_CardinalityType
  <2>6. MaxConcurrentRuns \in Nat
    BY RunsAssumption
  <2>7. \A r \in Executing \cap refused : status[r] = "error"
    BY DEF Executing, IInv, Inv, TypeOK, Lifecycle, Reserved
  <2> QED BY <2>1, <2>3, <2>4, <2>5, <2>6, <2>7 DEF IInv, Slots
<1> QED BY <1>1, Invariance, PTL

\* The published outcome is what happened to the process.
THEOREM Evidence == Spec => []OutcomeIsEvidence
BY Invariance, PTL DEF IInv, Inv

\* A removed session leaves no unattended run behind, but for those that
\* were being started.
THEOREM Removed == Spec => []RemovedLeaveNothing
BY Invariance, PTL DEF IInv, Inv

\* A run has one outcome.
THEOREM SingleOutcome == Spec => OneOutcome
<1>1. ASSUME IInv, Next, NEW r \in Runs, status[r] \in Final
      PROVE  status'[r] = status[r]
  <2>1. r \in finishing /\ stage[r] \in {"completing", "done"}
    BY <1>1 DEF IInv, Inv, TypeOK, Lifecycle, Statuses, Final
  <2>2. CASE \E s \in Runs, o \in Owners : Start(s, o)
    BY <2>2 DEF Start, run
  <2>3. CASE \E s \in Runs : Awaited(s)
    BY <1>1, <2>1, <2>3 DEF Awaited, StartFails, Started, Completed, run, IInv,
                            Inv, TypeOK
  <2>4. ASSUME NEW s \in Runs, Event(s) \/ Ends(s)
        PROVE  status'[r] = status[r]
    <3>1. CASE Timeout(s)
      BY <2>1, <3>1, <1>1 DEF Timeout, Refused, IInv, Inv, TypeOK
    <3>2. CASE ForceTimer(s)
      <4>1. status' = status \/ (s \notin finishing /\ Refused(s))
        BY <3>2 DEF ForceTimer, Forces
      <4> QED BY <2>1, <4>1, <1>1 DEF Refused, IInv, Inv, TypeOK
    <3>3. CASE ChildError(s) \/ ChildClose(s) \/ Ends(s)
      BY <2>1, <3>3, <1>1
         DEF ChildError, ChildClose, Ends, Finish, run, IInv, Inv, TypeOK
    <3> QED BY <2>4, <3>1, <3>2, <3>3 DEF Event
  <2>5. CASE \E s \in Runs : Cancel(s)
    BY <1>1, <2>1, <2>5 DEF Cancel, Cancels, Refused, IInv, Inv, TypeOK, Final
  <2>6. CASE \E o \in Owners : RemoveSession(o)
    BY <1>1, <2>1, <2>6 DEF RemoveSession, Cancels, Refused, run, IInv, Inv,
                            TypeOK, Final
  <2>7. CASE Shutdown
    BY <2>7 DEF Shutdown
  <2> QED BY <1>1, <2>2, <2>3, <2>4, <2>5, <2>6, <2>7 DEF Next
<1>2. IInv /\ [Next]_vars
        => [\A r \in Runs : status[r] \in Final => status'[r] = status[r]]_vars
  BY <1>1
<1> QED BY <1>2, Invariance, PTL DEF Spec, OneOutcome
=============================================================================
