----------------------- MODULE SessionLifecycleProofs -----------------------
(***************************************************************************)
(* The safety properties of SessionLifecycle, proved for any number of     *)
(* create() calls and any bounds.                                          *)
(*                                                                         *)
(* The argument: no process exists before it is spawned (Stages), only     *)
(* finished creations are registered, and a registered session is exited   *)
(* only when its process has ended (Registered).                           *)
(***************************************************************************)
EXTENDS SessionLifecycle, TLAPS

\* What has been spawned, and how, at each stage of create().
Stages ==
  \A i \in Ids :
    /\ creation[i] \in {"none", "preparing", "retaining"} =>
         process[i] = "none"

\* The registry holds created sessions; the exited ones have ended.
Registered ==
  \A i \in sessions :
    /\ creation[i] = "created"
    /\ processState[i] \in {"live", "closing", "exited"}
    /\ processState[i] = "exited" => process[i] = "ended"

IInv ==
  /\ TypeOK
  /\ Stages
  /\ Registered
  /\ ClosedHasEnded
  /\ NoLateUpdate

-----------------------------------------------------------------------------

\* Sessions start with nothing spawned or shown.
LEMMA InitInv == Init => IInv
BY DEF Init, IInv, TypeOK, Stages, Registered, ClosedHasEnded, Gone,
       NoLateUpdate, Modes, Signals

\* Signals stay within the signals there are.
LEMMA SendTypes ==
  ASSUME TypeOK, NEW s \in Signals, NEW I, Send(s, I)
  PROVE  signals' \in [Ids -> SUBSET Signals]
BY DEF TypeOK, Send

\* A step of create() keeps the invariant.
LEMMA CreatingStep ==
  ASSUME IInv, NEW i \in Ids, Creating(i) \/ Create(i)
  PROVE  IInv'
<1> USE DEF IInv, TypeOK, Stages, Registered, ClosedHasEnded, Gone,
            NoLateUpdate, Modes, registry, pty, awaited, counters, history, Goes
<1>1. CASE Create(i)
  BY <1>1 DEF Create
<1>2. CASE PrepareFails(i)
  BY <1>2 DEF PrepareFails
<1>3. CASE Prepare(i)
  BY <1>3 DEF Prepare, Spawn
<1>4. CASE Retained(i)
  BY <1>4 DEF Retained, Register, Spawn
<1>5. CASE RetainFails(i)
  BY <1>5 DEF RetainFails
<1>6. CASE Recorded(i)
  BY <1>6 DEF Recorded, Register
<1>7. CASE RecordFails(i)
  <2>1. signals' \in [Ids -> SUBSET Signals]
    BY <1>7, SendTypes DEF RecordFails, Signals
  <2> QED BY <1>7, <2>1 DEF RecordFails
<1> QED BY <1>1, <1>2, <1>3, <1>4, <1>5, <1>6, <1>7 DEF Creating

\* An end of a process, seen or not, keeps the invariant.
LEMMA ProcessStep ==
  ASSUME IInv, NEW i \in Ids, Ends(i) \/ Exit(i)
  PROVE  IInv'
<1> USE DEF IInv, TypeOK, Stages, Registered, ClosedHasEnded, Gone,
            NoLateUpdate, Modes, registry, pty, awaited, counters, history
<1>1. CASE Ends(i)
  BY <1>1 DEF Ends
<1>2. CASE Exit(i)
  BY <1>2 DEF Exit, RemoveSession
<1> QED BY <1>1, <1>2

\* A close and what it awaits keep the invariant.
LEMMA ClosingStep ==
  ASSUME IInv, NEW i \in Ids,
         CloseForced(i) \/ CloseNotLive(i) \/ ForceTimer(i)
           \/ Detached(i) \/ DetachFails(i)
  PROVE  IInv'
<1>0. signals' \in [Ids -> SUBSET Signals]
  BY SendTypes DEF IInv, TypeOK, CloseForced, CloseNotLive, ForceTimer,
                   Detached, DetachFails, Signals, pty
<1> USE <1>0 DEF IInv, TypeOK, Stages, Registered, ClosedHasEnded, Gone,
                 NoLateUpdate, Modes, registry, pty,
                 awaited, counters, history
<1>1. CASE CloseForced(i)
  BY <1>1 DEF CloseForced
<1>2. CASE CloseNotLive(i)
  BY <1>2 DEF CloseNotLive, RemoveSession
<1>3. CASE ForceTimer(i)
  BY <1>3 DEF ForceTimer
<1>4. CASE Detached(i)
  BY <1>4 DEF Detached
<1>5. CASE DetachFails(i)
  BY <1>5 DEF DetachFails
<1> QED BY <1>1, <1>2, <1>3, <1>4, <1>5

\* Work that outlives an await keeps the invariant.
LEMMA AwaitedStep ==
  ASSUME IInv, NEW i \in Ids,
         RefreshRepository(i) \/ RepositoryRead(i)
           \/ ResumeReference(i) \/ ResumeRetained(i)
  PROVE  IInv'
<1> USE DEF IInv, TypeOK, Stages, Registered, ClosedHasEnded, Gone,
            NoLateUpdate, Modes, registry, pty, awaited, counters, history
<1>1. CASE RefreshRepository(i)
  BY <1>1 DEF RefreshRepository
<1>2. CASE RepositoryRead(i)
  BY <1>2 DEF RepositoryRead
<1>3. CASE ResumeReference(i)
  BY <1>3 DEF ResumeReference
<1>4. CASE ResumeRetained(i)
  BY <1>4 DEF ResumeRetained
<1> QED BY <1>1, <1>2, <1>3, <1>4

\* So does the shutdown of the server.
LEMMA ShutdownStep ==
  ASSUME IInv, Shutdown \/ ShutdownDone
  PROVE  IInv'
<1> USE DEF IInv, TypeOK, Stages, Registered, ClosedHasEnded, Gone,
            NoLateUpdate, Modes, registry, pty, awaited, counters, history
<1>1. CASE Shutdown
  <2>1. signals' \in [Ids -> SUBSET Signals]
    BY <1>1, SendTypes DEF Shutdown, Signals
  <2> QED BY <1>1, <2>1 DEF Shutdown
<1>2. CASE ShutdownDone
  BY <1>2 DEF ShutdownDone
<1> QED BY <1>1, <1>2

-----------------------------------------------------------------------------

\* The inductive invariant: what is spawned at each stage, what the registry
\* holds, and the two safety properties.
THEOREM Invariance == Spec => []IInv
<1>1. IInv /\ [Next]_vars => IInv'
  <2> SUFFICES ASSUME IInv, [Next]_vars
               PROVE  IInv'
    OBVIOUS
  <2>1. CASE Next
    BY <2>1, CreatingStep, ProcessStep, ClosingStep, AwaitedStep, ShutdownStep
       DEF Next, Requested, Continued
  <2>2. CASE UNCHANGED vars
    BY <2>2 DEF vars, registry, pty, awaited, counters, history, IInv,
                TypeOK, Stages, Registered, ClosedHasEnded, Gone, NoLateUpdate
  <2> QED BY <2>1, <2>2
<1> QED BY <1>1, InitInv, PTL DEF Spec

\* Every variable keeps its type.
THEOREM TypeCorrect == Spec => []TypeOK
BY Invariance, PTL DEF IInv

\* On a running server a session leaves the registry only when its process
\* has ended, or by a second close while closing.
THEOREM ClosedEnded == Spec => []ClosedHasEnded
BY Invariance, PTL DEF IInv

\* Only a repository read can bring back a removed session to a client.
THEOREM LateUpdates == Spec => []NoLateUpdate
BY Invariance, PTL DEF IInv
=============================================================================
