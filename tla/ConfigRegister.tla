--------------------------- MODULE ConfigRegister ---------------------------
(***************************************************************************)
(* What the Pacium configuration promises its clients: a register that is  *)
(* replaced only by somebody who knew its current revision, one revision   *)
(* at a time, and that keeps what it said it accepted.                     *)
(***************************************************************************)
EXTENDS Naturals

CONSTANTS Clients, Workspaces, MaxRevision

VARIABLES
  value,     \* the document: its revision, 0 if there is none, and workspace
  kept,      \* the last revision that was accepted
  request    \* what each client asked for

vars == <<value, kept, request>>

Idle == [stage |-> "idle"]
Asked(e, w) == [stage |-> "asked", expected |-> e, workspace |-> w]
Done == [stage |-> "done"]

Init ==
  /\ value \in [revision : {0}, workspace : Workspaces]
  /\ kept = 0
  /\ request = [c \in Clients |-> Idle]

Ask(c, e, w) ==
  /\ request[c] = Idle
  /\ request' = [request EXCEPT ![c] = Asked(e, w)]
  /\ UNCHANGED <<value, kept>>

\* The replacement takes place, once.
Replace(c, e, w) ==
  /\ request[c] = Asked(e, w) /\ value.revision = e
  /\ value' = [revision |-> e + 1, workspace |-> w]
  /\ request' = [request EXCEPT ![c] = Done]
  /\ UNCHANGED kept

\* Its client is told so.
Accept(c) ==
  /\ request[c] = Done
  /\ kept' = value.revision
  /\ request' = [request EXCEPT ![c] = Idle]
  /\ UNCHANGED value

\* An error says nothing about what happened.
Fail(c) ==
  /\ request' = [request EXCEPT ![c] = Idle]
  /\ UNCHANGED <<value, kept>>

\* The machine stops: what was not accepted may be lost.
Lose ==
  /\ value' \in [revision : kept .. value.revision, workspace : Workspaces]
  /\ value'.revision = value.revision => value' = value
  /\ request' = [c \in Clients |-> Idle]
  /\ UNCHANGED kept

Next ==
  \/ \E c \in Clients, e \in 0 .. MaxRevision, w \in Workspaces :
       Ask(c, e, w) \/ Replace(c, e, w)
  \/ \E c \in Clients : Accept(c) \/ Fail(c)
  \/ Lose

Spec == Init /\ [][Next]_vars
=============================================================================
