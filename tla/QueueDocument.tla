--------------------------- MODULE QueueDocument ---------------------------
(***************************************************************************)
(* The queue-state.json document: immutable decisions, append-only         *)
(* delivery attempts and append-only lifecycle resolutions, the rules that *)
(* validateQueueStateV3 checks on every read and before every write, and   *)
(* the four updates QueueDecisionStore makes to it.                        *)
(*                                                                         *)
(* A decision is identified by the queue item it answers: the store keeps  *)
(* at most one per item identity.  All the items of a model belong to one  *)
(* source of one workspace.  A record's hash covers the whole record, so a *)
(* reference by id and hash is the record itself: in particular the hash   *)
(* of an attempt changes when its outcome is recorded.  Payloads, notes,   *)
(* actors and timestamps are left out.                                     *)
(***************************************************************************)
EXTENDS Naturals, Sequences, FiniteSets

CONSTANTS
  Items,           \* queue items (identity keys) of one source
  Intents,         \* what a decision can say: kind, payload and note
  Undecided,       \* stands for "no decision recorded"
  MaxDecisions     \* MAX_QUEUE_DECISIONS, 4096 in the code

ASSUME DocumentAssumption ==
  /\ Undecided \notin Intents
  /\ MaxDecisions \in Nat \ {0}

Pending  == "pending"                         \* outcome: null

\* No rule tells a failed attempt from an unknown one: both are undelivered.
Outcomes == {"delivered", "undelivered"}
Attempt  == [id : Nat, outcome : Outcomes \cup {Pending}]

\* Supersession names only a related decision, every other action only an
\* attempt of the decision it resolves.
AttemptActions == {"acknowledged", "applied", "unable_to_apply",
                   "confirmed_not_delivered"}
AttemptResolution == [action : AttemptActions, delivery : Attempt]
Supersession      == [action : {"superseded"}, related : Items]
Resolution        == AttemptResolution \cup Supersession

Document == [decided     : [Items -> Intents \cup {Undecided}],
             attempts    : [Items -> Seq(Attempt)],
             resolutions : [Items -> Seq(Resolution)]]

EmptyDocument == [decided     |-> [i \in Items |-> Undecided],
                  attempts    |-> [i \in Items |-> << >>],
                  resolutions |-> [i \in Items |-> << >>]]

-----------------------------------------------------------------------------
(* Reading a document.                                                     *)

Decided(d) == {i \in Items : d.decided[i] # Undecided}

\* The positions of the attempts, and of the resolutions, of all the items.
AttemptSlots(d) ==
  UNION {{<<i, n>> : n \in 1 .. Len(d.attempts[i])} : i \in Items}
ResolutionSlots(d) ==
  UNION {{<<i, n>> : n \in 1 .. Len(d.resolutions[i])} : i \in Items}

HasAttempt(d, i, r) == \E n \in 1 .. Len(d.attempts[i]) : d.attempts[i][n] = r
HasAttemptId(d, i, a) ==
  \E n \in 1 .. Len(d.attempts[i]) : d.attempts[i][n].id = a
HasAction(d, i, action) ==
  \E n \in 1 .. Len(d.resolutions[i]) : d.resolutions[i][n].action = action

\* A label that names an attempt as it was while its outcome was unknown.
LabelsPending(d, i, a) ==
  \E n \in 1 .. Len(d.resolutions[i]) :
     /\ d.resolutions[i][n].action # "superseded"
     /\ d.resolutions[i][n].delivery = [id |-> a, outcome |-> Pending]

\* An exact confirmed_not_delivered record for the first attempt.
Unlocked(d, i) ==
  \E n \in 1 .. Len(d.resolutions[i]) :
     /\ d.resolutions[i][n].action = "confirmed_not_delivered"
     /\ d.resolutions[i][n].delivery = d.attempts[i][1]

\* What the reconciliation view says of a retry.
RetryStatus(d, i) ==
  LET attempts == d.attempts[i]
      labels   == d.resolutions[i]
      last     == IF labels = << >> THEN "awaiting_evidence"
                                    ELSE labels[Len(labels)].action
  IN CASE Len(attempts) = 0 -> "not_applicable"
       [] Len(attempts) >= 2 -> "exhausted"
       [] OTHER ->
            IF \/ attempts[1].outcome = "delivered"
               \/ last \in {"acknowledged", "applied", "unable_to_apply",
                           "superseded"}
              THEN "not_applicable"
              ELSE IF last = "confirmed_not_delivered" THEN "ready"
                                                       ELSE "locked"

\* The order of lifecycle labels: applied, unable_to_apply and superseded
\* are final.
MayFollow(current, next) ==
  \/ current = "acknowledged" /\ next \in {"applied", "unable_to_apply",
                                           "superseded"}
  \/ current = "confirmed_not_delivered" /\ next # "confirmed_not_delivered"

\* e keeps everything recorded in d: decisions and outcomes are immutable,
\* attempts and resolutions append-only.
Extends(d, e) ==
  \A i \in Items :
    /\ d.decided[i] # Undecided => e.decided[i] = d.decided[i]
    /\ \A n \in 1 .. Len(d.attempts[i]) :
         /\ n <= Len(e.attempts[i])
         /\ e.attempts[i][n].id = d.attempts[i][n].id
         /\ d.attempts[i][n].outcome # Pending
              => e.attempts[i][n].outcome = d.attempts[i][n].outcome
    /\ \A n \in 1 .. Len(d.resolutions[i]) :
         /\ n <= Len(e.resolutions[i])
         /\ e.resolutions[i][n] = d.resolutions[i][n]

-----------------------------------------------------------------------------
(* QueueStateV3DocumentSchema: the bounds of its arrays, and the rules of    *)
(* validateQueueStateV3.  The bounds follow the code:                      *)
(* MAX_QUEUE_DELIVERIES_V3 and MAX_QUEUE_RESOLUTIONS are twice             *)
(* MAX_QUEUE_DECISIONS.                                                    *)

MaxDeliveries  == 2 * MaxDecisions
MaxResolutions == 2 * MaxDecisions

AtMost(S, n) == IsFiniteSet(S) /\ Cardinality(S) <= n

WithinBounds(d) ==
  /\ AtMost(Decided(d), MaxDecisions)
  /\ AtMost(AttemptSlots(d), MaxDeliveries)
  /\ AtMost(ResolutionSlots(d), MaxResolutions)

ValidAttempts(d) ==
  /\ \A i \in Items : d.attempts[i] # << >> => i \in Decided(d)
  /\ \A i, j \in Items :
       \A m \in 1 .. Len(d.attempts[i]), n \in 1 .. Len(d.attempts[j]) :
          d.attempts[i][m].id = d.attempts[j][n].id => i = j /\ m = n
  /\ \A i \in Items : Len(d.attempts[i]) <= 2

ValidReference(d, i, r) ==
  IF r.action = "superseded"
    THEN r.related \in Decided(d) \ {i}
    ELSE /\ HasAttempt(d, i, r.delivery)
         /\ r.action = "confirmed_not_delivered"
              => r.delivery.outcome # "delivered"

ValidResolutions(d) ==
  \A i \in Items : \A n \in 1 .. Len(d.resolutions[i]) :
     /\ i \in Decided(d)
     /\ ValidReference(d, i, d.resolutions[i][n])
     /\ n > 1 => MayFollow(d.resolutions[i][n - 1].action,
                           d.resolutions[i][n].action)

ValidRetries(d) ==
  \A i \in Items : Len(d.attempts[i]) = 2 => Unlocked(d, i)

ValidDocument(d) ==
  WithinBounds(d) /\ ValidAttempts(d) /\ ValidResolutions(d) /\ ValidRetries(d)

-----------------------------------------------------------------------------
(* The updates: when the store accepts one, and what it writes.            *)

\* Faulty variant: the bound on decisions is left to the schema.
CanDecideUnbounded(d, i) == d.decided[i] = Undecided

CanDecide(d, i) ==
  /\ d.decided[i] = Undecided
  /\ Cardinality(Decided(d)) < MaxDecisions

WithDecision(d, i, v) == [d EXCEPT !.decided[i] = v]

\* beginDelivery() returns an attempt that exists already: the same one, or
\* one that is not to be repeated.
HasBegun(d, i, a) ==
  \/ HasAttemptId(d, i, a)
  \/ Len(d.attempts[i]) >= 2
  \/ Len(d.attempts[i]) = 1 /\ ~Unlocked(d, i)

CanBegin(d, i, a) ==
  /\ ~HasBegun(d, i, a)
  /\ i \in Decided(d)
  /\ Cardinality(AttemptSlots(d)) < MaxDeliveries

WithAttempt(d, i, a) ==
  [d EXCEPT !.attempts[i] = Append(@, [id |-> a, outcome |-> Pending])]

CanFinish(d, i, a) == HasAttempt(d, i, [id |-> a, outcome |-> Pending])

WithOutcome(d, i, a, o) ==
  [d EXCEPT !.attempts[i] =
     [n \in DOMAIN @ |-> IF @[n].id = a THEN [id |-> a, outcome |-> o]
                                        ELSE @[n]]]

CanResolve(d, i, r) ==
  /\ ~HasAction(d, i, r.action)
  /\ Cardinality(ResolutionSlots(d)) < MaxResolutions

WithResolution(d, i, r) == [d EXCEPT !.resolutions[i] = Append(@, r)]
=============================================================================
