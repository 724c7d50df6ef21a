------------------------ MODULE QueueDeliveryProofs ------------------------
(***************************************************************************)
(* The invariants and the action properties of QueueDelivery, proved for   *)
(* all sets of items, intents and callers and all bounds.                  *)
(*                                                                         *)
(* The argument: a queued caller waits in a store mutation and no other    *)
(* caller can touch its request (QueueOK); only the running mutation has   *)
(* read the file, and what it read is what the file still holds            *)
(* (ReadCurrent), so that what it writes extends every possible document;  *)
(* an intent is handed to the transport only after the sync that makes     *)
(* every possible document hold it (IntentsRecorded), under an id that no  *)
(* record has (FreshIds), and nothing ever removes a record.               *)
(*                                                                         *)
(* It rests on what the updates of the queue-state document return and     *)
(* keep, and on what the rules of validateQueueStateV3 imply about the     *)
(* attempts of one decision: those lemmas come first.                      *)
(***************************************************************************)
EXTENDS QueueDelivery, FiniteSetTheorems, TLAPS

-----------------------------------------------------------------------------
(* The updates return documents.                                           *)

\* The initial state of a store, emptyState(), is a document.
LEMMA EmptyDocumentType == EmptyDocument \in Document
BY DEF EmptyDocument, Document

\* The initial state passes the validation the store runs on every read.
LEMMA EmptyDocumentValid == ValidDocument(EmptyDocument)
<1> DEFINE d == EmptyDocument
<1>1. \A i \in Items : /\ d.decided[i] = Undecided
                       /\ d.attempts[i] = << >>
                       /\ d.resolutions[i] = << >>
  BY DEF EmptyDocument
<1> HIDE DEF d
<1>2. AttemptSlots(d) = {} /\ ResolutionSlots(d) = {} /\ Decided(d) = {}
  BY <1>1 DEF AttemptSlots, ResolutionSlots, Decided
<1>3. AtMost({}, MaxDecisions) /\ AtMost({}, 2 * MaxDecisions)
  BY DocumentAssumption, FS_EmptySet DEF AtMost
<1>4. WithinBounds(d)
  BY <1>2, <1>3 DEF WithinBounds, MaxDeliveries, MaxResolutions
<1>5. ValidAttempts(d) /\ ValidResolutions(d) /\ ValidRetries(d)
  BY <1>1 DEF ValidAttempts, ValidResolutions, ValidRetries
<1> QED BY <1>4, <1>5 DEF ValidDocument, d

\* append() writes a document.
LEMMA WithDecisionType ==
  ASSUME NEW d \in Document, NEW i \in Items, NEW v \in Intents
  PROVE  WithDecision(d, i, v) \in Document
BY DEF WithDecision, Document

\* A begun attempt has no outcome yet.
LEMMA AttemptType ==
  ASSUME NEW a \in Nat, NEW o \in Outcomes \cup {Pending}
  PROVE  [id |-> a, outcome |-> o] \in Attempt
BY DEF Attempt

\* beginDelivery() writes a document.
LEMMA WithAttemptType ==
  ASSUME NEW d \in Document, NEW i \in Items, NEW a \in Nat
  PROVE  WithAttempt(d, i, a) \in Document
<1> DEFINE new == Append(d.attempts[i], [id |-> a, outcome |-> Pending])
<1>1. new \in Seq(Attempt)
  BY AttemptType DEF Document
<1> HIDE DEF new
<1>2. [d EXCEPT !.attempts[i] = new] \in Document
  BY <1>1 DEF Document
<1> QED BY <1>2 DEF WithAttempt, new

\* finishDelivery() keeps the number of attempts, and their ids.
LEMMA OutcomeAttempts ==
  ASSUME NEW s \in Seq(Attempt), NEW a \in Nat, NEW o \in Outcomes
  PROVE  LET t == [n \in DOMAIN s |-> IF s[n].id = a
                                        THEN [id |-> a, outcome |-> o]
                                        ELSE s[n]]
         IN t \in Seq(Attempt) /\ Len(t) = Len(s)
<1> DEFINE t == [n \in DOMAIN s |-> IF s[n].id = a
                                      THEN [id |-> a, outcome |-> o]
                                      ELSE s[n]]
<1>1. DOMAIN s = 1 .. Len(s) /\ Len(s) \in Nat
  OBVIOUS
<1>2. \A n \in DOMAIN s : t[n] \in Attempt
  BY <1>1, AttemptType
<1>3. t \in [1 .. Len(s) -> Attempt]
  BY <1>1, <1>2
<1> HIDE DEF t
<1>4. t \in Seq(Attempt) /\ Len(t) = Len(s)
  BY <1>1, <1>3
<1> QED BY <1>4 DEF t

\* finishDelivery() writes a document.
LEMMA WithOutcomeType ==
  ASSUME NEW d \in Document, NEW i \in Items, NEW a \in Nat, NEW o \in Outcomes
  PROVE  WithOutcome(d, i, a, o) \in Document
<1> DEFINE s == d.attempts[i]
           t == [n \in DOMAIN s |-> IF s[n].id = a
                                      THEN [id |-> a, outcome |-> o]
                                      ELSE s[n]]
<1>1. s \in Seq(Attempt)
  BY DEF Document
<1>2. t \in Seq(Attempt)
  BY <1>1, OutcomeAttempts
<1>3. WithOutcome(d, i, a, o) = [d EXCEPT !.attempts[i] = t]
  BY DEF WithOutcome, Document
<1> HIDE DEF t
<1> QED BY <1>2, <1>3 DEF Document

\* appendResolution() writes a document.
LEMMA WithResolutionType ==
  ASSUME NEW d \in Document, NEW i \in Items, NEW r \in Resolution
  PROVE  WithResolution(d, i, r) \in Document
<1> DEFINE new == Append(d.resolutions[i], r)
<1>1. new \in Seq(Resolution)
  BY DEF Document
<1> HIDE DEF new
<1>2. [d EXCEPT !.resolutions[i] = new] \in Document
  BY <1>1 DEF Document
<1> QED BY <1>2 DEF WithResolution, new

-----------------------------------------------------------------------------
(* The updates keep what was recorded.                                     *)

\* A document keeps its own records.
LEMMA ExtendsReflexive ==
  ASSUME NEW d \in Document
  PROVE  Extends(d, d)
BY DEF Extends, Document

\* A new decision replaces no record: only an undecided item is decided.
LEMMA WithDecisionExtends ==
  ASSUME NEW d \in Document, NEW i \in Items, NEW v \in Intents, CanDecide(d, i)
  PROVE  Extends(d, WithDecision(d, i, v))
<1> DEFINE e == WithDecision(d, i, v)
<1>1. /\ e.attempts = d.attempts
      /\ e.resolutions = d.resolutions
      /\ \A j \in Items : e.decided[j] = IF j = i THEN v ELSE d.decided[j]
  BY DEF WithDecision, Document
<1> HIDE DEF e
<1>2. Extends(d, e)
  BY <1>1 DEF Extends, CanDecide, Document
<1> QED BY <1>2 DEF e

\* A new attempt replaces no record.
LEMMA WithAttemptExtends ==
  ASSUME NEW d \in Document, NEW i \in Items, NEW a \in Nat
  PROVE  Extends(d, WithAttempt(d, i, a))
<1> DEFINE e == WithAttempt(d, i, a)
           new == Append(d.attempts[i], [id |-> a, outcome |-> Pending])
<1>1. /\ e.decided = d.decided
      /\ e.resolutions = d.resolutions
      /\ \A j \in Items : e.attempts[j] = IF j = i THEN new ELSE d.attempts[j]
  BY DEF WithAttempt, Document
<1>2. d.attempts[i] \in Seq(Attempt)
  BY DEF Document
<1>3. \A n \in 1 .. Len(d.attempts[i]) :
         n <= Len(new) /\ new[n] = d.attempts[i][n]
  BY <1>2, AttemptType
<1>4. \A j \in Items : Len(d.attempts[j]) \in Nat /\ Len(d.resolutions[j]) \in Nat
  BY DEF Document
<1> HIDE DEF e, new
<1>5. Extends(d, e)
  BY <1>1, <1>3, <1>4 DEF Extends
<1> QED BY <1>5 DEF e

\* The recorded outcome replaces no other one: ids are unique, and the
\* attempt it belongs to had none.
LEMMA WithOutcomeExtends ==
  ASSUME NEW d \in Document, NEW i \in Items, NEW a \in Nat, NEW o \in Outcomes,
         ValidAttempts(d), CanFinish(d, i, a)
  PROVE  Extends(d, WithOutcome(d, i, a, o))
<1> DEFINE e == WithOutcome(d, i, a, o)
           s == d.attempts[i]
           t == [n \in DOMAIN s |-> IF s[n].id = a
                                      THEN [id |-> a, outcome |-> o]
                                      ELSE s[n]]
<1>1. s \in Seq(Attempt) /\ DOMAIN s = 1 .. Len(s) /\ Len(s) \in Nat
  BY DEF Document
<1>2. Len(t) = Len(s)
  BY <1>1, OutcomeAttempts
<1>3. /\ e.decided = d.decided
      /\ e.resolutions = d.resolutions
      /\ \A j \in Items : e.attempts[j] = IF j = i THEN t ELSE d.attempts[j]
  BY DEF WithOutcome, Document
<1>4. PICK m \in 1 .. Len(s) : s[m] = [id |-> a, outcome |-> Pending]
  BY DEF CanFinish, HasAttempt
<1>5. \A n \in 1 .. Len(s) : s[n].id = a => n = m
  <2>1. s[m].id = a
    BY <1>4
  <2> QED BY <2>1 DEF ValidAttempts
<1>6. \A n \in 1 .. Len(s) : /\ t[n].id = s[n].id
                             /\ s[n].outcome # Pending => t[n] = s[n]
  BY <1>1, <1>4, <1>5
<1>7. \A j \in Items : Len(d.attempts[j]) \in Nat /\ Len(d.resolutions[j]) \in Nat
  BY DEF Document
<1> HIDE DEF e, t
<1>8. Extends(d, e)
  BY SMTT(30), <1>2, <1>3, <1>6, <1>7 DEF Extends
<1> QED BY <1>8 DEF e

\* A new resolution replaces no record.
LEMMA WithResolutionExtends ==
  ASSUME NEW d \in Document, NEW i \in Items, NEW r \in Resolution
  PROVE  Extends(d, WithResolution(d, i, r))
<1> DEFINE e == WithResolution(d, i, r)
           new == Append(d.resolutions[i], r)
<1>1. /\ e.decided = d.decided
      /\ e.attempts = d.attempts
      /\ \A j \in Items :
            e.resolutions[j] = IF j = i THEN new ELSE d.resolutions[j]
  BY DEF WithResolution, Document
<1>2. d.resolutions[i] \in Seq(Resolution)
  BY DEF Document
<1>3. \A n \in 1 .. Len(d.resolutions[i]) :
         n <= Len(new) /\ new[n] = d.resolutions[i][n]
  BY <1>2
<1>4. \A j \in Items : Len(d.attempts[j]) \in Nat /\ Len(d.resolutions[j]) \in Nat
  BY DEF Document
<1> HIDE DEF e, new
<1>5. Extends(d, e)
  BY <1>1, <1>3, <1>4 DEF Extends
<1> QED BY <1>5 DEF e

\* An attempt that was recorded is still there in a later document.
LEMMA ExtendsKeepsAttempt ==
  ASSUME NEW d \in Document, NEW e \in Document, Extends(d, e),
         NEW i \in Items, NEW a, HasAttemptId(d, i, a)
  PROVE  HasAttemptId(e, i, a)
<1>1. PICK n \in 1 .. Len(d.attempts[i]) : d.attempts[i][n].id = a
  BY DEF HasAttemptId
<1>2. n <= Len(e.attempts[i]) /\ e.attempts[i][n].id = a
  BY <1>1 DEF Extends
<1>3. n \in 1 .. Len(e.attempts[i])
  BY <1>2 DEF Document
<1> QED BY <1>2, <1>3 DEF HasAttemptId

-----------------------------------------------------------------------------
(* What validation implies.                                                *)

\* The positions in a sequence of at most two attempts.
LEMMA UpToTwo ==
  ASSUME NEW k \in Nat, k <= 2, NEW n \in 1 .. k
  PROVE  IF k = 2 THEN n \in {1, 2} ELSE n = 1 /\ k = 1
OBVIOUS

\* In a valid document a delivered attempt is the last one: only the first
\* can have a successor, and the label that unlocks it names that very
\* attempt as not delivered.
LEMMA DeliveredIsLast ==
  ASSUME NEW d \in Document, ValidDocument(d), NEW i \in Items,
         NEW n \in 1 .. Len(d.attempts[i]),
         d.attempts[i][n].outcome = "delivered"
  PROVE  n = Len(d.attempts[i])
<1>1. Len(d.attempts[i]) \in Nat /\ Len(d.attempts[i]) <= 2
  BY DEF ValidDocument, ValidAttempts, Document
<1>2. SUFFICES ASSUME Len(d.attempts[i]) = 2, n = 1
               PROVE  FALSE
  BY <1>1, UpToTwo
<1>3. PICK m \in 1 .. Len(d.resolutions[i]) :
         /\ d.resolutions[i][m].action = "confirmed_not_delivered"
         /\ d.resolutions[i][m].delivery = d.attempts[i][1]
  BY <1>2 DEF ValidDocument, ValidRetries, Unlocked
<1>4. ValidReference(d, i, d.resolutions[i][m])
  BY DEF ValidDocument, ValidResolutions
<1>5. d.resolutions[i][m].delivery.outcome # "delivered"
  BY <1>3, <1>4 DEF ValidReference
<1> QED BY <1>2, <1>3, <1>5

\* The attempts of one decision have at most two ids, and two only if the
\* retry is unlocked.
LEMMA TwoAttempts ==
  ASSUME NEW d \in Document, ValidDocument(d), NEW i \in Items, NEW S,
         \A a \in S : HasAttemptId(d, i, a)
  PROVE  /\ IsFiniteSet(S)
         /\ Cardinality(S) <= 2
         /\ Cardinality(S) = 2 => Unlocked(d, i)
<1> DEFINE s == d.attempts[i]
           T == {s[1].id}
           U == {s[1].id, s[2].id}
<1>1. Len(s) \in Nat /\ Len(s) <= 2
  BY DEF ValidDocument, ValidAttempts, Document
<1>2. \A a \in S : \E n \in 1 .. Len(s) : s[n].id = a
  BY DEF HasAttemptId
<1>3. IsFiniteSet(T) /\ Cardinality(T) = 1
  BY FS_Singleton
<1>4. IsFiniteSet(U) /\ Cardinality(U) <= 2
  <2>1. U = T \cup {s[2].id}
    OBVIOUS
  <2>2. /\ IsFiniteSet(T \cup {s[2].id})
        /\ \/ Cardinality(T \cup {s[2].id}) = Cardinality(T)
           \/ Cardinality(T \cup {s[2].id}) = Cardinality(T) + 1
    BY <1>3, FS_AddElement
  <2> QED BY <1>3, <2>1, <2>2
<1>5. S \subseteq U
  BY <1>1, <1>2
<1>6. IsFiniteSet(S) /\ Cardinality(S) <= 2 /\ Cardinality(S) \in Nat
  <2>1. IsFiniteSet(S) /\ Cardinality(S) <= Cardinality(U)
    BY <1>4, <1>5, FS_Subset
  <2>2. Cardinality(S) \in Nat /\ Cardinality(U) \in Nat
    BY <1>4, <2>1, FS_CardinalityType
  <2> QED BY <1>4, <2>1, <2>2
<1>7. ASSUME Cardinality(S) = 2
      PROVE  Unlocked(d, i)
  <2>1. CASE Len(s) = 2
    BY <2>1 DEF ValidDocument, ValidRetries
  <2>2. CASE Len(s) # 2
    <3>1. S \subseteq T
      <4>1. \A n \in 1 .. Len(s) : n = 1
        BY <1>1, <2>2, UpToTwo
      <4> QED BY <1>2, <4>1
    <3>2. Cardinality(S) <= 1
      BY <1>3, <3>1, FS_Subset
    <3> QED BY <1>7, <3>2
  <2> QED BY <2>1, <2>2
<1> QED BY <1>6, <1>7

-----------------------------------------------------------------------------
(* What the checks of the store leave to the schema: nothing, as long as   *)
(* the id of an attempt is new and no label names an attempt that is under *)
(* way.                                                                    *)

\* A set within a bound that is not reached may take one more element.
LEMMA OneMore ==
  ASSUME NEW S, NEW x, NEW n \in Nat, AtMost(S, n), Cardinality(S) < n
  PROVE  AtMost(S \cup {x}, n)
<1>1. IsFiniteSet(S) /\ Cardinality(S) \in Nat
  BY FS_CardinalityType DEF AtMost
<1>2. /\ IsFiniteSet(S \cup {x})
      /\ \/ Cardinality(S \cup {x}) = Cardinality(S)
         \/ Cardinality(S \cup {x}) = Cardinality(S) + 1
  BY <1>1, FS_AddElement
<1> QED BY <1>1, <1>2 DEF AtMost

\* What a label refers to stays there when decisions and attempts are added.
LEMMA ReferencesKept ==
  ASSUME NEW d \in Document, NEW e \in Document, ValidResolutions(d),
         e.resolutions = d.resolutions, Decided(d) \subseteq Decided(e),
         \A i \in Items : \A n \in 1 .. Len(d.resolutions[i]) :
           LET r == d.resolutions[i][n]
           IN r.action # "superseded" /\ HasAttempt(d, i, r.delivery)
                => HasAttempt(e, i, r.delivery)
  PROVE  ValidResolutions(e)
<1> SUFFICES ASSUME NEW i \in Items, NEW n \in 1 .. Len(d.resolutions[i])
             PROVE  /\ i \in Decided(e)
                    /\ ValidReference(e, i, d.resolutions[i][n])
                    /\ n > 1 => MayFollow(d.resolutions[i][n - 1].action,
                                          d.resolutions[i][n].action)
  BY DEF ValidResolutions
<1> DEFINE r == d.resolutions[i][n]
<1>1. /\ i \in Decided(d)
      /\ ValidReference(d, i, r)
      /\ n > 1 => MayFollow(d.resolutions[i][n - 1].action, r.action)
  BY DEF ValidResolutions
<1>2. r.action # "superseded" /\ HasAttempt(d, i, r.delivery)
        => HasAttempt(e, i, r.delivery)
  OBVIOUS
<1> HIDE DEF r
<1>3. ValidReference(e, i, r)
  BY <1>1, <1>2 DEF ValidReference
<1> QED BY <1>1, <1>3 DEF r

\* append() checks all that the schema does.
LEMMA WithDecisionValid ==
  ASSUME NEW d \in Document, ValidDocument(d), NEW i \in Items,
         NEW v \in Intents, CanDecide(d, i)
  PROVE  ValidDocument(WithDecision(d, i, v))
<1> DEFINE e == WithDecision(d, i, v)
<1>1. /\ e \in Document
      /\ e.attempts = d.attempts
      /\ e.resolutions = d.resolutions
      /\ \A j \in Items : e.decided[j] = IF j = i THEN v ELSE d.decided[j]
  BY WithDecisionType DEF WithDecision, Document
<1> HIDE DEF e
<1>2. Decided(e) = Decided(d) \cup {i}
  BY <1>1, DocumentAssumption DEF Decided
<1>3. AttemptSlots(e) = AttemptSlots(d) /\ ResolutionSlots(e) = ResolutionSlots(d)
  BY <1>1 DEF AttemptSlots, ResolutionSlots
<1>4. AtMost(Decided(e), MaxDecisions)
  BY <1>2, OneMore, DocumentAssumption DEF ValidDocument, WithinBounds, CanDecide
<1>5. WithinBounds(e)
  BY <1>3, <1>4 DEF ValidDocument, WithinBounds
<1>6. ValidAttempts(e)
  BY <1>1, <1>2 DEF ValidDocument, ValidAttempts
<1>7. \A j \in Items : \A r : HasAttempt(d, j, r) => HasAttempt(e, j, r)
  BY <1>1 DEF HasAttempt
<1>8. ValidResolutions(e)
  BY <1>1, <1>2, <1>7, ReferencesKept DEF ValidDocument
<1>9. ValidRetries(e)
  BY <1>1 DEF ValidDocument, ValidRetries, Unlocked
<1> QED BY <1>5, <1>6, <1>8, <1>9 DEF ValidDocument, e

\* The slots of the attempts once one is added.
LEMMA SlotAdded ==
  ASSUME NEW d \in Document, NEW e \in Document, NEW i \in Items,
         \A j \in Items : Len(e.attempts[j]) =
            IF j = i THEN Len(d.attempts[i]) + 1 ELSE Len(d.attempts[j])
  PROVE  AttemptSlots(e) = AttemptSlots(d) \cup {<<i, Len(d.attempts[i]) + 1>>}
<1>1. \A j \in Items : Len(d.attempts[j]) \in Nat
  BY DEF Document
<1>2. ASSUME NEW j \in Items, NEW n
      PROVE  n \in 1 .. Len(e.attempts[j]) <=>
               \/ n \in 1 .. Len(d.attempts[j])
               \/ j = i /\ n = Len(d.attempts[i]) + 1
  <2>1. CASE j = i
    BY <1>1, <2>1
  <2>2. CASE j # i
    BY <2>2
  <2> QED BY <2>1, <2>2
<1>3. ASSUME NEW x, x \in AttemptSlots(e)
      PROVE  x \in AttemptSlots(d) \cup {<<i, Len(d.attempts[i]) + 1>>}
  <2>1. PICK j \in Items : \E n \in 1 .. Len(e.attempts[j]) : x = <<j, n>>
    BY <1>3 DEF AttemptSlots
  <2>2. PICK n \in 1 .. Len(e.attempts[j]) : x = <<j, n>>
    BY <2>1
  <2>3. n \in 1 .. Len(d.attempts[j]) \/ (j = i /\ n = Len(d.attempts[i]) + 1)
    BY <1>2
  <2> QED BY <2>2, <2>3 DEF AttemptSlots
<1>4. ASSUME NEW x, x \in AttemptSlots(d) \cup {<<i, Len(d.attempts[i]) + 1>>}
      PROVE  x \in AttemptSlots(e)
  <2>1. CASE x = <<i, Len(d.attempts[i]) + 1>>
    <3>1. Len(d.attempts[i]) + 1 \in 1 .. Len(e.attempts[i])
      BY <1>2
    <3> QED BY <2>1, <3>1 DEF AttemptSlots
  <2>2. CASE x \in AttemptSlots(d)
    <3>1. PICK j \in Items : \E n \in 1 .. Len(d.attempts[j]) : x = <<j, n>>
      BY <2>2 DEF AttemptSlots
    <3>2. PICK n \in 1 .. Len(d.attempts[j]) : x = <<j, n>>
      BY <3>1
    <3>3. n \in 1 .. Len(e.attempts[j])
      BY <1>2
    <3> QED BY <3>2, <3>3 DEF AttemptSlots
  <2> QED BY <1>4, <2>1, <2>2
<1> QED BY <1>3, <1>4

\* So does beginDelivery(), given an id that no attempt has.
LEMMA WithAttemptValid ==
  ASSUME NEW d \in Document, ValidDocument(d), NEW i \in Items, NEW a \in Nat,
         CanBegin(d, i, a), \A j \in Items : ~HasAttemptId(d, j, a)
  PROVE  ValidDocument(WithAttempt(d, i, a))
<1> DEFINE e == WithAttempt(d, i, a)
           s == d.attempts[i]
           t == Append(s, [id |-> a, outcome |-> Pending])
<1>1. /\ e \in Document
      /\ e.decided = d.decided
      /\ e.resolutions = d.resolutions
      /\ \A j \in Items : e.attempts[j] = IF j = i THEN t ELSE d.attempts[j]
  <2>1. e \in Document
    BY WithAttemptType
  <2> QED BY <2>1 DEF WithAttempt, Document
<1>2. s \in Seq(Attempt) /\ [id |-> a, outcome |-> Pending] \in Attempt
  BY AttemptType DEF Document
<1>3. /\ Len(s) \in Nat
      /\ Len(t) = Len(s) + 1
      /\ \A n \in 1 .. Len(s) : t[n] = s[n]
      /\ t[Len(s) + 1] = [id |-> a, outcome |-> Pending]
      /\ \A n \in 1 .. Len(t) : n \in 1 .. Len(s) \/ n = Len(s) + 1
  BY <1>2
<1>4. Len(s) <= 1 /\ (Len(s) = 1 => Unlocked(d, i)) /\ i \in Decided(d)
  <2>1. ~(Len(s) >= 2) /\ ~(Len(s) = 1 /\ ~Unlocked(d, i)) /\ i \in Decided(d)
    BY DEF CanBegin, HasBegun
  <2> QED BY <1>3, <2>1
<1> HIDE DEF e, t
<1>5. Decided(e) = Decided(d) /\ ResolutionSlots(e) = ResolutionSlots(d)
  BY <1>1 DEF Decided, ResolutionSlots
<1>6. WithinBounds(e)
  <2>1. MaxDeliveries \in Nat
    BY DocumentAssumption DEF MaxDeliveries
  <2>2. AttemptSlots(e) = AttemptSlots(d) \cup {<<i, Len(s) + 1>>}
    BY <1>1, <1>3, SlotAdded
  <2>3. AtMost(AttemptSlots(e), MaxDeliveries)
    BY <2>1, <2>2, OneMore DEF ValidDocument, WithinBounds, CanBegin
  <2> QED BY <1>5, <2>3 DEF ValidDocument, WithinBounds
<1>7. \A j \in Items : \A n \in 1 .. Len(e.attempts[j]) :
         \/ n \in 1 .. Len(d.attempts[j]) /\ e.attempts[j][n] = d.attempts[j][n]
         \/ j = i /\ n = Len(s) + 1 /\ e.attempts[j][n].id = a
  <2> SUFFICES ASSUME NEW j \in Items, NEW n \in 1 .. Len(e.attempts[j])
               PROVE  \/ /\ n \in 1 .. Len(d.attempts[j])
                         /\ e.attempts[j][n] = d.attempts[j][n]
                      \/ j = i /\ n = Len(s) + 1 /\ e.attempts[j][n].id = a
    OBVIOUS
  <2>1. CASE j = i
    BY <1>1, <1>3, <2>1
  <2>2. CASE j # i
    BY <1>1, <2>2
  <2> QED BY <2>1, <2>2
<1>8. \A j \in Items : \A n \in 1 .. Len(d.attempts[j]) :
         n \in 1 .. Len(e.attempts[j]) /\ e.attempts[j][n] = d.attempts[j][n]
  BY <1>1, <1>3
<1>9. ValidAttempts(e)
  <2>1. \A j \in Items : e.attempts[j] # << >> => j \in Decided(e)
    BY <1>1, <1>4, <1>5 DEF ValidDocument, ValidAttempts
  <2>2. \A j \in Items : \A n \in 1 .. Len(d.attempts[j]) :
           d.attempts[j][n].id # a
    BY DEF HasAttemptId
  <2>3. ASSUME NEW j \in Items, NEW k \in Items,
               NEW m \in 1 .. Len(e.attempts[j]), NEW n \in 1 .. Len(e.attempts[k]),
               e.attempts[j][m].id = e.attempts[k][n].id
        PROVE  j = k /\ m = n
    <3>1. \/ m \in 1 .. Len(d.attempts[j]) /\ e.attempts[j][m] = d.attempts[j][m]
          \/ j = i /\ m = Len(s) + 1 /\ e.attempts[j][m].id = a
      BY <1>7
    <3>2. \/ n \in 1 .. Len(d.attempts[k]) /\ e.attempts[k][n] = d.attempts[k][n]
          \/ k = i /\ n = Len(s) + 1 /\ e.attempts[k][n].id = a
      BY <1>7
    <3>3. m \in 1 .. Len(d.attempts[j]) /\ n \in 1 .. Len(d.attempts[k])
          /\ d.attempts[j][m].id = d.attempts[k][n].id => j = k /\ m = n
      BY DEF ValidDocument, ValidAttempts
    <3> QED BY <2>2, <2>3, <3>1, <3>2, <3>3
  <2>4. \A j \in Items : Len(e.attempts[j]) <= 2
    BY <1>1, <1>3, <1>4 DEF ValidDocument, ValidAttempts
  <2> QED BY <2>1, <2>3, <2>4 DEF ValidAttempts
<1>10. \A j \in Items : \A r : HasAttempt(d, j, r) => HasAttempt(e, j, r)
  BY <1>8 DEF HasAttempt
<1>11. ValidResolutions(e)
  BY <1>1, <1>5, <1>10, ReferencesKept DEF ValidDocument
<1>12. ValidRetries(e)
  <2> SUFFICES ASSUME NEW j \in Items, Len(e.attempts[j]) = 2
               PROVE  Unlocked(e, j)
    BY DEF ValidRetries
  <2>1. CASE j = i
    <3>1. Len(s) = 1 /\ Unlocked(d, i)
      <4>1. e.attempts[i] = t
        BY <1>1
      <4>2. Len(t) = 2
        BY <2>1, <4>1
      <4>3. \A k \in Nat : k + 1 = 2 => k = 1
        OBVIOUS
      <4>4. Len(s) \in Nat /\ Len(s) + 1 = 2
        BY <1>3, <4>2
      <4>5. Len(s) = 1
        BY <4>3, <4>4, Zenon
      <4> QED BY <1>4, <4>5
    <3>2. e.attempts[i][1] = d.attempts[i][1]
      BY <1>8, <3>1
    <3> QED BY <1>1, <2>1, <3>1, <3>2 DEF Unlocked
  <2>2. CASE j # i
    <3>1. e.attempts[j] = d.attempts[j]
      BY <1>1, <2>2
    <3>2. Unlocked(d, j)
      BY <3>1 DEF ValidDocument, ValidRetries
    <3> QED BY <1>1, <3>1, <3>2 DEF Unlocked
  <2> QED BY <2>1, <2>2
<1> QED BY <1>6, <1>9, <1>11, <1>12 DEF ValidDocument, e

\* And finishDelivery(), unless a label names the attempt as it was.
LEMMA WithOutcomeValid ==
  ASSUME NEW d \in Document, ValidDocument(d), NEW i \in Items, NEW a \in Nat,
         NEW o \in Outcomes, CanFinish(d, i, a), ~LabelsPending(d, i, a)
  PROVE  ValidDocument(WithOutcome(d, i, a, o))
<1> DEFINE e == WithOutcome(d, i, a, o)
           s == d.attempts[i]
           t == [n \in DOMAIN s |-> IF s[n].id = a
                                      THEN [id |-> a, outcome |-> o]
                                      ELSE s[n]]
           old == [id |-> a, outcome |-> Pending]
<1>1. s \in Seq(Attempt) /\ DOMAIN s = 1 .. Len(s) /\ Len(s) \in Nat
  BY DEF Document
<1>2. Len(t) = Len(s)
  BY <1>1, OutcomeAttempts
<1>3. /\ e \in Document
      /\ e.decided = d.decided
      /\ e.resolutions = d.resolutions
      /\ \A j \in Items : e.attempts[j] = IF j = i THEN t ELSE d.attempts[j]
  <2>1. e \in Document
    BY WithOutcomeType
  <2> QED BY <2>1 DEF WithOutcome, Document
<1>4. PICK m \in 1 .. Len(s) : s[m] = old
  BY DEF CanFinish, HasAttempt
<1>5. \A n \in 1 .. Len(s) : s[n].id = a => n = m
  <2>1. s[m].id = a
    BY <1>4
  <2> QED BY <2>1 DEF ValidDocument, ValidAttempts
<1>6. \A n \in 1 .. Len(s) : t[n].id = s[n].id /\ (s[n] # old => t[n] = s[n])
  BY <1>1, <1>4, <1>5
<1> HIDE DEF e, t
<1>7. Decided(e) = Decided(d) /\ ResolutionSlots(e) = ResolutionSlots(d)
  BY <1>3 DEF Decided, ResolutionSlots
<1>8. \A j \in Items : Len(e.attempts[j]) = Len(d.attempts[j])
  BY <1>2, <1>3
<1>9. AttemptSlots(e) = AttemptSlots(d)
  BY <1>8 DEF AttemptSlots
<1>10. WithinBounds(e)
  BY <1>7, <1>9 DEF ValidDocument, WithinBounds
<1>11. \A j \in Items : \A n \in 1 .. Len(d.attempts[j]) :
          /\ e.attempts[j][n].id = d.attempts[j][n].id
          /\ j # i \/ d.attempts[j][n] # old
               => e.attempts[j][n] = d.attempts[j][n]
  BY <1>3, <1>6
<1>12. ValidAttempts(e)
  <2>1. \A j \in Items : e.attempts[j] # << >> => d.attempts[j] # << >>
    BY <1>2, <1>3, <1>4
  <2>2. \A j, k \in Items :
          \A l \in 1 .. Len(e.attempts[j]), n \in 1 .. Len(e.attempts[k]) :
            e.attempts[j][l].id = e.attempts[k][n].id => j = k /\ l = n
    <3> SUFFICES ASSUME NEW j \in Items, NEW k \in Items,
                        NEW l \in 1 .. Len(d.attempts[j]),
                        NEW n \in 1 .. Len(d.attempts[k]),
                        e.attempts[j][l].id = e.attempts[k][n].id
                 PROVE  j = k /\ l = n
      BY <1>8
    <3>1. d.attempts[j][l].id = d.attempts[k][n].id
      BY <1>11
    <3> QED BY <3>1 DEF ValidDocument, ValidAttempts
  <2> QED BY <1>7, <1>8, <2>1, <2>2 DEF ValidDocument, ValidAttempts
<1>13. ASSUME NEW j \in Items, NEW n \in 1 .. Len(d.resolutions[j]),
              d.resolutions[j][n].action # "superseded"
       PROVE  j # i \/ d.resolutions[j][n].delivery # old
  BY <1>13 DEF LabelsPending
<1>14. \A j \in Items : \A r : HasAttempt(d, j, r) /\ (j # i \/ r # old)
                             => HasAttempt(e, j, r)
  BY <1>8, <1>11 DEF HasAttempt
<1>15. ValidResolutions(e)
  BY <1>3, <1>7, <1>13, <1>14, ReferencesKept DEF ValidDocument
<1>16. ValidRetries(e)
  <2> SUFFICES ASSUME NEW j \in Items, Len(e.attempts[j]) = 2
               PROVE  Unlocked(e, j)
    BY DEF ValidRetries
  <2>1. Unlocked(d, j) /\ 1 \in 1 .. Len(d.attempts[j])
    <3>1. Len(d.attempts[j]) = 2
      BY <1>8
    <3> QED BY <3>1 DEF ValidDocument, ValidRetries
  <2>2. PICK n \in 1 .. Len(d.resolutions[j]) :
          /\ d.resolutions[j][n].action = "confirmed_not_delivered"
          /\ d.resolutions[j][n].delivery = d.attempts[j][1]
    BY <2>1 DEF Unlocked
  <2>3. j # i \/ d.attempts[j][1] # old
    BY <1>13, <2>2
  <2>4. e.attempts[j][1] = d.attempts[j][1]
    BY <1>11, <2>1, <2>3
  <2> QED BY <1>3, <2>2, <2>4 DEF Unlocked
<1> QED BY <1>10, <1>12, <1>15, <1>16 DEF ValidDocument, e

-----------------------------------------------------------------------------
(* The invariants.                                                         *)

MutationOps == {"append", "begin", "finish", "resolve"}

\* The callers of queued mutations are distinct and wait for them.
QueueOK ==
  /\ \A n \in 1 .. Len(writeTail) : call[writeTail[n]].op \in MutationOps
  /\ \A m, n \in 1 .. Len(writeTail) : writeTail[m] = writeTail[n] => m = n
  /\ renamed => writeTail # << >>

\* Only the running mutation has read the file, and until it replaces it the
\* file still holds what was read.
ReadCurrent ==
  \A x \in read : /\ writeTail # << >>
                  /\ x[1] = Head(writeTail)
                  /\ ~renamed => x[2] = file

\* Every document the file may hold passes the validation.
AllValid == \A d \in durable : ValidDocument(d)

\* An attempt that may be, or was, handed to the transport is in every
\* possible document.
IntentsRecorded ==
  \A c \in Callers : call[c].op \in {"invoke", "finish"} =>
    \A d \in durable : HasAttemptId(d, call[c].item, call[c].id)

\* The outcome to be recorded is the one the transport reported.
OutcomesReported ==
  \A c \in Callers : call[c].op = "finish" =>
    [item |-> call[c].item, id |-> call[c].id, outcome |-> call[c].outcome]
      \in sent

\* So is every recorded outcome.
Evidence(d) ==
  \A i \in Items : \A n \in 1 .. Len(d.attempts[i]) :
    d.attempts[i][n].outcome # Pending =>
      [item |-> i, id |-> d.attempts[i][n].id,
       outcome |-> d.attempts[i][n].outcome] \in sent

\* The ids of the attempts were drawn, and the one a queued intent was given
\* is no other intent's, nor that of a recorded attempt of another item.
FreshIds ==
  /\ \A d \in durable : \A i \in Items :
       \A a \in Nat : HasAttemptId(d, i, a) => a < nextId
  /\ \A c \in Callers : call[c].op = "begin" =>
       /\ call[c].id < nextId
       /\ \A d \in durable : \A i \in Items :
            HasAttemptId(d, i, call[c].id) => i = call[c].item
       /\ \A k \in Callers :
            call[k].op = "begin" /\ call[k].id = call[c].id => k = c

TypeInv == TypeOK /\ QueueOK

DiskInv == file \in durable /\ AllValid /\ ReadCurrent

RecordInv ==
  /\ IntentsRecorded
  /\ OutcomesReported
  /\ IntentBeforeEffect
  /\ \A d \in durable : Evidence(d)

IInv == TypeInv /\ DiskInv /\ RecordInv /\ FreshIds

-----------------------------------------------------------------------------
(* Requests and the write queue.                                           *)

\* The fields of a caller's request, by operation.
LEMMA CallFields ==
  ASSUME NEW x \in Call
  PROVE  /\ x.op = "append" => x.item \in Items /\ x.intent \in Intents
         /\ x.op = "checking" => x.item \in Items
         /\ x.op \in {"begin", "invoke"} => x.item \in Items /\ x.id \in Nat
         /\ x.op = "finish" => /\ x.item \in Items
                               /\ x.id \in Nat
                               /\ x.outcome \in Outcomes
         /\ x.op = "recover" => x.id \in Nat
         /\ x.op = "reread" => x.item \in Items
         /\ x.op \in {"resolving", "resolve"} =>
              x.item \in Items /\ x.resolution \in Resolution
BY DEF Call, Idle, Recorded, Existing

\* The head of the write queue, and the queue once its mutation ends.
LEMMA QueueHead ==
  ASSUME TypeOK, QueueOK, writeTail # << >>
  PROVE  /\ Head(writeTail) \in Callers
         /\ Tail(writeTail) \in Seq(Callers)
         /\ call[Head(writeTail)] \in Call
         /\ call[Head(writeTail)].op \in MutationOps
         /\ \A n \in 1 .. Len(Tail(writeTail)) :
               /\ n + 1 \in 1 .. Len(writeTail)
               /\ Tail(writeTail)[n] = writeTail[n + 1]
               /\ Tail(writeTail)[n] # Head(writeTail)
<1> DEFINE s == writeTail
<1>1. s \in Seq(Callers)
  BY DEF TypeOK
<1>2. /\ Len(s) \in Nat \ {0}
      /\ Head(s) = s[1]
      /\ s[1] \in Callers
      /\ Tail(s) \in Seq(Callers)
      /\ Len(Tail(s)) = Len(s) - 1
      /\ \A n \in 1 .. Len(s) - 1 : Tail(s)[n] = s[n + 1]
  BY <1>1
<1>3. \A n \in 1 .. Len(s) - 1 : n + 1 \in 1 .. Len(s) /\ n + 1 # 1
  BY <1>2
<1>4. call[s[1]] \in Call /\ call[s[1]].op \in MutationOps
  BY <1>2 DEF TypeOK, QueueOK
<1>5. \A n \in 1 .. Len(s) - 1 : s[n + 1] # s[1]
  BY <1>2, <1>3 DEF QueueOK
<1> HIDE DEF s
<1>6. \A n \in 1 .. Len(Tail(s)) : /\ n + 1 \in 1 .. Len(s)
                                   /\ Tail(s)[n] = s[n + 1]
                                   /\ Tail(s)[n] # Head(s)
  BY <1>2, <1>3, <1>5
<1> QED BY <1>2, <1>4, <1>6 DEF s

\* A caller that is not waiting for a mutation is not queued.
LEMMA NotQueued ==
  ASSUME QueueOK, NEW c, call[c].op \notin MutationOps
  PROVE  \A n \in 1 .. Len(writeTail) : writeTail[n] # c
BY DEF QueueOK

\* Such a caller may change its request without touching the queued ones.
LEMMA BecomesKeepsQueue ==
  ASSUME TypeOK, QueueOK, NEW c \in Callers, call[c].op \notin MutationOps,
         NEW x \in Call, Becomes(c, x), UNCHANGED <<writeTail, renamed>>
  PROVE  QueueOK' /\ call' \in [Callers -> Call]
<1>1. call' \in [Callers -> Call]
  BY DEF TypeOK, Becomes
<1>2. \A n \in 1 .. Len(writeTail) :
         writeTail[n] \in Callers /\ call'[writeTail[n]] = call[writeTail[n]]
  BY NotQueued DEF TypeOK, Becomes
<1>3. QueueOK'
  BY <1>2 DEF QueueOK
<1> QED BY <1>1, <1>3

\* It may also queue a mutation of its own.
LEMMA EnqueueKeepsQueue ==
  ASSUME TypeOK, QueueOK, NEW c \in Callers, call[c].op \notin MutationOps,
         NEW x \in Call, x.op \in MutationOps, Enqueue(c, x), UNCHANGED renamed
  PROVE  /\ QueueOK'
         /\ writeTail' \in Seq(Callers)
         /\ call' \in [Callers -> Call]
<1> DEFINE s == writeTail
           t == writeTail'
<1>1. s \in Seq(Callers) /\ t = Append(s, c)
  BY DEF TypeOK, Enqueue
<1>2. /\ Len(s) \in Nat
      /\ t \in Seq(Callers)
      /\ Len(t) = Len(s) + 1
      /\ t[Len(s) + 1] = c
      /\ \A n \in 1 .. Len(s) : t[n] = s[n]
  BY <1>1
<1>3. call' \in [Callers -> Call] /\ call'[c] = x
  BY DEF TypeOK, Enqueue, Becomes
<1>4. \A n \in 1 .. Len(s) :
         s[n] \in Callers /\ s[n] # c /\ call'[s[n]] = call[s[n]]
  BY NotQueued DEF TypeOK, Enqueue, Becomes
<1>5. \A n \in 1 .. Len(t) : n \in 1 .. Len(s) \/ n = Len(s) + 1
  BY <1>2
<1>6. QueueOK'
  <2>1. \A n \in 1 .. Len(t) : call'[t[n]].op \in MutationOps
    BY <1>2, <1>3, <1>4, <1>5 DEF QueueOK
  <2>2. \A m, n \in 1 .. Len(t) : t[m] = t[n] => m = n
    BY <1>2, <1>4, <1>5 DEF QueueOK
  <2>3. renamed' => t # << >>
    BY <1>2
  <2> QED BY <2>1, <2>2, <2>3 DEF QueueOK
<1> QED BY <1>2, <1>3, <1>6

\* What a mutation that ends makes of its caller: only a recorded intent goes
\* on to the transport.
LEMMA SettleCalls ==
  ASSUME TypeOK, QueueOK, writeTail # << >>,
         NEW result \in {Recorded, Existing, Idle}, Settle(result)
  PROVE  /\ call' \in [Callers -> Call]
         /\ \A c \in Callers :
              \/ call'[c] = call[c] /\ c # Head(writeTail)
              \/ /\ c = Head(writeTail)
                 /\ call'[c] \in {Recorded, Existing, Idle}
                 /\ call'[c] = result
              \/ /\ c = Head(writeTail)
                 /\ call'[c].op \in {"reread", "recover"}
              \/ /\ c = Head(writeTail)
                 /\ result = Recorded
                 /\ call[c].op = "begin"
                 /\ call'[c] = [op |-> "invoke", item |-> call[c].item,
                                id |-> call[c].id]
<1> DEFINE h  == Head(writeTail)
           op == call[h]
<1>1. h \in Callers /\ op \in Call
  BY QueueHead
<1>2. \A c \in Callers : c # h => call'[c] = call[c]
  BY <1>1 DEF Settle, Running, Becomes, TypeOK
<1>3. ASSUME NEW x \in Call, Becomes(h, x)
      PROVE  call' \in [Callers -> Call] /\ call'[h] = x
  BY <1>1, <1>3 DEF Becomes, TypeOK
<1>4. CASE op.op = "begin" /\ result = Recorded
  <2> DEFINE x == [op |-> "invoke", item |-> op.item, id |-> op.id]
  <2>1. x \in Call
    BY <1>1, <1>4, CallFields DEF Call
  <2>2. Becomes(h, x)
    BY <1>4 DEF Settle, Running, Idle, Recorded
  <2> QED BY <1>2, <1>3, <1>4, <2>1, <2>2
<1>5. CASE op.op = "begin" /\ result = Idle
  <2> DEFINE x == [op |-> "reread", item |-> op.item]
  <2>1. x \in Call
    BY <1>1, <1>5, CallFields DEF Call
  <2>2. Becomes(h, x)
    BY <1>5 DEF Settle, Running, Idle, Recorded
  <2> QED BY <1>2, <1>3, <2>1, <2>2
<1>6. CASE op.op = "finish" /\ result = Idle
  <2> DEFINE x == [op |-> "recover", id |-> op.id]
  <2>1. x \in Call
    BY <1>1, <1>6, CallFields DEF Call
  <2>2. Becomes(h, x)
    BY <1>6 DEF Settle, Running
  <2> QED BY <1>2, <1>3, <2>1, <2>2
<1>7. CASE /\ ~(op.op = "begin" /\ result = Recorded)
           /\ ~(op.op = "begin" /\ result = Idle)
           /\ ~(op.op = "finish" /\ result = Idle)
  <2>1. result \in Call
    BY DEF Call
  <2>2. Becomes(h, result)
    BY <1>7 DEF Settle, Running
  <2> QED BY <1>2, <1>3, <2>1, <2>2
<1> QED BY <1>4, <1>5, <1>6, <1>7

\* A mutation that ends leaves the other queued ones as they were.
LEMMA SettleKeepsQueue ==
  ASSUME TypeOK, QueueOK, writeTail # << >>,
         NEW result \in {Recorded, Existing, Idle}, Settle(result)
  PROVE  /\ QueueOK'
         /\ writeTail' \in Seq(Callers)
         /\ call' \in [Callers -> Call]
         /\ active' \subseteq Nat
         /\ read' \subseteq read
<1> DEFINE c  == Head(writeTail)
           op == call[c]
<1>1. c \in Callers /\ op \in Call
  BY QueueHead
<1>2. /\ call' \in [Callers -> Call]
      /\ \A k \in Callers : k # c => call'[k] = call[k]
  BY <1>1, SettleCalls
<1>3. active' \subseteq Nat
  BY <1>1, CallFields DEF Settle, Running, TypeOK
<1>4. /\ writeTail' = Tail(writeTail)
      /\ ~renamed'
      /\ writeTail' \in Seq(Callers)
      /\ read' \subseteq read
  BY QueueHead DEF Settle, Forgotten
<1>5. \A n \in 1 .. Len(writeTail') :
         /\ n + 1 \in 1 .. Len(writeTail)
         /\ writeTail'[n] = writeTail[n + 1]
         /\ writeTail'[n] # c
         /\ writeTail'[n] \in Callers
  BY <1>4, QueueHead DEF TypeOK
<1>6. \A n \in 1 .. Len(writeTail') :
         call'[writeTail'[n]] = call[writeTail[n + 1]]
  BY <1>2, <1>5
<1>7. \A m, n \in 1 .. Len(writeTail') : m + 1 = n + 1 => m = n
  OBVIOUS
<1>8. QueueOK'
  BY <1>4, <1>5, <1>6, <1>7 DEF QueueOK
<1> QED BY <1>2, <1>3, <1>4, <1>8

\* The document that the running mutation read, if it has read one.
LEMMA WhatWasRead ==
  ASSUME TypeOK, ReadCurrent, ~renamed, NEW d \in ReadBy(Running)
  PROVE  d = file /\ d \in Document
<1>1. PICK x \in read : x[1] = Running /\ d = x[2]
  BY DEF ReadBy
<1> QED BY <1>1 DEF ReadCurrent, TypeOK

-----------------------------------------------------------------------------
(* Types.                                                                  *)

\* What the running mutation writes is a document, and one that keeps every
\* record of the document it read.
LEMMA UpdatedDocument ==
  ASSUME NEW d \in Document, ValidDocument(d), NEW op \in Call, Accepts(op, d)
  PROVE  Updated(op, d) \in Document /\ Extends(d, Updated(op, d))
<1>1. CASE op.op = "append" /\ CanDecide(d, op.item)
  <2>1. Updated(op, d) = WithDecision(d, op.item, op.intent)
    BY <1>1 DEF Updated
  <2> QED BY <1>1, <2>1, CallFields, WithDecisionType, WithDecisionExtends
<1>2. CASE op.op = "begin"
  <2>1. Updated(op, d) = WithAttempt(d, op.item, op.id)
    BY <1>2 DEF Updated
  <2> QED BY <1>2, <2>1, CallFields, WithAttemptType, WithAttemptExtends
<1>3. CASE op.op = "finish" /\ CanFinish(d, op.item, op.id)
  <2>1. Updated(op, d) = WithOutcome(d, op.item, op.id, op.outcome)
    BY <1>3 DEF Updated
  <2> QED BY <1>3, <2>1, CallFields, WithOutcomeType, WithOutcomeExtends
          DEF ValidDocument
<1>4. CASE op.op = "resolve"
  <2>1. Updated(op, d) = WithResolution(d, op.item, op.resolution)
    BY <1>4 DEF Updated
  <2> QED BY <1>4, <2>1, CallFields, WithResolutionType, WithResolutionExtends
<1> QED BY <1>1, <1>2, <1>3, <1>4 DEF Accepts

\* What a rename does.
LEMMA Renamed ==
  ASSUME TypeOK, QueueOK, DiskInv, StoreRename
  PROVE  LET op == call[Head(writeTail)]
         IN /\ Head(writeTail) \in Callers
            /\ op \in Call
            /\ Accepts(op, file)
            /\ file \in Document
            /\ ValidDocument(file)
            /\ file' = Updated(op, file)
            /\ ValidDocument(file')
            /\ file' \in Document
            /\ Extends(file, file')
            /\ durable' = durable \cup {file'}
            /\ UNCHANGED <<writeTail, read, call, active, nextId, restarts,
                           sent>>
<1> DEFINE op == call[Head(writeTail)]
<1>1. /\ writeTail # << >>
      /\ ~renamed
      /\ durable' = durable \cup {file'}
      /\ UNCHANGED <<writeTail, read, call, active, nextId, restarts, sent>>
  BY DEF StoreRename
<1>2. PICK d \in ReadBy(Running) :
         Writable(call[Running], d) /\ file' = Updated(call[Running], d)
  BY DEF StoreRename
<1>3. d = file /\ d \in Document
  BY <1>1, WhatWasRead DEF DiskInv
<1>4. Writable(op, file) /\ file' = Updated(op, file)
  BY <1>2, <1>3 DEF Running
<1>5. Head(writeTail) \in Callers /\ op \in Call
  BY <1>1, QueueHead
<1>6. file \in Document /\ ValidDocument(file)
  BY <1>3 DEF DiskInv, AllValid
<1>7. Accepts(op, file) /\ ValidDocument(file')
  BY <1>4 DEF Writable
<1>8. file' \in Document /\ Extends(file, file')
  BY <1>4, <1>5, <1>6, <1>7, UpdatedDocument
<1> QED BY <1>1, <1>4, <1>5, <1>6, <1>7, <1>8

\* What the other steps that end a mutation do.
LEMMA Settled ==
  ASSUME QueueOK, DiskInv,
         StoreSync \/ StoreUnsure \/ StoreExists \/ StoreRefuses \/ StoreFails
  PROVE  /\ writeTail # << >>
         /\ UNCHANGED file
         /\ durable' \in {durable, {file}}
         /\ \/ StoreSync /\ Settle(Recorded)
            \/ StoreExists /\ Settle(Existing)
            \/ Settle(Idle)
BY DEF StoreSync, StoreUnsure, StoreExists, StoreRefuses, StoreFails, QueueOK,
       Settle

\* The initial state.
LEMMA InitInv == Init => IInv
<1> SUFFICES ASSUME Init
             PROVE  IInv
  OBVIOUS
<1>1. TypeOK
  <2>1. Idle \in Call
    BY DEF Call
  <2>2. call \in [Callers -> Call]
    BY <2>1 DEF Init
  <2>3. writeTail \in Seq(Callers)
    BY DEF Init
  <2> QED BY <2>2, <2>3, EmptyDocumentType DEF Init, TypeOK
<1>2. QueueOK
  BY DEF Init, QueueOK
<1>3. DiskInv
  BY EmptyDocumentValid DEF Init, DiskInv, AllValid, ReadCurrent
<1>4. RecordInv
  <2>1. \A i \in Items : EmptyDocument.attempts[i] = << >>
    BY DEF EmptyDocument
  <2>2. Evidence(EmptyDocument)
    BY <2>1 DEF Evidence
  <2> QED BY <2>2 DEF Init, RecordInv, IntentsRecorded, OutcomesReported,
                      IntentBeforeEffect, Idle
<1>5. FreshIds
  <2>1. \A i \in Items : EmptyDocument.attempts[i] = << >>
    BY DEF EmptyDocument
  <2> QED BY <2>1 DEF Init, FreshIds, HasAttemptId, Idle
<1> QED BY <1>1, <1>2, <1>3, <1>4, <1>5 DEF IInv, TypeInv

\* A request starts in a free caller, and changes no file.
LEMMA RequestType ==
  ASSUME TypeInv, NEW c \in Callers, Request(c)
  PROVE  TypeInv'
<1> USE DEF TypeInv
<1>1. ASSUME NEW i \in Items, NEW v \in Intents, RecordDecision(c, i, v)
      PROVE  TypeInv'
  <2>1. [op |-> "append", item |-> i, intent |-> v] \in Call
    BY DEF Call
  <2>2. call[c].op \notin MutationOps
    BY <1>1 DEF RecordDecision, Free, Idle, Recorded, Existing, MutationOps
  <2>3. /\ QueueOK'
        /\ writeTail' \in Seq(Callers)
        /\ call' \in [Callers -> Call]
    BY <1>1, <2>1, <2>2, EnqueueKeepsQueue DEF RecordDecision, MutationOps
  <2> QED BY <1>1, <2>3 DEF RecordDecision, TypeOK, diskVars
<1>2. ASSUME NEW i \in Items, DeliverInspect(c, i)
      PROVE  TypeInv'
  <2>1. [op |-> "checking", item |-> i] \in Call
    BY DEF Call
  <2>2. call[c].op \notin MutationOps
    BY <1>2 DEF DeliverInspect, Free, Idle, Recorded, Existing, MutationOps
  <2>3. QueueOK' /\ call' \in [Callers -> Call]
    BY <1>2, <2>1, <2>2, BecomesKeepsQueue DEF DeliverInspect
  <2> QED BY <1>2, <2>3 DEF DeliverInspect, TypeOK, diskVars
<1>3. ASSUME NEW i \in Items, NEW r \in Requestable(i), ResolveInspect(c, i, r)
      PROVE  TypeInv'
  <2>1. r \in Resolution
    <3>1. \A n \in 1 .. Len(file.attempts[i]) : file.attempts[i][n] \in Attempt
      BY DEF TypeOK, Document
    <3> QED BY <3>1, DeliveryAssumption
            DEF Requestable, Resolution, AttemptResolution, Supersession
  <2>2. [op |-> "resolving", item |-> i, resolution |-> r] \in Call
    BY <2>1 DEF Call
  <2>3. call[c].op \notin MutationOps
    BY <1>3 DEF ResolveInspect, Free, Idle, Recorded, Existing, MutationOps
  <2>4. QueueOK' /\ call' \in [Callers -> Call]
    BY <1>3, <2>2, <2>3, BecomesKeepsQueue DEF ResolveInspect
  <2> QED BY <1>3, <2>4 DEF ResolveInspect, TypeOK, diskVars
<1> QED BY <1>1, <1>2, <1>3 DEF Request

\* So does a handler that runs on after an await.
LEMMA HandlerType ==
  ASSUME TypeInv, NEW c \in Callers, Handler(c)
  PROVE  TypeInv'
<1> USE DEF TypeInv
<1>1. call[c] \in Call /\ Idle \in Call
  BY DEF TypeOK, Call
<1>2. ASSUME DeliverUnavailable(c)
      PROVE  TypeInv'
  <2>1. call[c].op \notin MutationOps
    BY <1>2 DEF DeliverUnavailable, MutationOps
  <2>2. QueueOK' /\ call' \in [Callers -> Call]
    BY <1>1, <1>2, <2>1, BecomesKeepsQueue DEF DeliverUnavailable
  <2> QED BY <1>2, <2>2 DEF DeliverUnavailable, TypeOK, diskVars
<1>3. ASSUME DeliverBegin(c)
      PROVE  TypeInv'
  <2>1. [op |-> "begin", item |-> call[c].item, id |-> nextId] \in Call
    BY <1>1, <1>3, CallFields DEF DeliverBegin, TypeOK, Call
  <2>2. call[c].op \notin MutationOps
    BY <1>3 DEF DeliverBegin, MutationOps
  <2>3. /\ QueueOK'
        /\ writeTail' \in Seq(Callers)
        /\ call' \in [Callers -> Call]
    BY <1>3, <2>1, <2>2, EnqueueKeepsQueue DEF DeliverBegin, MutationOps
  <2> QED BY <1>3, <2>3 DEF DeliverBegin, TypeOK, diskVars
<1>4. ASSUME NEW o \in Outcomes, Invoke(c, o)
      PROVE  TypeInv'
  <2>1. call[c].op = "invoke" /\ call[c].item \in Items /\ call[c].id \in Nat
    BY <1>1, <1>4, CallFields DEF Invoke
  <2>2. [op |-> "finish", item |-> call[c].item, id |-> call[c].id,
         outcome |-> o] \in Call
    BY <2>1 DEF Call
  <2>3. call[c].op \notin MutationOps
    BY <2>1 DEF MutationOps
  <2>4. /\ QueueOK'
        /\ writeTail' \in Seq(Callers)
        /\ call' \in [Callers -> Call]
    BY <1>4, <2>2, <2>3, EnqueueKeepsQueue DEF Invoke, MutationOps
  <2>5. sent' \subseteq [item : Items, id : Nat, outcome : Outcomes]
    BY <1>4, <2>1 DEF Invoke, TypeOK
  <2> QED BY <1>4, <2>4, <2>5 DEF Invoke, TypeOK, diskVars
<1>5. ASSUME Recover(c)
      PROVE  TypeInv'
  <2>1. call[c].op \notin MutationOps
    BY <1>5 DEF Recover, MutationOps
  <2>2. QueueOK' /\ call' \in [Callers -> Call]
    BY <1>1, <1>5, <2>1, BecomesKeepsQueue DEF Recover
  <2> QED BY <1>5, <2>2 DEF Recover, TypeOK, diskVars
<1>6. ASSUME ResolveRejected(c)
      PROVE  TypeInv'
  <2>1. call[c].op \notin MutationOps
    BY <1>6 DEF ResolveRejected, MutationOps
  <2>2. QueueOK' /\ call' \in [Callers -> Call]
    BY <1>1, <1>6, <2>1, BecomesKeepsQueue DEF ResolveRejected
  <2> QED BY <1>6, <2>2 DEF ResolveRejected, TypeOK, diskVars
<1>7. ASSUME ResolveAppend(c)
      PROVE  TypeInv'
  <2>1. [call[c] EXCEPT !.op = "resolve"] \in Call
    BY <1>1, <1>7 DEF ResolveAppend, Call, Idle, Recorded, Existing
  <2>2. [call[c] EXCEPT !.op = "resolve"].op \in MutationOps
    BY <1>1, <1>7 DEF ResolveAppend, Call, Idle, Recorded, Existing, MutationOps
  <2>3. call[c].op \notin MutationOps
    BY <1>7 DEF ResolveAppend, MutationOps
  <2>4. /\ QueueOK'
        /\ writeTail' \in Seq(Callers)
        /\ call' \in [Callers -> Call]
    BY <1>7, <2>1, <2>2, <2>3, EnqueueKeepsQueue DEF ResolveAppend
  <2> QED BY <1>7, <2>4 DEF ResolveAppend, TypeOK, diskVars
<1>8. ASSUME BeginFails(c)
      PROVE  TypeInv'
  <2>1. call[c].op \notin MutationOps
    BY <1>8 DEF BeginFails, MutationOps
  <2>2. PICK x \in {Existing, Idle} : Becomes(c, x)
    BY <1>8 DEF BeginFails
  <2>3. x \in Call
    BY <2>2 DEF Call
  <2>4. QueueOK' /\ call' \in [Callers -> Call]
    BY <1>8, <2>1, <2>2, <2>3, BecomesKeepsQueue DEF BeginFails
  <2> QED BY <1>8, <2>4 DEF BeginFails, TypeOK, diskVars
<1> QED BY <1>2, <1>3, <1>4, <1>5, <1>6, <1>7, <1>8 DEF Handler

\* The store replaces a document by a document.
LEMMA StoreType ==
  ASSUME TypeInv, DiskInv, StoreStep
  PROVE  TypeInv'
<1> USE DEF TypeInv
<1>1. ASSUME StoreRename
      PROVE  TypeInv'
  <2>1. QueueOK'
    BY <1>1 DEF StoreRename, QueueOK
  <2>2. /\ file' \in Document
        /\ durable' = durable \cup {file'}
        /\ UNCHANGED <<writeTail, read, call, active, nextId, restarts, sent>>
    BY <1>1, Renamed
  <2>3. renamed' \in BOOLEAN
    BY <1>1 DEF StoreRename
  <2> QED BY <2>1, <2>2, <2>3 DEF TypeOK
<1>2. ASSUME NEW result \in {Recorded, Existing, Idle}, Settle(result),
             writeTail # << >>, durable' \in {durable, {file}}
      PROVE  TypeInv'
  <2>1. /\ QueueOK'
        /\ writeTail' \in Seq(Callers)
        /\ call' \in [Callers -> Call]
        /\ active' \subseteq Nat
        /\ read' \subseteq read
    BY <1>2, SettleKeepsQueue
  <2>2. UNCHANGED <<file, nextId, restarts, sent>> /\ renamed' = FALSE
    BY <1>2 DEF Settle
  <2> QED BY <1>2, <2>1, <2>2 DEF TypeOK
<1>3. CASE \/ StoreSync \/ StoreUnsure \/ StoreExists \/ StoreRefuses
           \/ StoreFails
  BY <1>2, <1>3, Settled
<1>4. ASSUME StoreRead
      PROVE  TypeInv'
  <2>1. Running \in Callers /\ file \in Document
    BY <1>4, QueueHead DEF StoreRead, Running, TypeOK
  <2>2. read' \subseteq Callers \X Document
    BY <1>4, <2>1 DEF StoreRead, TypeOK
  <2>3. QueueOK'
    BY <1>4 DEF StoreRead, QueueOK
  <2> QED BY <1>4, <2>2, <2>3 DEF StoreRead, TypeOK, diskVars
<1> QED BY <1>1, <1>3, <1>4 DEF StoreStep

\* A failure empties the process's state.
LEMMA RestartType ==
  ASSUME TypeInv, Crash \/ PowerLoss
  PROVE  TypeInv'
<1>1. Restart
  BY DEF Crash, PowerLoss
<1>2. QueueOK'
  BY <1>1 DEF Restart, QueueOK
<1>3. call' \in [Callers -> Call]
  <2>1. Idle \in Call
    BY DEF Call
  <2> QED BY <1>1, <2>1 DEF Restart
<1>4. writeTail' \in Seq(Callers) /\ read' \subseteq Callers \X Document
  BY <1>1 DEF Restart
<1>5. restarts' \in Nat
  BY <1>1 DEF Restart, TypeInv, TypeOK
<1>6. file' \in Document /\ durable' \subseteq Document
  <2>1. file \in Document /\ durable \subseteq Document
    BY DEF TypeInv, TypeOK
  <2>2. CASE Crash
    BY <2>1, <2>2 DEF Crash, diskVars
  <2>3. CASE PowerLoss
    BY <2>1, <2>3 DEF PowerLoss
  <2> QED BY <2>2, <2>3
<1>7. TypeOK'
  BY <1>1, <1>3, <1>4, <1>5, <1>6 DEF Restart, TypeInv, TypeOK
<1> QED BY <1>2, <1>7 DEF TypeInv

-----------------------------------------------------------------------------
(* The documents on disk.                                                  *)

\* A caller touches no file, reads none for a mutation, and queues behind the
\* running one.
LEMMA CallersLeaveDisk ==
  ASSUME NEW c \in Callers, Request(c) \/ Handler(c)
  PROVE  /\ UNCHANGED <<file, durable, read, renamed>>
         /\ UNCHANGED writeTail \/ writeTail' = Append(writeTail, c)
<1>1. CASE Request(c)
  BY <1>1 DEF Request, RecordDecision, DeliverInspect, ResolveInspect, Enqueue,
              diskVars
<1>2. CASE Handler(c)
  BY <1>2 DEF Handler, DeliverUnavailable, DeliverBegin, Invoke, Recover,
              BeginFails, ResolveRejected, ResolveAppend, Enqueue, diskVars
<1> QED BY <1>1, <1>2

\* What was read stays current while others queue.
LEMMA ReadKept ==
  ASSUME TypeOK, ReadCurrent, UNCHANGED <<file, read, renamed>>, NEW c \in Callers,
         UNCHANGED writeTail \/ writeTail' = Append(writeTail, c)
  PROVE  ReadCurrent'
<1> SUFFICES ASSUME NEW x \in read
             PROVE  /\ writeTail' # << >>
                    /\ x[1] = Head(writeTail')
                    /\ ~renamed => x[2] = file
  BY DEF ReadCurrent
<1>1. /\ writeTail # << >>
      /\ x[1] = Head(writeTail)
      /\ ~renamed => x[2] = file
  BY DEF ReadCurrent
<1>2. writeTail \in Seq(Callers)
  BY DEF TypeOK
<1>3. ASSUME NEW s \in Seq(Callers), s # << >>
      PROVE  Append(s, c) # << >> /\ Head(Append(s, c)) = Head(s)
  BY <1>3
<1>4. writeTail' # << >> /\ Head(writeTail') = Head(writeTail)
  BY <1>1, <1>2, <1>3
<1> QED BY <1>1, <1>4

\* Requests and handlers leave the disk alone; the store adds a validated
\* document to those a power loss may leave, or settles on one of them; a
\* power loss picks one.  What a mutation read is forgotten when it ends.
LEMMA DiskStep ==
  ASSUME TypeInv, DiskInv, Next
  PROVE  /\ StoreRename \/ durable' \subseteq durable
         /\ DiskInv'
<1> USE DEF TypeInv
<1>1. ASSUME NEW c \in Callers, Request(c) \/ Handler(c)
      PROVE  durable' \subseteq durable /\ DiskInv'
  <2>1. /\ UNCHANGED <<file, durable, read, renamed>>
        /\ UNCHANGED writeTail \/ writeTail' = Append(writeTail, c)
    BY <1>1, CallersLeaveDisk
  <2>2. ReadCurrent'
    BY <2>1, ReadKept DEF DiskInv
  <2> QED BY <2>1, <2>2 DEF DiskInv, AllValid
<1>2. ASSUME StoreRename
      PROVE  DiskInv'
  <2>1. /\ ValidDocument(file')
        /\ durable' = durable \cup {file'}
        /\ UNCHANGED <<writeTail, read>>
    BY <1>2, Renamed
  <2>2. renamed'
    BY <1>2 DEF StoreRename
  <2> QED BY <2>1, <2>2 DEF DiskInv, AllValid, ReadCurrent
<1>3. ASSUME StoreRead
      PROVE  durable' \subseteq durable /\ DiskInv'
  BY <1>3 DEF StoreRead, Running, DiskInv, AllValid, ReadCurrent, diskVars
<1>4. CASE \/ StoreSync \/ StoreUnsure \/ StoreExists \/ StoreRefuses
           \/ StoreFails
  <2>1. UNCHANGED file /\ durable' \subseteq durable /\ file' \in durable'
    BY <1>4, Settled DEF DiskInv
  <2>2. PICK result \in {Recorded, Existing, Idle} : Settle(result)
    BY <1>4, Settled
  <2>3. read' = {}
    BY <2>2 DEF Settle, Forgotten, Running, DiskInv, ReadCurrent
  <2> QED BY <2>1, <2>3 DEF DiskInv, AllValid, ReadCurrent
<1>5. CASE Crash \/ PowerLoss
  <2>1. durable' \subseteq durable /\ file' \in durable'
    BY <1>5 DEF Crash, PowerLoss, diskVars, DiskInv
  <2>2. read' = {}
    BY <1>5 DEF Crash, PowerLoss, Restart
  <2> QED BY <2>1, <2>2 DEF DiskInv, AllValid, ReadCurrent
<1> QED BY <1>1, <1>2, <1>3, <1>4, <1>5 DEF Next, StoreStep

\* Every possible document after a step keeps the records of one before it.
LEMMA HistoryStep ==
  ASSUME TypeInv, DiskInv, Next
  PROVE  \A e \in durable' : \E d \in durable : Extends(d, e)
<1>1. \A d \in durable : Extends(d, d)
  BY ExtendsReflexive DEF TypeInv, TypeOK
<1>2. CASE StoreRename
  <2>1. Extends(file, file') /\ durable' = durable \cup {file'}
    BY <1>2, Renamed DEF TypeInv
  <2> QED BY <1>1, <2>1 DEF DiskInv
<1>3. CASE durable' \subseteq durable
  BY <1>1, <1>3
<1> QED BY <1>2, <1>3, DiskStep

-----------------------------------------------------------------------------
(* The ids of attempts.                                                    *)

\* An update records no id but the one its intent was given.
LEMMA UpdatedIds ==
  ASSUME NEW d \in Document, NEW op \in Call, Accepts(op, d),
         NEW i \in Items, NEW a \in Nat, HasAttemptId(Updated(op, d), i, a)
  PROVE  \/ HasAttemptId(d, i, a)
         \/ op.op = "begin" /\ i = op.item /\ a = op.id
<1>1. CASE op.op \in {"append", "resolve"}
  <2>1. Updated(op, d).attempts = d.attempts
    BY <1>1 DEF Updated, WithDecision, WithResolution, Document
  <2> QED BY <2>1 DEF HasAttemptId
<1>2. CASE op.op = "begin"
  <2> DEFINE s == d.attempts[op.item]
             t == Append(s, [id |-> op.id, outcome |-> Pending])
  <2>1. op.item \in Items /\ op.id \in Nat
    BY <1>2, CallFields
  <2>2. \A j \in Items : Updated(op, d).attempts[j] =
                           IF j = op.item THEN t ELSE d.attempts[j]
    BY <1>2, <2>1 DEF Updated, WithAttempt, Document
  <2>3. s \in Seq(Attempt)
    BY <2>1 DEF Document
  <2>4. \A n \in 1 .. Len(t) : \/ n \in 1 .. Len(s) /\ t[n] = s[n]
                               \/ t[n].id = op.id
    BY <2>1, <2>3, AttemptType
  <2> HIDE DEF t
  <2> QED BY <1>2, <2>1, <2>2, <2>4 DEF HasAttemptId
<1>3. CASE op.op = "finish"
  <2> DEFINE s == d.attempts[op.item]
             t == [n \in DOMAIN s |-> IF s[n].id = op.id
                                        THEN [id |-> op.id,
                                              outcome |-> op.outcome]
                                        ELSE s[n]]
  <2>1. op.item \in Items /\ op.id \in Nat /\ op.outcome \in Outcomes
    BY <1>3, CallFields
  <2>2. \A j \in Items : Updated(op, d).attempts[j] =
                           IF j = op.item THEN t ELSE d.attempts[j]
    BY <1>3, <2>1 DEF Updated, WithOutcome, Document
  <2>3. s \in Seq(Attempt)
    BY <2>1 DEF Document
  <2>4. DOMAIN s = 1 .. Len(s) /\ Len(t) = Len(s)
    BY <2>1, <2>3, OutcomeAttempts
  <2>5. \A n \in 1 .. Len(s) : t[n].id = s[n].id
    BY <2>4
  <2> HIDE DEF t
  <2> QED BY <2>1, <2>2, <2>4, <2>5 DEF HasAttemptId
<1> QED BY <1>1, <1>2, <1>3 DEF Accepts

\* A step that queues no intent and adds no document draws no id.
LEMMA NoNewIntent ==
  ASSUME FreshIds, durable' \subseteq durable, UNCHANGED nextId,
         \A c \in Callers : call'[c].op = "begin" => call'[c] = call[c]
  PROVE  FreshIds'
BY DEF FreshIds

\* A caller's request, once it becomes x, is what the caller does.
LEMMA CallerBecomes ==
  ASSUME TypeOK, NEW c \in Callers, NEW x, Becomes(c, x)
  PROVE  \A k \in Callers : call'[k] = IF k = c THEN x ELSE call[k]
BY DEF Becomes, TypeOK

\* The ids of attempts stay fresh.
LEMMA FreshStep ==
  ASSUME TypeInv, DiskInv, FreshIds, Next
  PROVE  FreshIds'
<1> USE DEF TypeInv
<1>1. ASSUME NEW c \in Callers, NEW x, Becomes(c, x), x.op # "begin",
             UNCHANGED <<durable, nextId>>
      PROVE  FreshIds'
  <2>1. \A k \in Callers : call'[k] = IF k = c THEN x ELSE call[k]
    BY <1>1, CallerBecomes
  <2>2. \A k \in Callers : call'[k].op = "begin" => call'[k] = call[k]
    BY <1>1, <2>1
  <2> QED BY <1>1, <2>2, NoNewIntent
<1>2. ASSUME NEW c \in Callers, Request(c)
      PROVE  FreshIds'
  BY <1>1, <1>2 DEF Request, RecordDecision, DeliverInspect, ResolveInspect,
                    Enqueue, diskVars
<1>3. ASSUME NEW c \in Callers, DeliverBegin(c)
      PROVE  FreshIds'
  <2> DEFINE x == [op |-> "begin", item |-> call[c].item, id |-> nextId]
  <2>1. /\ Becomes(c, x)
        /\ UNCHANGED durable
        /\ nextId' = nextId + 1
        /\ x.id = nextId
    BY <1>3 DEF DeliverBegin, Enqueue, diskVars
  <2>2. \A k \in Callers : call'[k] = IF k = c THEN x ELSE call[k]
    BY <2>1, CallerBecomes
  <2>3. nextId \in Nat /\ \A k \in Callers : call[k] \in Call
    BY DEF TypeOK
  <2>4. \A k \in Callers : call[k].op = "begin" =>
           call[k].id \in Nat /\ call[k].id < nextId
    BY <2>3, CallFields DEF FreshIds
  <2>5. \A d \in durable : \A i \in Items : ~HasAttemptId(d, i, nextId)
    BY <2>3 DEF FreshIds
  <2> HIDE DEF x
  <2>6. \A d \in durable : \A i \in Items :
          \A a \in Nat : HasAttemptId(d, i, a) => a < nextId + 1
    BY <2>3 DEF FreshIds
  <2>7. ASSUME NEW k \in Callers, call'[k].op = "begin"
        PROVE  /\ call'[k].id < nextId + 1
               /\ \A d \in durable : \A i \in Items :
                    HasAttemptId(d, i, call'[k].id) => i = call'[k].item
               /\ \A l \in Callers :
                    call'[l].op = "begin" /\ call'[l].id = call'[k].id => l = k
    <3>1. CASE k = c
      <4>1. call'[k].id = nextId
        BY <2>1, <2>2, <3>1
      <4>2. \A l \in Callers : l # c /\ call'[l].op = "begin"
                                 => call'[l].id # nextId
        BY <2>2, <2>3, <2>4
      <4> QED BY <2>3, <2>5, <3>1, <4>1, <4>2
    <3>2. CASE k # c
      <4>1. call'[k] = call[k]
        BY <2>2, <3>2
      <4>2. call[k].id \in Nat /\ call[k].id < nextId
        BY <2>4, <2>7, <4>1
      <4>3. call'[c].id # call'[k].id
        BY <2>1, <2>2, <2>3, <4>1, <4>2
      <4>4. \A l \in Callers : l # c => call'[l] = call[l]
        BY <2>2
      <4> QED BY <2>3, <2>7, <4>1, <4>2, <4>3, <4>4 DEF FreshIds
    <3> QED BY <3>1, <3>2
  <2> QED BY <2>1, <2>6, <2>7 DEF FreshIds
<1>4. ASSUME NEW c \in Callers, Handler(c), ~DeliverBegin(c)
      PROVE  FreshIds'
  <2>1. CASE ResolveAppend(c)
    <3>1. call[c] \in Call /\ call[c].op = "resolving"
      BY <2>1 DEF ResolveAppend, TypeOK
    <3>2. [call[c] EXCEPT !.op = "resolve"].op = "resolve"
      BY <3>1 DEF Call, Idle, Recorded, Existing
    <3> QED BY <1>1, <2>1, <3>2 DEF ResolveAppend, Enqueue, diskVars
  <2>2. CASE ~ResolveAppend(c)
    BY <1>1, <1>4, <2>2
       DEF Handler, DeliverUnavailable, Invoke, Recover, BeginFails,
           ResolveRejected, Enqueue, Idle, Existing, diskVars
  <2> QED BY <2>1, <2>2
<1>5. CASE StoreRename
  <2> DEFINE h == Head(writeTail)
             op == call[h]
  <2>1. /\ h \in Callers
        /\ op \in Call
        /\ Accepts(op, file)
        /\ file \in Document
        /\ file' = Updated(op, file)
        /\ durable' = durable \cup {file'}
        /\ UNCHANGED <<call, nextId>>
    BY <1>5, Renamed
  <2>2. file \in durable
    BY DEF DiskInv
  <2>3. \A i \in Items : \A a \in Nat : HasAttemptId(file', i, a) =>
           \/ HasAttemptId(file, i, a)
           \/ op.op = "begin" /\ i = op.item /\ a = op.id
    BY <2>1, UpdatedIds
  <2> HIDE DEF op, h
  <2>4. op.op = "begin" => op.id < nextId
    BY <2>1 DEF FreshIds, op
  <2>5. \A d \in durable' : \A i \in Items :
          \A a \in Nat : HasAttemptId(d, i, a) => a < nextId
    BY <2>1, <2>2, <2>3, <2>4 DEF FreshIds
  <2>6. ASSUME NEW c \in Callers, call[c].op = "begin",
               NEW i \in Items, HasAttemptId(file', i, call[c].id)
        PROVE  i = call[c].item
    <3>1. call[c].id \in Nat
      BY <2>6, CallFields DEF TypeOK
    <3>2. CASE HasAttemptId(file, i, call[c].id)
      BY <2>2, <2>6, <3>2 DEF FreshIds
    <3>3. CASE op.op = "begin" /\ i = op.item /\ call[c].id = op.id
      <4>1. c = h
        BY <2>1, <2>6, <3>3 DEF FreshIds, op
      <4> QED BY <3>3, <4>1 DEF op
    <3> QED BY <2>3, <2>6, <3>1, <3>2, <3>3
  <2> QED BY <2>1, <2>5, <2>6 DEF FreshIds
<1>6. CASE StoreRead
  BY <1>6, NoNewIntent DEF StoreRead, diskVars
<1>7. CASE \/ StoreSync \/ StoreUnsure \/ StoreExists \/ StoreRefuses
           \/ StoreFails
  <2>1. writeTail # << >> /\ durable' \subseteq durable
    BY <1>7, Settled DEF DiskInv
  <2>2. PICK result \in {Recorded, Existing, Idle} : Settle(result)
    BY <1>7, Settled
  <2>3. ASSUME NEW c \in Callers, call'[c].op = "begin"
        PROVE  call'[c] = call[c]
    <3>1. call'[c] \notin {Recorded, Existing, Idle}
      BY <2>3 DEF Idle, Recorded, Existing
    <3>2. call'[c].op \notin {"reread", "recover"}
      BY <2>3
    <3>3. call'[c] # [op |-> "invoke", item |-> call[c].item,
                      id |-> call[c].id]
      BY <2>3
    <3> QED BY <2>1, <2>2, <3>1, <3>2, <3>3, SettleCalls
  <2>4. UNCHANGED nextId
    BY <2>2 DEF Settle
  <2> QED BY <2>1, <2>3, <2>4, NoNewIntent
<1>8. CASE Crash \/ PowerLoss
  <2>1. durable' \subseteq durable
    BY <1>8 DEF Crash, PowerLoss, diskVars
  <2>2. UNCHANGED nextId /\ \A c \in Callers : call'[c].op # "begin"
    BY <1>8 DEF Crash, PowerLoss, Restart, Idle
  <2> QED BY <2>1, <2>2, NoNewIntent
<1> QED BY <1>2, <1>3, <1>4, <1>5, <1>6, <1>7, <1>8 DEF Next, StoreStep

-----------------------------------------------------------------------------
(* What is recorded about what was sent.                                   *)

\* An update records no outcome but those the transport reported.
LEMMA UpdatedEvidence ==
  ASSUME NEW d \in Document, NEW op \in Call, Accepts(op, d), Evidence(d),
         op.op = "finish" =>
           [item |-> op.item, id |-> op.id, outcome |-> op.outcome] \in sent
  PROVE  Evidence(Updated(op, d))
<1>1. CASE op.op \in {"append", "resolve"}
  <2>1. Updated(op, d).attempts = d.attempts
    BY <1>1 DEF Updated, WithDecision, WithResolution, Document
  <2> QED BY <2>1 DEF Evidence
<1>2. CASE op.op = "begin"
  <2> DEFINE s == d.attempts[op.item]
             t == Append(s, [id |-> op.id, outcome |-> Pending])
  <2>1. op.item \in Items /\ op.id \in Nat
    BY <1>2, CallFields
  <2>2. \A i \in Items : Updated(op, d).attempts[i] =
                           IF i = op.item THEN t ELSE d.attempts[i]
    BY <1>2, <2>1 DEF Updated, WithAttempt, Document
  <2>3. s \in Seq(Attempt)
    BY <2>1 DEF Document
  <2>4. \A n \in 1 .. Len(t) : t[n].outcome # Pending =>
                                 n \in 1 .. Len(s) /\ t[n] = s[n]
    BY <2>1, <2>3, AttemptType
  <2> HIDE DEF t
  <2> QED BY <2>1, <2>2, <2>4 DEF Evidence
<1>3. CASE op.op = "finish"
  <2> DEFINE s == d.attempts[op.item]
             t == [n \in DOMAIN s |-> IF s[n].id = op.id
                                        THEN [id |-> op.id,
                                              outcome |-> op.outcome]
                                        ELSE s[n]]
  <2>1. op.item \in Items /\ op.id \in Nat /\ op.outcome \in Outcomes
    BY <1>3, CallFields
  <2>2. \A i \in Items : Updated(op, d).attempts[i] =
                           IF i = op.item THEN t ELSE d.attempts[i]
    BY <1>3, <2>1 DEF Updated, WithOutcome, Document
  <2>3. s \in Seq(Attempt)
    BY <2>1 DEF Document
  <2>4. DOMAIN s = 1 .. Len(s) /\ Len(t) = Len(s)
    BY <2>1, <2>3, OutcomeAttempts
  <2>5. \A n \in 1 .. Len(s) :
           \/ t[n].id = op.id /\ t[n].outcome = op.outcome
           \/ t[n] = s[n]
    BY <2>4
  <2> HIDE DEF t
  <2> QED BY <1>3, <2>1, <2>2, <2>4, <2>5 DEF Evidence
<1> QED BY <1>1, <1>2, <1>3 DEF Accepts

\* A caller that asks for nothing new about the transport, or passes on what
\* it was told, keeps what is known about what was sent.
LEMMA CallerStep ==
  ASSUME TypeInv, RecordInv, UNCHANGED durable,
         NEW c \in Callers, NEW x, Becomes(c, x), sent \subseteq sent',
         IntentBeforeEffect',
         x.op \in {"invoke", "finish"} =>
           \A d \in durable : HasAttemptId(d, x.item, x.id),
         x.op = "finish" =>
           [item |-> x.item, id |-> x.id, outcome |-> x.outcome] \in sent'
  PROVE  RecordInv'
<1>1. \A k \in Callers : call'[k] = IF k = c THEN x ELSE call[k]
  BY CallerBecomes DEF TypeInv
<1>2. IntentsRecorded'
  BY <1>1 DEF RecordInv, IntentsRecorded
<1>3. OutcomesReported'
  BY <1>1 DEF RecordInv, OutcomesReported
<1>4. \A d \in durable' : Evidence(d)'
  BY DEF RecordInv, Evidence
<1> QED BY <1>2, <1>3, <1>4 DEF RecordInv

\* Requests say nothing about the transport yet.
LEMMA RequestRecords ==
  ASSUME TypeInv, RecordInv, NEW c \in Callers, Request(c)
  PROVE  RecordInv'
<1> DEFINE Quiet == /\ UNCHANGED <<durable, sent>>
                    /\ \E x \in Call : /\ Becomes(c, x)
                                       /\ x.op \notin {"invoke", "finish"}
<1>1. Quiet
  <2>1. ASSUME NEW i \in Items, NEW v \in Intents, RecordDecision(c, i, v)
        PROVE  Quiet
    <3>1. [op |-> "append", item |-> i, intent |-> v] \in Call
      BY DEF Call
    <3> QED BY <2>1, <3>1 DEF RecordDecision, Enqueue, diskVars
  <2>2. ASSUME NEW i \in Items, DeliverInspect(c, i)
        PROVE  Quiet
    <3>1. [op |-> "checking", item |-> i] \in Call
      BY DEF Call
    <3> QED BY <2>2, <3>1 DEF DeliverInspect, diskVars
  <2>3. ASSUME NEW i \in Items, NEW r \in Requestable(i), ResolveInspect(c, i, r)
        PROVE  Quiet
    <3>1. r \in Resolution
      <4>1. \A n \in 1 .. Len(file.attempts[i]) :
               file.attempts[i][n] \in Attempt
        BY DEF TypeInv, TypeOK, Document
      <4> QED BY <4>1, DeliveryAssumption
              DEF Requestable, Resolution, AttemptResolution, Supersession
    <3>2. [op |-> "resolving", item |-> i, resolution |-> r] \in Call
      BY <3>1 DEF Call
    <3> QED BY <2>3, <3>2 DEF ResolveInspect, diskVars
  <2> QED BY <2>1, <2>2, <2>3 DEF Request
<1>2. IntentBeforeEffect'
  BY <1>1 DEF RecordInv, IntentBeforeEffect
<1> QED BY <1>1, <1>2, CallerStep

\* The transport is invoked for an attempt recorded in every document, and
\* its report is the outcome queued for recording.
LEMMA HandlerRecords ==
  ASSUME TypeInv, RecordInv, NEW c \in Callers, Handler(c)
  PROVE  RecordInv'
<1>1. UNCHANGED durable
  BY CallersLeaveDisk
<1>2. ASSUME NEW x, Becomes(c, x), x.op \notin {"invoke", "finish"},
             UNCHANGED sent
      PROVE  RecordInv'
  <2>1. IntentBeforeEffect'
    BY <1>1, <1>2 DEF RecordInv, IntentBeforeEffect
  <2> QED BY <1>1, <1>2, <2>1, CallerStep
<1>3. CASE \/ DeliverUnavailable(c) \/ DeliverBegin(c) \/ Recover(c)
           \/ BeginFails(c) \/ ResolveRejected(c)
  BY <1>2, <1>3 DEF DeliverUnavailable, DeliverBegin, Recover, BeginFails,
                    ResolveRejected, Enqueue, Idle, Existing
<1>4. CASE ResolveAppend(c)
  <2>1. call[c] \in Call /\ call[c].op = "resolving"
    BY <1>4 DEF ResolveAppend, TypeInv, TypeOK
  <2>2. [call[c] EXCEPT !.op = "resolve"].op = "resolve"
    BY <2>1 DEF Call, Idle, Recorded, Existing
  <2> QED BY <1>2, <1>4, <2>2 DEF ResolveAppend, Enqueue
<1>5. ASSUME NEW o \in Outcomes, Invoke(c, o)
      PROVE  RecordInv'
  <2> DEFINE x == [op |-> "finish", item |-> call[c].item, id |-> call[c].id,
                   outcome |-> o]
  <2>1. Becomes(c, x) /\ call[c].op = "invoke"
    BY <1>5 DEF Invoke, Enqueue
  <2>2. sent' = sent \cup {[item |-> x.item, id |-> x.id, outcome |-> x.outcome]}
    BY <1>5 DEF Invoke
  <2>3. \A d \in durable : HasAttemptId(d, x.item, x.id)
    BY <2>1 DEF RecordInv, IntentsRecorded
  <2>4. IntentBeforeEffect'
    BY <1>1, <2>2, <2>3 DEF RecordInv, IntentBeforeEffect
  <2> HIDE DEF x
  <2> QED BY <1>1, <2>1, <2>2, <2>3, <2>4, CallerStep
<1> QED BY <1>3, <1>4, <1>5 DEF Handler

\* A mutation that ends.
LEMMA SettleRecords ==
  ASSUME TypeInv, RecordInv, writeTail # << >>, durable' \subseteq durable,
         NEW result \in {Recorded, Existing, Idle}, Settle(result),
         result = Recorded =>
           /\ durable' = {file}
           /\ call[Head(writeTail)].op = "begin" =>
                HasAttemptId(file, call[Head(writeTail)].item,
                             call[Head(writeTail)].id)
  PROVE  RecordInv'
<1>1. UNCHANGED sent
  BY DEF Settle
<1>2. ASSUME NEW c \in Callers, call'[c].op \in {"invoke", "finish"}
      PROVE  \/ call'[c] = call[c]
             \/ /\ c = Head(writeTail)
                /\ result = Recorded
                /\ call[c].op = "begin"
                /\ call'[c] = [op |-> "invoke", item |-> call[c].item,
                               id |-> call[c].id]
  <2>1. call'[c] \notin {Recorded, Existing, Idle}
    BY <1>2 DEF Idle, Recorded, Existing
  <2>2. call'[c].op \notin {"reread", "recover"}
    BY <1>2
  <2> QED BY <2>1, <2>2, SettleCalls DEF TypeInv
<1>3. IntentsRecorded'
  <2> SUFFICES ASSUME NEW c \in Callers, call'[c].op \in {"invoke", "finish"},
                      NEW d \in durable'
               PROVE  HasAttemptId(d, call'[c].item, call'[c].id)
    BY DEF IntentsRecorded
  <2>1. CASE call'[c] = call[c]
    BY <2>1 DEF RecordInv, IntentsRecorded
  <2>2. CASE /\ c = Head(writeTail)
             /\ result = Recorded
             /\ call[c].op = "begin"
             /\ call'[c] = [op |-> "invoke", item |-> call[c].item,
                            id |-> call[c].id]
    <3>1. call'[c].item = call[c].item /\ call'[c].id = call[c].id
      BY <2>2
    <3>2. d = file
      BY <2>2
    <3> QED BY <2>2, <3>1, <3>2
  <2> QED BY <1>2, <2>1, <2>2
<1>4. OutcomesReported'
  <2> SUFFICES ASSUME NEW c \in Callers, call'[c].op = "finish"
               PROVE  call'[c] = call[c]
    BY <1>1 DEF RecordInv, OutcomesReported
  <2>1. ~(call'[c] = [op |-> "invoke", item |-> call[c].item,
                      id |-> call[c].id])
    OBVIOUS
  <2> QED BY <1>2, <2>1
<1>5. IntentBeforeEffect'
  BY <1>1 DEF RecordInv, IntentBeforeEffect
<1>6. \A d \in durable' : Evidence(d)'
  BY <1>1 DEF RecordInv, Evidence
<1> QED BY <1>3, <1>4, <1>5, <1>6 DEF RecordInv

\* The store writes what the mutation asks for, and a success means that the
\* directory was synced and the file shows the record.
LEMMA StoreRecords ==
  ASSUME TypeInv, DiskInv, RecordInv, StoreStep
  PROVE  RecordInv'
<1>1. CASE StoreRename
  <2> DEFINE h == Head(writeTail)
             op == call[h]
  <2>1. /\ h \in Callers
        /\ op \in Call
        /\ Accepts(op, file)
        /\ file \in Document
        /\ file' = Updated(op, file)
        /\ file' \in Document
        /\ Extends(file, file')
        /\ durable' = durable \cup {file'}
        /\ UNCHANGED <<call, sent>>
    BY <1>1, Renamed DEF TypeInv
  <2>2. file \in durable /\ call \in [Callers -> Call]
    BY DEF TypeInv, TypeOK, DiskInv
  <2>3. \A i \in Items : \A a : HasAttemptId(file, i, a)
                                => HasAttemptId(file', i, a)
    BY <2>1, ExtendsKeepsAttempt
  <2>4. IntentsRecorded'
    <3>1. \A c \in Callers : call[c].op \in {"invoke", "finish"} =>
                               call[c].item \in Items
      BY <2>2, CallFields
    <3> QED BY <2>1, <2>2, <2>3, <3>1 DEF RecordInv, IntentsRecorded
  <2>5. OutcomesReported'
    BY <2>1 DEF RecordInv, OutcomesReported
  <2>6. IntentBeforeEffect'
    BY <2>1, <2>2, <2>3 DEF RecordInv, IntentBeforeEffect, TypeInv, TypeOK
  <2>7. op.op = "finish" =>
           [item |-> op.item, id |-> op.id, outcome |-> op.outcome] \in sent
    BY <2>1 DEF RecordInv, OutcomesReported
  <2>8. Evidence(file')
    BY <2>1, <2>2, <2>7, UpdatedEvidence DEF RecordInv
  <2>9. \A d \in durable' : Evidence(d)'
    BY <2>1, <2>8 DEF RecordInv, Evidence
  <2> QED BY <2>4, <2>5, <2>6, <2>9 DEF RecordInv
<1>2. CASE StoreRead
  BY <1>2 DEF StoreRead, RecordInv, IntentsRecorded, OutcomesReported,
              IntentBeforeEffect, Evidence, diskVars
<1>3. CASE StoreSync
  <2> DEFINE op == call[Head(writeTail)]
  <2>1. /\ writeTail # << >>
        /\ Holds(op, file)
        /\ durable' = {file}
        /\ Settle(Recorded)
    BY <1>3 DEF StoreSync, Running, TypeInv, QueueOK
  <2>2. op.op = "begin" => HasAttemptId(file, op.item, op.id)
    BY <2>1 DEF Holds, HasAttempt, HasAttemptId
  <2> QED BY <2>1, <2>2, SettleRecords DEF DiskInv
<1>4. CASE StoreUnsure \/ StoreExists \/ StoreRefuses \/ StoreFails
  <2>1. writeTail # << >> /\ durable' \subseteq durable
    BY <1>4, Settled DEF DiskInv, TypeInv
  <2>2. PICK result \in {Existing, Idle} : Settle(result)
    BY <1>4 DEF StoreUnsure, StoreExists, StoreRefuses, StoreFails
  <2>3. result # Recorded
    BY DEF Idle, Existing, Recorded
  <2> QED BY <2>1, <2>2, <2>3, SettleRecords
<1> QED BY <1>1, <1>2, <1>3, <1>4 DEF StoreStep

\* A failure forgets the callers and keeps what was sent; a power loss keeps
\* one of the possible documents.
LEMMA RestartRecords ==
  ASSUME TypeInv, RecordInv, Crash \/ PowerLoss
  PROVE  RecordInv'
<1>1. /\ Restart
      /\ (file' = file /\ durable' = durable) \/ durable' \subseteq durable
  BY DEF Crash, PowerLoss, diskVars
<1>2. (\A c \in Callers : call'[c].op = "idle") /\ UNCHANGED sent
  BY <1>1 DEF Restart, Idle
<1>3. IntentsRecorded' /\ OutcomesReported'
  BY <1>2 DEF IntentsRecorded, OutcomesReported
<1>4. IntentBeforeEffect'
  BY <1>1, <1>2 DEF RecordInv, IntentBeforeEffect
<1>5. \A d \in durable' : Evidence(d)'
  BY <1>1, <1>2 DEF RecordInv, Evidence
<1> QED BY <1>3, <1>4, <1>5 DEF RecordInv

\* Every step keeps the invariant.
LEMMA NextInv == IInv /\ [Next]_vars => IInv'
<1> SUFFICES ASSUME IInv, [Next]_vars
             PROVE  IInv'
  OBVIOUS
<1> USE DEF IInv
<1>1. ASSUME NEW c \in Callers, Request(c)
      PROVE  TypeInv' /\ RecordInv'
  BY <1>1, RequestType, RequestRecords
<1>2. ASSUME NEW c \in Callers, Handler(c)
      PROVE  TypeInv' /\ RecordInv'
  BY <1>2, HandlerType, HandlerRecords
<1>3. CASE StoreStep
  BY <1>3, StoreType, StoreRecords, DiskStep, FreshStep DEF Next
<1>4. CASE Crash \/ PowerLoss
  BY <1>4, RestartType, RestartRecords, DiskStep, FreshStep DEF Next
<1>5. CASE UNCHANGED vars
  <2>1. TypeInv'
    BY <1>5 DEF vars, diskVars, TypeInv, TypeOK, QueueOK
  <2>2. DiskInv'
    BY <1>5 DEF vars, diskVars, DiskInv, AllValid, ReadCurrent
  <2>3. RecordInv'
    BY <1>5 DEF vars, diskVars, RecordInv, IntentsRecorded, OutcomesReported,
                IntentBeforeEffect, Evidence
  <2>4. FreshIds'
    BY <1>5 DEF vars, diskVars, FreshIds
  <2> QED BY <2>1, <2>2, <2>3, <2>4
<1>6. CASE Next
  <2>1. DiskInv' /\ FreshIds'
    BY <1>6, DiskStep, FreshStep
  <2> QED BY <1>1, <1>2, <1>3, <1>4, <1>6, <2>1 DEF Next
<1> QED BY <1>5, <1>6

-----------------------------------------------------------------------------
(* The theorems.                                                           *)

\* The invariant holds in every reachable state.
THEOREM Invariance == Spec => []IInv
BY InitInv, NextInv, PTL DEF Spec

\* The state of the services and of the store stays well formed.
THEOREM TypeCorrect == Spec => []TypeOK
<1>1. IInv => TypeOK
  BY DEF IInv, TypeInv
<1> QED BY <1>1, Invariance, PTL

\* append(), beginDelivery() and finishDelivery() check all that the schema
\* and validateQueueStateV3 do, but for a label on an attempt under way: the
\* document that follows from an accepted mutation is never refused.
THEOREM ChecksAreEnough == Spec => []ChecksSuffice
<1>1. IInv => ChecksSuffice
  <2> SUFFICES ASSUME IInv, NEW c \in Callers, Accepts(call[c], file),
                      call[c].op \in {"append", "begin", "finish"}
               PROVE  \/ ValidDocument(Updated(call[c], file))
                      \/ /\ call[c].op = "finish"
                         /\ LabelsPending(file, call[c].item, call[c].id)
    BY DEF ChecksSuffice
  <2> DEFINE op == call[c]
  <2>1. /\ file \in Document
        /\ file \in durable
        /\ ValidDocument(file)
        /\ op \in Call
    BY DEF IInv, TypeInv, TypeOK, DiskInv, AllValid
  <2>2. CASE op.op = "append"
    <3>1. /\ op.item \in Items
          /\ op.intent \in Intents
          /\ CanDecide(file, op.item)
          /\ Updated(op, file) = WithDecision(file, op.item, op.intent)
      BY <2>1, <2>2, CallFields DEF Accepts, Updated
    <3> QED BY <2>1, <3>1, WithDecisionValid
  <2>3. CASE op.op = "begin"
    <3>1. /\ op.item \in Items
          /\ op.id \in Nat
          /\ CanBegin(file, op.item, op.id)
          /\ Updated(op, file) = WithAttempt(file, op.item, op.id)
      BY <2>1, <2>3, CallFields DEF Accepts, Updated
    <3>2. \A j \in Items : HasAttemptId(file, j, op.id) => j = op.item
      BY <2>1, <2>3 DEF IInv, FreshIds
    <3>3. ~HasAttemptId(file, op.item, op.id)
      BY <3>1 DEF CanBegin, HasBegun
    <3>4. \A j \in Items : ~HasAttemptId(file, j, op.id)
      BY <3>2, <3>3
    <3> QED BY <2>1, <3>1, <3>4, WithAttemptValid
  <2>4. CASE op.op = "finish"
    <3>1. /\ op.item \in Items
          /\ op.id \in Nat
          /\ op.outcome \in Outcomes
          /\ CanFinish(file, op.item, op.id)
          /\ Updated(op, file) =
               WithOutcome(file, op.item, op.id, op.outcome)
      BY <2>1, <2>4, CallFields DEF Accepts, Updated
    <3> QED BY <2>1, <2>4, <3>1, WithOutcomeValid
  <2> QED BY <2>2, <2>3, <2>4
<1> QED BY <1>1, Invariance, PTL

\* deliver() hands a payload to the transport only under a durable intent.
THEOREM DurableIntent == Spec => []IntentBeforeEffect
<1>1. IInv => IntentBeforeEffect
  BY DEF IInv, RecordInv
<1> QED BY <1>1, Invariance, PTL

\* A decision is sent at most twice, and twice only after its first attempt
\* was durably confirmed as not delivered.
THEOREM AtMostTwice == Spec => []SentAtMostTwice
<1>1. IInv => SentAtMostTwice
  <2> SUFFICES ASSUME IInv, NEW i \in Items
               PROVE  /\ Cardinality(SendsOf(i)) <= 2
                      /\ Cardinality(SendsOf(i)) = 2
                           => \A d \in durable : Unlocked(d, i)
    BY DEF SentAtMostTwice
  <2>1. ASSUME NEW d \in durable
        PROVE  /\ Cardinality(SendsOf(i)) <= 2
               /\ Cardinality(SendsOf(i)) = 2 => Unlocked(d, i)
    <3>1. d \in Document /\ ValidDocument(d)
      BY DEF IInv, TypeInv, TypeOK, DiskInv, AllValid
    <3>2. \A a \in SendsOf(i) : HasAttemptId(d, i, a)
      BY DEF SendsOf, IInv, RecordInv, IntentBeforeEffect
    <3> QED BY <3>1, <3>2, TwoAttempts
  <2>2. file \in durable
    BY DEF IInv, DiskInv
  <2> QED BY <2>1, <2>2
<1> QED BY <1>1, Invariance, PTL

\* The recorded outcomes are those the transport reported, and nothing is
\* attempted after a delivery.
THEOREM RecordedEvidence == Spec => []OutcomeIsEvidence
<1>1. IInv => OutcomeIsEvidence
  <2> SUFFICES ASSUME IInv, NEW d \in durable, NEW i \in Items,
                      NEW n \in 1 .. Len(d.attempts[i]),
                      d.attempts[i][n].outcome # Pending
               PROVE  /\ [item |-> i, id |-> d.attempts[i][n].id,
                           outcome |-> d.attempts[i][n].outcome] \in sent
                      /\ d.attempts[i][n].outcome = "delivered"
                           => n = Len(d.attempts[i])
    BY DEF OutcomeIsEvidence
  <2>1. Evidence(d)
    BY DEF IInv, RecordInv
  <2>2. d \in Document /\ ValidDocument(d)
    BY DEF IInv, TypeInv, TypeOK, DiskInv, AllValid
  <2> QED BY <2>1, <2>2, DeliveredIsLast DEF Evidence
<1> QED BY <1>1, Invariance, PTL

\* No step loses or rewrites a record: neither a mutation, which writes what
\* follows from what it read some steps before, nor a failure.
THEOREM History == Spec => HistoryIsKept
<1>1. IInv /\ [Next]_vars
        => [\A e \in durable' : \E d \in durable : Extends(d, e)]_vars
  BY HistoryStep DEF IInv
<1> QED BY <1>1, Invariance, PTL DEF Spec, HistoryIsKept

\* A caller that becomes something else is not answered by that.
LEMMA NotAnswered ==
  ASSUME TypeOK, NEW k \in Callers, NEW x, Becomes(k, x),
         NEW a, x # a, NEW c \in Callers, Answers(c, a)
  PROVE  FALSE
BY CallerBecomes DEF Answers

\* A caller is answered "recorded" only when every possible document holds
\* its record, and with an existing record only when the file shows it.
THEOREM TrueAnswers == Spec => AnswersAreTrue
<1>1. ASSUME IInv, Next, NEW c \in Callers
      PROVE  /\ Answers(c, Recorded) => \A d \in durable' : Holds(call[c], d)
             /\ Answers(c, Existing) => Shows(call[c], file')
  <2> TypeOK /\ QueueOK /\ DiskInv
    BY <1>1 DEF IInv, TypeInv
  <2>1. ASSUME NEW k \in Callers, NEW x, Becomes(k, x), x.op # "recorded"
        PROVE  ~Answers(c, Recorded)
    BY <2>1, NotAnswered DEF Recorded
  <2>2. ASSUME NEW k \in Callers, NEW x, Becomes(k, x), x.op # "existing"
        PROVE  ~Answers(c, Existing)
    BY <2>2, NotAnswered DEF Existing
  <2>3. ASSUME NEW k \in Callers, Request(k) \/ (Handler(k) /\ ~BeginFails(k))
        PROVE  ~Answers(c, Recorded) /\ ~Answers(c, Existing)
    <3>1. ASSUME NEW x, Becomes(k, x), x.op \notin {"recorded", "existing"}
          PROVE  ~Answers(c, Recorded) /\ ~Answers(c, Existing)
      BY <2>1, <2>2, <3>1
    <3>2. CASE ResolveAppend(k)
      <4>1. call[k] \in Call /\ call[k].op = "resolving"
        BY <3>2 DEF ResolveAppend, TypeOK
      <4>2. [call[k] EXCEPT !.op = "resolve"].op = "resolve"
        BY <4>1 DEF Call, Idle, Recorded, Existing
      <4> QED BY <3>1, <3>2, <4>2 DEF ResolveAppend, Enqueue
    <3>3. CASE Handler(k) /\ ~BeginFails(k) /\ ~ResolveAppend(k)
      BY <3>1, <3>3 DEF Handler, DeliverUnavailable, DeliverBegin, Invoke,
                        Recover, ResolveRejected, Enqueue, Idle
    <3>4. CASE Request(k)
      BY <3>1, <3>4 DEF Request, RecordDecision, DeliverInspect,
                        ResolveInspect, Enqueue
    <3> QED BY <2>3, <3>2, <3>3, <3>4
  <2>4. ASSUME NEW k \in Callers, BeginFails(k)
        PROVE  /\ ~Answers(c, Recorded)
               /\ Answers(c, Existing) => Shows(call[c], file')
    <3>1. CASE Becomes(k, Idle)
      BY <2>1, <2>2, <3>1 DEF Idle
    <3>2. CASE Becomes(k, Existing) /\ file.attempts[call[k].item] # << >>
      <4>1. ~Answers(c, Recorded)
        BY <2>1, <3>2 DEF Existing
      <4>2. ASSUME Answers(c, Existing)
            PROVE  c = k
        BY <3>2, <4>2, CallerBecomes DEF Answers
      <4>3. call[k].op = "reread" /\ UNCHANGED file
        BY <2>4 DEF BeginFails, diskVars
      <4> QED BY <3>2, <4>1, <4>2, <4>3 DEF Shows
    <3> QED BY <2>4, <3>1, <3>2 DEF BeginFails
  <2>5. CASE \/ StoreSync \/ StoreUnsure \/ StoreExists \/ StoreRefuses
             \/ StoreFails
    <3> DEFINE h == Head(writeTail)
    <3>1. h \in Callers /\ writeTail # << >> /\ UNCHANGED file
      BY <2>5, Settled, QueueHead
    <3>2. ASSUME NEW result \in {Recorded, Existing, Idle}, Settle(result),
                 NEW a \in {Recorded, Existing}, Answers(c, a)
          PROVE  a = result /\ c = h
      <4>1. call'[c] = a /\ call[c] # a
        BY <3>2 DEF Answers
      <4>2. call'[c].op \notin {"reread", "recover", "invoke"}
        BY <4>1 DEF Recorded, Existing
      <4>3. call'[c] # [op |-> "invoke", item |-> call[c].item,
                        id |-> call[c].id]
        BY <4>2
      <4> QED BY <3>1, <3>2, <4>1, <4>2, <4>3, SettleCalls
    <3>3. CASE StoreSync /\ Settle(Recorded)
      <4>1. Holds(call[h], file) /\ durable' = {file}
        BY <3>3 DEF StoreSync, Running
      <4>2. ~Answers(c, Existing)
        BY <3>2, <3>3 DEF Recorded, Existing
      <4> QED BY <3>2, <3>3, <4>1, <4>2
    <3>4. CASE StoreExists /\ Settle(Existing)
      <4>1. ~Answers(c, Recorded)
        BY <3>2, <3>4 DEF Recorded, Existing
      <4>2. IsExisting(call[h], file)
        <5>1. PICK d \in ReadBy(Running) : IsExisting(call[Running], d)
          BY <3>4 DEF StoreExists
        <5>2. d = file
          BY <3>4, WhatWasRead DEF StoreExists, DiskInv
        <5> QED BY <5>1, <5>2 DEF Running
      <4>3. Shows(call[h], file)
        <5>1. CASE call[h].op = "begin"
          <6>1. /\ call[h].item \in Items
                /\ HasBegun(file, call[h].item, call[h].id)
            BY <3>1, <4>2, <5>1, QueueHead, CallFields DEF IsExisting
          <6>2. file.attempts[call[h].item] # << >>
            <7> DEFINE s == file.attempts[call[h].item]
            <7>1. s = << >> => Len(s) = 0
              OBVIOUS
            <7>2. ~(Len(s) = 0)
              <8> HIDE DEF h
              <8> QED BY <6>1 DEF HasBegun, HasAttemptId
            <7> QED BY <7>1, <7>2
          <6> QED BY <5>1, <6>2 DEF Shows
        <5>2. CASE call[h].op # "begin"
          <6>1. call[h].op # "reread"
            BY <3>1, QueueHead DEF MutationOps
          <6> QED BY <4>2, <5>2, <6>1 DEF IsExisting, Shows
        <5> QED BY <5>1, <5>2
      <4> QED BY <3>1, <3>2, <3>4, <4>1, <4>3
    <3>5. CASE Settle(Idle)
      BY <3>2, <3>5 DEF Idle, Recorded, Existing
    <3> QED BY <2>5, <3>3, <3>4, <3>5, Settled
  <2>6. CASE StoreRead \/ StoreRename
    BY <2>6 DEF StoreRead, StoreRename, Answers
  <2>7. CASE Crash \/ PowerLoss
    <3>1. call'[c].op = "idle"
      BY <2>7 DEF Crash, PowerLoss, Restart, Idle
    <3> QED BY <3>1 DEF Answers, Recorded, Existing
  <2> QED BY <1>1, <2>3, <2>4, <2>5, <2>6, <2>7 DEF Next, StoreStep
<1>2. IInv /\ [Next]_vars
        => [\A c \in Callers :
              /\ Answers(c, Recorded) => \A d \in durable' : Holds(call[c], d)
              /\ Answers(c, Existing) => Shows(call[c], file')]_vars
  BY <1>1
<1> QED BY <1>2, Invariance, PTL DEF Spec, AnswersAreTrue
=============================================================================
