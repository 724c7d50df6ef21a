-------------------------- MODULE MCQueueDelivery --------------------------
(* Instances of QueueDelivery for TLC. *)
EXTENDS QueueDelivery, TLC

\* Callers and intents are interchangeable in the invariants.
Symmetry == Permutations(Callers) \cup Permutations(Intents)
              \cup Permutations(Items)
=============================================================================
