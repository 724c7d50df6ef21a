------------------------ MODULE MCVerificationRuns ------------------------
(* Model values for VerificationRuns.                                      *)
EXTENDS VerificationRuns

CONSTANT o1   \* one of the sessions

\* The sessions are interchangeable at the start and in every property, so it
\* is enough to look at the behaviours whose first run is of this one.
FirstRunIsOfFirst == owner'[1] \in {None, o1}
=============================================================================
