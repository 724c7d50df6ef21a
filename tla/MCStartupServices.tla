------------------------- MODULE MCStartupServices -------------------------
(* Model values for StartupServices; the requests of the observer, the     *)
(* launches and the callers of the setup are interchangeable.              *)
EXTENDS StartupServices, TLC

CONSTANTS s1, q1, q2, c1, a1, a2, r1, r2, n1, n2

\* The empty environment, and one for each thing that it may override.
Plain ==
  [tmux |-> FALSE, meta |-> NoName, serve |-> "unset", defaultPort |-> TRUE]
MCEnvironments ==
  {Plain, [Plain EXCEPT !.tmux = TRUE, !.meta = n1],
   [Plain EXCEPT !.serve = "own"], [Plain EXCEPT !.serve = "other"],
   [Plain EXCEPT !.defaultPort = FALSE]}

Symmetry ==
  Permutations(Requests) \cup Permutations(Launches) \cup Permutations(Callers)
=============================================================================
