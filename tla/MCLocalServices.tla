-------------------------- MODULE MCLocalServices --------------------------
(* Model checking of the services of the local server.                     *)
EXTENDS LocalServices

CONSTANTS c1, c2, w1, w2, p1, p2, b1, b2, i1, yes, q1, q2
=============================================================================
