------------------------ MODULE MCSessionLifecycle ------------------------
(* Model values for SessionLifecycle. *)
EXTENDS SessionLifecycle
=============================================================================
