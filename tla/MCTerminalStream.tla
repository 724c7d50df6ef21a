-------------------------- MODULE MCTerminalStream --------------------------
(* Model values for TerminalStream: two sessions the operator moves between *)
EXTENDS TerminalStream
=============================================================================
