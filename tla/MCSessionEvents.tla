-------------------------- MODULE MCSessionEvents --------------------------
(* Instances of SessionEvents for TLC. *)
EXTENDS SessionEvents
=============================================================================
