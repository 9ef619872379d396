-------------------------- MODULE MCContainerLease --------------------------
(* Instances of ContainerLease for TLC. *)
EXTENDS ContainerLease, TLC

CONSTANTS q1, q2

Symmetric == Permutations(Request)
=============================================================================
