------------------------------ MODULE MCStreams ------------------------------
(***************************************************************************)
(* Who waits is woken: the event streams of a session, and the calls that  *)
(* wait for the token of a tenant's vault.  A behaviour is of one of them, *)
(* chosen by its initial state.                                            *)
(***************************************************************************)
EXTENDS EventStream, Vault

VARIABLE part

StreamsInit ==
  /\ part \in {"streams", "vault"} /\ Init /\ VaultInit
  /\ (part = "vault" => ~session.execution)

StreamsNext ==
  \/ part = "streams" /\ Next /\ UNCHANGED <<part, vaultVars>>
  \/ part = "vault" /\ VaultNext /\ UNCHANGED <<part, vars>>

\* The fairness of the part that does not move holds: none of its actions is enabled.
StreamsSpec ==
  /\ StreamsInit /\ [][StreamsNext]_<<part, vars, vaultVars>>
  /\ Fairness /\ VaultFairness
=============================================================================
