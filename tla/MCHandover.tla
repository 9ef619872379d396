----------------------------- MODULE MCHandover -----------------------------
(***************************************************************************)
(* Waits inside the harness container: the supervisor handing its only     *)
(* runtime from one turn to the next, and a turn of the Codex runtime.     *)
(* A behaviour is of one of them, chosen by its initial state.             *)
(***************************************************************************)
EXTENDS MCSupervisor, Codex

VARIABLE part

HandoverInit == part \in {"supervisor", "codex"} /\ Init /\ CodexInit

HandoverNext ==
  \/ part = "supervisor" /\ Next /\ UNCHANGED <<part, codexVars>>
  \/ part = "codex" /\ CodexNext /\ UNCHANGED <<part, vars>>

\* The fairness of the part that does not move holds: none of its actions is enabled.
HandoverSpec ==
  HandoverInit /\ [][HandoverNext]_<<part, vars, codexVars>> /\ Fairness /\ CodexFairness
=============================================================================
