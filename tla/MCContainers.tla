---------------------------- MODULE MCContainers ----------------------------
(***************************************************************************)
(* A turn in its containers: the HarnessDO and its sandbox over the turns  *)
(* of a session, and what an agent starts besides its own turn: delegated  *)
(* children, commands in the sandbox and code in an isolate.  They share   *)
(* no state; a behaviour is of one of them, chosen by its initial state.   *)
(***************************************************************************)
EXTENDS Harness, Delegation, Commands, Code

CONSTANTS Parts, a1, a2

VARIABLE part

\* The second child says nothing: it matters by its records, not by its relay.  A child
\* whose events are relayed has no sibling: two children share limits, stops and the
\* settling of their parent, and no relay.
Alone == spawn[a2] = "none" \/ log[a1] = <<>>
MCMaxEvents == [a \in Agents |-> IF a = a1 THEN 1 ELSE 0]

workVars == <<delegationVars, commandVars, codeVars>>

ContainersInit ==
  /\ part \in Parts
  /\ Init /\ (part # "harness" => ~session.fork)
  /\ DelegationInit /\ CodeInit
  /\ CommandsInit /\ (part # "commands" => \A r \in Requests : kind[r] = "bash")

ContainersNext ==
  \/ part = "harness" /\ Next /\ UNCHANGED <<part, workVars>>
  \/ part = "delegation" /\ DelegationNext /\ Alone' /\ UNCHANGED <<part, vars, commandVars, codeVars>>
  \/ part = "commands" /\ CommandsNext /\ UNCHANGED <<part, vars, delegationVars, codeVars>>
  \/ part = "code" /\ CodeNext /\ UNCHANGED <<part, vars, delegationVars, commandVars>>

ContainersSpec == ContainersInit /\ [][ContainersNext]_<<part, vars, workVars>>
=============================================================================
