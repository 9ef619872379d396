----------------------------- MODULE MCAdapters -----------------------------
(***************************************************************************)
(* What stands between a turn and a model: the SDK-driven runtime adapters *)
(* (Claude, OpenCode), the job they run in (NativeJob), and the gateway    *)
(* they reach their model through, as one request with its candidates and  *)
(* its stream (ModelGateway) or a conversation of several (ModelWire).     *)
(* A behaviour is of one of them, chosen by its initial state.             *)
(***************************************************************************)
EXTENDS Claude, OpenCode, NativeJob, ModelGateway, ModelWire

CONSTANT Parts

VARIABLE part

MCShape == {<<"empty", "text">>, <<"text", "tool_use">>}

Function(name, schema) == Raw("function", name, schema)
\* "x" and "n__x" are also the names of a tool and of the member of a
\* namespace; "web_search" is a tool of the provider.
MCDeclarable == {Function(<<"x">>, 1), Function(<<"n", "x">>, 1), Raw("custom", <<"c">>, 0),
                 Raw("tool_search", SearchName, 1), Raw("web_search", <<"w">>, 0),
                 Namespace(<<"n">>, <<Function(<<"x">>, 1), Raw("custom", <<"c">>, 0)>>)}
\* A search finds a tool as it is, in another version, or a namespace.
MCFound == {Function(<<"x">>, 1), Function(<<"x">>, 2), Namespace(<<"n">>, <<Function(<<"x">>, 1)>>)}

jobVars == <<claudeVars, openCodeVars, scopeVars>>
JobInit == ClaudeInit /\ OpenCodeInit /\ NativeJobInit

NoJob ==
  /\ JobInit /\ cli.linked /\ required = {}
NoRequest ==
  /\ request = {} /\ upstream = [c \in 1..Models |-> "off"] /\ inference = {} /\ out = <<>>
  /\ handler = [at |-> "none"] /\ reader = [at |-> "none", body |-> "none", frames |-> <<>>]
NoDialog ==
  decoded = {} /\ spoken = {} /\ dialog = [turn |-> "none", open |-> {}]

Init ==
  /\ part \in Parts
  /\ \/ /\ part \in {"claude_code", "opencode", "job"} /\ NoRequest /\ NoDialog
        /\ JobInit
        /\ (part # "job" => required = {}) /\ (part # "claude_code" => cli.linked)
     \/ part = "gateway" /\ GatewayInit /\ NoJob /\ NoDialog
     \/ part = "wire" /\ WireInit /\ NoJob /\ NoRequest

Next ==
  \/ part = "claude_code" /\ ClaudeNext
       /\ UNCHANGED <<part, openCodeVars, scopeVars, gatewayVars, wireVars>>
  \/ part = "opencode" /\ OpenCodeNext
       /\ UNCHANGED <<part, claudeVars, scopeVars, gatewayVars, wireVars>>
  \/ part = "job" /\ NativeJobNext
       /\ UNCHANGED <<part, claudeVars, openCodeVars, gatewayVars, wireVars>>
  \/ part = "gateway" /\ GatewayNext /\ UNCHANGED <<part, jobVars, wireVars>>
  \/ part = "wire" /\ WireNext /\ UNCHANGED <<part, jobVars, gatewayVars>>

Spec == Init /\ [][Next]_<<part, jobVars, gatewayVars, wireVars>>

\* A steer an adapter accepted is worked on before its turn completes, also when it
\* crosses the end of the turn (claude-code.ts, opencode.ts).
SteersWorkedOn == SteerHeard /\ SteerWorkedOn

\* The transcript of a turn that completed is what the runtime did: every text once, under
\* its own id and in its scope, and every subagent as one.
TranscriptWhole == SubagentsAccounted /\ TextOnce /\ PartsSaidOnce
=============================================================================
