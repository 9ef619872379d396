-------------------------------- MODULE Code --------------------------------
(***************************************************************************)
(* One programmatic tool call.  The supervisor (executeCode, codeTool)     *)
(* hands code to its HarnessDO (containers/proxies.ts, programmaticRequest)*)
(* which runs it in an isolate of its own (programmatic.ts).  The code     *)
(* calls the turn's tools through a bridge: each call goes back to the     *)
(* supervisor, which performs it.  Code may return or throw with calls     *)
(* still open, and a newer start, a cancel, a stop or the deadline aborts  *)
(* it at any time.  What the model is told of the code must not hide that  *)
(* a tool may have been used without anybody seeing its result: then the   *)
(* turn fails as uncertain instead.                                        *)
(***************************************************************************)
EXTENDS Naturals, FiniteSets

CONSTANTS
    ToolCalls,  \* tool calls the code may make
    ClientCalls,\* those of client functions, which the supervisor counts
    MaxCalls,   \* the bridge's limit of calls (64 in the code)
    MaxActive   \* and of calls at a time (8 in the code)

ASSUME CodeAssumption == MaxCalls \in Nat /\ MaxActive \in Nat /\ ClientCalls \subseteq ToolCalls

VARIABLES
    assigned,   \* the assignment at the HarnessDO: "current", "revoked", "superseded"
    parentJob,        \* the supervisor's job: "running" or "failed" as uncertain
    invocation, \* the supervisor counts the invocation as live
    runner,     \* how far the HarnessDO is: idle, asked, running, decided, over
    program,    \* the code in its isolate, which nobody can end
    aborted,    \* the signal of the run
    toolCall,   \* each call, as the bridge sees it
    performed,  \* calls the supervisor performed
    doubt,      \* the bridge's #uncertain
    verdict,    \* runProgrammatic's outcome
    told        \* what the runtime is told: nothing, a result or an error

codeVars == <<assigned, parentJob, invocation, runner, program, aborted, toolCall, performed,
              doubt, verdict, told>>

CodeInit ==
    /\ assigned = "current" /\ parentJob = "running" /\ invocation = FALSE
    /\ runner = "idle" /\ program = "none" /\ aborted = FALSE
    /\ toolCall = [c \in ToolCalls |-> "none"]
    /\ performed = {} /\ doubt = FALSE /\ verdict = "none" /\ told = "none"

supervisorSide == <<parentJob, invocation, performed, told>>
bridgeSide == <<toolCall, doubt>>

-----------------------------------------------------------------------------
(* The supervisor: ToolJob.executeCode, codeTool                           *)

Execute ==
    /\ runner = "idle" /\ parentJob = "running"
    /\ invocation' = TRUE /\ runner' = "asked"
    /\ UNCHANGED <<assigned, parentJob, program, aborted, bridgeSide, performed, verdict, told>>

\* A tool of a live invocation is performed; it may have effects from here on.  The
\* request may arrive after the bridge has given its call up.
codeTool(c) ==
    /\ toolCall[c] \in {"sent", "broken"} /\ c \notin performed
    /\ invocation /\ parentJob = "running"
    /\ performed' = performed \cup {c}
    /\ UNCHANGED <<assigned, parentJob, invocation, runner, program, aborted, bridgeSide, verdict, told>>

\* Client calls that are still open at the supervisor when the answer arrives.
raised == {c \in performed \cap ClientCalls : toolCall[c] # "confirmed"}
codeLeftCallsOpen == verdict = "uncertain" \/ (verdict = "failed" /\ raised # {})

\* The answer: a terminal one, or an error that leaves calls open, fails the job; so
\* does a runner that could not be asked.
Returns ==
    /\ runner = "decided"
    /\ runner' = "over" /\ invocation' = FALSE
    /\ IF codeLeftCallsOpen
         THEN parentJob' = "failed" /\ UNCHANGED told
         ELSE told' = (IF verdict = "ok" THEN "result" ELSE "error") /\ UNCHANGED parentJob
    /\ UNCHANGED <<assigned, program, aborted, bridgeSide, performed, verdict>>

RunnerLost ==
    /\ runner \in {"asked", "running", "decided"}
    /\ runner' = "over" /\ invocation' = FALSE /\ parentJob' = "failed" /\ aborted' = TRUE
    /\ UNCHANGED <<assigned, program, bridgeSide, performed, verdict, told>>

-----------------------------------------------------------------------------
(* The HarnessDO: programmaticRequest, runProgrammatic                     *)

Current == assigned = "current"

\* The catalog is fetched and the isolate started.
BeginCode ==
    /\ runner = "asked" /\ Current /\ ~aborted
    /\ runner' = "running" /\ program' = "running"
    /\ UNCHANGED <<assigned, supervisorSide, aborted, bridgeSide, verdict>>

\* No catalog, a bad request, or aborted before the isolate runs: a plain failure.
BeginFails ==
    /\ runner = "asked" /\ Current
    /\ runner' = "decided" /\ verdict' = "failed" /\ aborted' = TRUE
    /\ UNCHANGED <<assigned, supervisorSide, program, bridgeSide>>

OpenCalls == {c \in ToolCalls : toolCall[c] \in {"sent", "answered"}}
Made == {c \in ToolCalls : toolCall[c] # "none"}

\* The run's signal closes the bridge, at its end too.
Bridged == ~aborted

\* ToolBridge.call: the code asks for a tool.  The assignment is read again; an
\* assignment that is gone leaves a doubt, an aborted or excessive call does not.
Call(c) ==
    /\ program = "running" /\ toolCall[c] = "none" /\ Bridged
    /\ Cardinality(Made) < MaxCalls /\ Cardinality(OpenCalls) < MaxActive
    /\ IF Current THEN toolCall' = [toolCall EXCEPT ![c] = "sent"] /\ UNCHANGED doubt
       ELSE toolCall' = [toolCall EXCEPT ![c] = "refused"] /\ doubt' = TRUE
    /\ UNCHANGED <<assigned, supervisorSide, runner, program, aborted, verdict>>

\* The supervisor's answer to a tool it performed is on its way.
Answers(c) ==
    /\ toolCall[c] = "sent" /\ c \in performed
    /\ toolCall' = [toolCall EXCEPT ![c] = "answered"]
    /\ UNCHANGED <<assigned, supervisorSide, runner, program, aborted, doubt, verdict>>

\* The call is confirmed to the code unless the run was aborted meanwhile.
Confirmed(c) ==
    /\ toolCall[c] = "answered"
    /\ toolCall' = [toolCall EXCEPT ![c] = IF aborted THEN "broken" ELSE "confirmed"]
    /\ doubt' = (doubt \/ aborted)
    /\ UNCHANGED <<assigned, supervisorSide, runner, program, aborted, verdict>>

\* The call fails: refused, lost, too large, or aborted.
Breaks(c) ==
    /\ toolCall[c] \in {"sent", "answered"}
    /\ toolCall' = [toolCall EXCEPT ![c] = "broken"]
    /\ doubt' = TRUE
    /\ UNCHANGED <<assigned, supervisorSide, runner, program, aborted, verdict>>

\* The code returns or throws, whether it awaited its calls or not.
ProgramEnds ==
    /\ program = "running"
    /\ program' \in {"returned", "thrown"}
    /\ UNCHANGED <<assigned, supervisorSide, runner, aborted, bridgeSide, verdict>>

\* The deadline, or a cancel of the turn.
Abort ==
    /\ runner \in {"asked", "running"} /\ ~aborted
    /\ aborted' = TRUE
    /\ UNCHANGED <<assigned, supervisorSide, runner, program, bridgeSide, verdict>>

\* A stop or a newer start aborts every run and takes the assignment away.
Unassign ==
    /\ assigned' \in {"revoked", "superseded"}
    /\ assigned = "current" \/ assigned' = "superseded"
    /\ assigned # assigned'
    /\ aborted' = (aborted \/ runner \in {"asked", "running"})
    /\ UNCHANGED <<supervisorSide, runner, program, bridgeSide, verdict>>

\* A doubt that forgets the calls that are open.
uncertainOnlyFailed == doubt

\* ToolBridge.uncertain
uncertain == doubt \/ OpenCalls # {}

\* runProgrammatic: the code or the abort, whichever the race sees.  assertSettled
\* refuses a result with open or failed calls; a result too large is a failure.
Verdicts ==
    IF uncertain THEN {"uncertain"}
    ELSE IF program = "returned" /\ OpenCalls = {} THEN {"ok", "failed"}
    ELSE {"failed"}

\* Uncertain code revokes the assignment unless another start took it.
Decide ==
    /\ runner = "running" /\ (program # "running" \/ aborted)
    /\ verdict' \in Verdicts
    /\ runner' = "decided" /\ aborted' = TRUE
    /\ assigned' = IF verdict' = "uncertain" /\ assigned = "current" THEN "revoked" ELSE assigned
    /\ UNCHANGED <<supervisorSide, program, bridgeSide>>

CodeNext ==
    \/ Execute \/ Returns \/ RunnerLost \/ BeginCode \/ BeginFails \/ ProgramEnds \/ Abort
    \/ Unassign \/ Decide
    \/ \E c \in ToolCalls : codeTool(c) \/ Call(c) \/ Answers(c) \/ Confirmed(c) \/ Breaks(c)

CodeSpec == CodeInit /\ [][CodeNext]_codeVars

-----------------------------------------------------------------------------
(* Properties                                                              *)

\* A runtime that is told a result or an error of its code goes on with its turn: no
\* tool was used then without its answer reaching the code, however the code, its
\* open calls, the abort and the answers overlapped.
NoHiddenEffects ==
    told # "none" => \A c \in performed : toolCall[c] = "confirmed"
=============================================================================
