------------------------------ MODULE Commands ------------------------------
(***************************************************************************)
(* A workspace tool call, from the harness container's request to the      *)
(* processes of the sandbox.  The HarnessDO (containers/proxies.ts,        *)
(* sandboxRequest) runs it under its workspace permit and follows the      *)
(* lines the SandboxDO streams back (containers/sandbox.ts, workspaceTool);*)
(* the SandboxDO boots its container and runs the command as one process   *)
(* group (containers/exec.ts, run).  Whoever cancels the request aborts a  *)
(* signal on each side; each await is a place where the abort may fall.    *)
(*                                                                         *)
(* Stopping the turn takes the same permit, revokes the assignment and     *)
(* ends the sandbox's container; the next turn starts a new one.  Output   *)
(* is abstracted to whether it exceeds the limit.                          *)
(***************************************************************************)
EXTENDS Naturals, FiniteSets

CONSTANT Requests       \* tool calls of one turn's harness container

\* The permit can tell a request from nobody.
ASSUME CommandsAssumption == "free" \notin Requests

VARIABLES
    kind,       \* the tool of each request: bash, one file command, or edit's two
    turnState,  \* the assignment: "current", "revoked" or "superseded"
    permit,     \* who holds the workspace permit: nobody, a request or the stop
    request,    \* what the harness container sees of its request
    op,         \* how far the HarnessDO's operation is
    command,    \* how far the SandboxDO's workspaceTool is
    halted,     \* requests whose controller in the SandboxDO is aborted
    listening,  \* requests whose abort reaches exec.run's onAbort
    group,      \* the process group of each command
    killing,    \* kills on their way to a group
    output,     \* what the command wrote: within the limit or past it
    ending,     \* why the group of a command ended
    line        \* the last line of the SandboxDO's stream

commandVars == <<kind, turnState, permit, request, op, command, halted, listening, group, killing,
                 output, ending, line>>

CommandsInit ==
    /\ kind \in [Requests -> {"bash", "file", "edit"}]
    /\ turnState = "current" /\ permit = "free"
    /\ request = [r \in Requests |-> "none"]
    /\ op = [r \in Requests |-> "none"]
    /\ command = [r \in Requests |-> "none"]
    /\ halted = {} /\ listening = {} /\ killing = {}
    /\ group = [r \in Requests |-> "none"]
    /\ output = [r \in Requests |-> "within"]
    /\ ending = [r \in Requests |-> "none"]
    /\ line = [r \in Requests |-> "none"]

harnessSide == <<kind, turnState, permit, request, op>>
processSide == <<group, killing, output, ending>>
sandboxSide == <<command, halted, listening, line>>

-----------------------------------------------------------------------------
(* The HarnessDO: sandboxRequest                                           *)

\* The assignment is read when the request arrives: a revoked one is refused.
Receive(r) ==
    /\ request[r] = "none" /\ turnState # "superseded"
    /\ IF turnState = "current"
         THEN /\ request' = [request EXCEPT ![r] = "open"]
              /\ op' = [op EXCEPT ![r] = "queued"]
         ELSE /\ request' = [request EXCEPT ![r] = "failed"]
              /\ UNCHANGED op
    /\ UNCHANGED <<kind, turnState, permit, sandboxSide, processSide>>

\* An operation that trusts the first read.
ReadOnce == TRUE

\* Read again under the permit, right before the tool runs.
StillCurrent == turnState = "current"

Fail(r) ==
    /\ request' = [request EXCEPT ![r] = IF @ = "open" THEN "failed" ELSE @]
    /\ op' = [op EXCEPT ![r] = "over"]

\* The permit is granted and the SandboxDO is called.
Operate(r) ==
    /\ op[r] = "queued" /\ permit = "free"
    /\ IF StillCurrent
         THEN /\ op' = [op EXCEPT ![r] = "calling"] /\ permit' = r
              /\ command' = [command EXCEPT ![r] = "asked"]
              /\ UNCHANGED request
         ELSE /\ Fail(r)
              /\ UNCHANGED <<command, permit>>
    /\ UNCHANGED <<kind, turnState, halted, listening, line, processSide>>

\* The call answers with its stream.  The abort listener is added now: an operation
\* that was interrupted before reads on, with nobody to tell.
Follow(r) ==
    /\ op[r] \in {"calling", "abandoned"} /\ command[r] # "asked"
    /\ op' = [op EXCEPT ![r] = IF @ = "calling" THEN "reading" ELSE "deaf"]
    /\ UNCHANGED <<kind, turnState, permit, request, sandboxSide, processSide>>

Released(r) == permit' = IF permit = r THEN "free" ELSE permit

\* readToolLines returns the result, or fails on an error line or a broken stream.
Answer(r) ==
    /\ op[r] \in {"reading", "deaf"} /\ line[r] # "none"
    /\ request' = [request EXCEPT ![r] = IF @ # "open" THEN @
                                         ELSE IF line[r] = "result" THEN "result" ELSE "failed"]
    /\ op' = [op EXCEPT ![r] = "over"]
    /\ Released(r)
    /\ UNCHANGED <<kind, turnState, sandboxSide, processSide>>

\* The harness drops its request: the fiber is interrupted and gives the permit back
\* at once, and the abort cancels the stream if the listener is there.
Cancel(r) ==
    /\ request[r] = "open"
    /\ request' = [request EXCEPT ![r] = "cancelled"]
    /\ Released(r)
    /\ CASE op[r] = "queued" -> op' = [op EXCEPT ![r] = "over"] /\ UNCHANGED halted
         [] op[r] = "calling" -> op' = [op EXCEPT ![r] = "abandoned"] /\ UNCHANGED halted
         [] op[r] = "reading" -> op' = [op EXCEPT ![r] = "over"] /\ halted' = halted \cup {r}
    /\ killing' = IF op[r] = "reading" /\ r \in listening /\ group[r] = "running"
                  THEN killing \cup {r} ELSE killing
    /\ UNCHANGED <<kind, turnState, command, listening, line, group, output, ending>>

\* stopAttempt: under the permit the assignment is revoked and the container ends,
\* with the commands that run in it and those being started.
HarnessStops ==
    /\ turnState = "current" /\ permit = "free"
    /\ turnState' = "revoked"
    /\ group' = [r \in Requests |-> IF group[r] = "running" THEN "gone" ELSE group[r]]
    /\ ending' = [r \in Requests |-> IF group[r] = "running" THEN "lost" ELSE ending[r]]
    /\ command' = [r \in Requests |-> IF command[r] = "execing" THEN "over" ELSE command[r]]
    /\ line' = [r \in Requests |-> IF command[r] = "execing" /\ r \notin halted THEN "error"
                                   ELSE line[r]]
    /\ UNCHANGED <<kind, permit, request, op, halted, listening, killing, output>>

Supersede ==
    /\ turnState = "revoked"
    /\ turnState' = "superseded"
    /\ UNCHANGED <<kind, permit, request, op, sandboxSide, processSide>>

-----------------------------------------------------------------------------
(* The SandboxDO: workspaceTool, use, exec.run                             *)

\* The stream is returned at once; the container is acquired and prepared behind it.
BeginTool(r) ==
    /\ command[r] = "asked"
    /\ command' = [command EXCEPT ![r] = "booting"]
    /\ UNCHANGED <<harnessSide, halted, listening, line, processSide>>

\* A line after the abort has nowhere to go.
Says(r, l) == line' = [line EXCEPT ![r] = IF r \in halted THEN @ ELSE l]

\* The container does not start or is not prepared, or run finds the signal aborted
\* before it starts anything; otherwise the process is asked for.  Only bash is given
\* the signal.
StartCommand(r) ==
    /\ command[r] = "booting"
    /\ \/ /\ command' = [command EXCEPT ![r] = "over"]
          /\ Says(r, "error")
       \/ /\ kind[r] = "bash" => r \notin halted
          /\ command' = [command EXCEPT ![r] = "execing"]
          /\ UNCHANGED line
    /\ UNCHANGED <<harnessSide, halted, listening, processSide>>

\* exec answers with the process: only now does the abort have a listener.
Exec(r) ==
    /\ command[r] = "execing"
    /\ command' = [command EXCEPT ![r] = "running"]
    /\ group' = [group EXCEPT ![r] = "running"]
    /\ listening' = IF kind[r] = "bash" THEN listening \cup {r} ELSE listening
    /\ UNCHANGED <<harnessSide, halted, line, killing, output, ending>>

\* The command writes past maxBytes: the rest is not read and the group is stopped.
Overflow(r) ==
    /\ command[r] = "running" /\ group[r] = "running" /\ output[r] = "within"
    /\ output' = [output EXCEPT ![r] = "truncated"]
    /\ killing' = killing \cup {r}
    /\ UNCHANGED <<harnessSide, sandboxSide, group, ending>>

\* The group ends: by itself, by its timeout, by a kill, or with the container.
GroupEnds(r) ==
    /\ group[r] = "running"
    /\ group' = [group EXCEPT ![r] = "gone"]
    /\ \/ ending' = [ending EXCEPT ![r] = "exit"] /\ UNCHANGED killing
       \/ ending' = [ending EXCEPT ![r] = "timeout"] /\ UNCHANGED killing
       \/ ending' = [ending EXCEPT ![r] = "lost"] /\ UNCHANGED killing
       \/ r \in killing /\ ending' = [ending EXCEPT ![r] = "killed"] /\ killing' = killing \ {r}
    /\ UNCHANGED <<harnessSide, sandboxSide, output>>

\* What run and executeWorkspaceTool make of a group that ended.
Result(r) ==
    IF \/ ending[r] \in {"lost", "timeout"}
       \/ kind[r] = "bash" /\ r \in halted
       \/ output[r] = "truncated"
    THEN "error" ELSE "result"

\* The first command of an edit reads the file; the second writes it.
EditGoesOn(r) ==
    /\ command[r] = "running" /\ group[r] = "gone"
    /\ kind[r] = "edit" /\ Result(r) = "result"
    /\ kind' = [kind EXCEPT ![r] = "file"]
    /\ command' = [command EXCEPT ![r] = "execing"]
    /\ group' = [group EXCEPT ![r] = "none"]
    /\ ending' = [ending EXCEPT ![r] = "none"]
    /\ UNCHANGED <<turnState, permit, request, op, halted, listening, line, killing, output>>

\* run returns or throws once the group ended and its output is read.
RunReturns(r) ==
    /\ command[r] = "running" /\ group[r] = "gone"
    /\ kind[r] = "edit" => Result(r) = "error"
    /\ command' = [command EXCEPT ![r] = "over"]
    /\ listening' = listening \ {r}
    /\ Says(r, Result(r))
    /\ UNCHANGED <<harnessSide, halted, processSide>>

\* Reading the output fails while the group runs: run throws after it stopped the group.
Break(r) ==
    /\ command[r] = "running" /\ group[r] = "running"
    /\ command' = [command EXCEPT ![r] = "over"]
    /\ listening' = listening \ {r}
    /\ group' = [group EXCEPT ![r] = "gone"]
    /\ ending' = [ending EXCEPT ![r] = "killed"]
    /\ killing' = killing \ {r}
    /\ Says(r, "error")
    /\ UNCHANGED <<harnessSide, halted, output>>

CommandsNext ==
    \E r \in Requests :
        \/ Receive(r) \/ Operate(r) \/ Follow(r) \/ Answer(r) \/ Cancel(r)
        \/ BeginTool(r) \/ StartCommand(r) \/ Exec(r) \/ Overflow(r) \/ GroupEnds(r)
        \/ EditGoesOn(r) \/ RunReturns(r) \/ Break(r)
        \/ HarnessStops \/ Supersede

CommandsSpec == CommandsInit /\ [][CommandsNext]_commandVars

-----------------------------------------------------------------------------
(* Properties                                                              *)

\* Unless its caller dropped it, a command runs only in its own turn: no process of
\* a request that waited for the permit starts after the turn was stopped, or in the
\* sandbox of the next one.
CommandsKeepToTheirTurn ==
    \A r \in Requests :
        group[r] = "running" /\ turnState # "current" => request[r] = "cancelled"

\* A command the SandboxDO is done with runs no more, whatever ended the call.
EndedCommandsAreGone ==
    \A r \in Requests : command[r] = "over" => group[r] # "running"

\* A request is answered with a result only if its command ended by itself and all of
\* its output was read: never for one cut short by its limit, its timeout or a kill.
ResultsAreWhole ==
    \A r \in Requests :
        request[r] = "result" => ending[r] = "exit" /\ output[r] = "within"

\* A command and its result belong to one request of one turn: it runs then only, is gone
\* when its call is over, and is answered for only by all it said.
CommandsContained == CommandsKeepToTheirTurn /\ EndedCommandsAreGone /\ ResultsAreWhole
=============================================================================
