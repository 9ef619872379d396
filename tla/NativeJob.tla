----------------------------- MODULE NativeJob -----------------------------
(***************************************************************************)
(* What a native job owns, from start to stop: the MCP clients of its      *)
(* execution (remote-tools.ts), the process of its runtime (process.ts)    *)
(* and the remote calls its model makes, under the Scope of job.ts that    *)
(* releases them in reverse.  Starting holds the transition permit, so a   *)
(* stop begins when the start ended.                                       *)
(*                                                                         *)
(* MCP servers are external: they refuse, answer pages of at most one tool *)
(* with any cursor, and answer, fail or never answer a call.  The runtime  *)
(* process may ignore SIGTERM.  Transports are those of the assigned       *)
(* bridge, and arguments match their schema.                               *)
(***************************************************************************)
EXTENDS JobLog, Naturals, Sequences, FiniteSets

CONSTANTS McpServers,  \* the servers of the execution
          McpTools,    \* the tools a server may list
          Cursors,     \* cursors a server may hand out
          McpCalls,    \* bound on the calls
          MaxTools     \* the limit of the catalog (1000 in the code)

ASSUME NativeJobAssumption == MaxTools \in Nat /\ IsFiniteSet(McpTools)

VARIABLES
    required,  \* servers without which the execution does not start
    stage,     \* how far the job's Scope is
    job,       \* the outcome of the job's log
    aborted,   \* the job's abort signal
    client,    \* each server's client
    seen,      \* cursors of the walk under way
    tools,     \* RemoteTools.tools; each entry keeps its place in its name
    process,   \* the native process
    named,     \* each call: the public name the model used, 0 before
    call,      \* and how it ended
    reports    \* the mcp events of each call in the log, by their success

scopeVars == <<required, stage, job, aborted, client, seen, tools, process, named, call, reports>>
catalog == <<required, client, seen, tools>>
calling == <<named, call, reports>>

NativeJobInit ==
    /\ required \in SUBSET McpServers
    /\ stage = "opening" /\ aborted = FALSE
    /\ job = [status |-> "running", cancelling |-> FALSE, closing |-> FALSE]
    /\ client = [s \in McpServers |-> "none"]
    /\ seen = {} /\ tools = {} /\ process = "none"
    /\ named = [c \in McpCalls |-> 0]
    /\ call = [c \in McpCalls |-> "none"]
    /\ reports = [c \in McpCalls |-> <<>>]

-----------------------------------------------------------------------------
(* RemoteTools.open: one server after the other                            *)

Idle == \A s \in McpServers : client[s] \in {"none", "connected", "closed"}

Connect(s) ==
    /\ stage = "opening" /\ Idle /\ client[s] = "none"
    /\ client' = [client EXCEPT ![s] = "connecting"]
    /\ seen' = {}
    /\ UNCHANGED <<required, stage, job, aborted, tools, process, calling>>

Connected(s) ==
    /\ client[s] = "connecting"
    /\ client' = [client EXCEPT ![s] = "listing"]
    /\ UNCHANGED <<required, stage, job, aborted, seen, tools, process, calling>>

\* A tool's name says how many were listed before it.
Entry(s, t) == [name |-> Cardinality(tools), server |-> s, tool |-> t]
Listed(s, t) == \E e \in tools : e.server = s /\ e.tool = t

\* One page: a tool or none, and the next cursor or none.  A tool listed twice, a full
\* catalog or a cursor that repeats fails the server.
Page(s, found, next) ==
    /\ client[s] = "listing" /\ Cardinality(found) <= 1 /\ Cardinality(next) <= 1
    /\ LET bad == \E t \in found : Listed(s, t) \/ Cardinality(tools) >= MaxTools
       IN  /\ tools' = IF bad THEN tools ELSE tools \cup {Entry(s, t) : t \in found}
           /\ client' = [client EXCEPT ![s] = IF bad \/ next \cap seen # {} THEN "closing"
                                              ELSE IF next = {} THEN "connected" ELSE @]
           /\ seen' = seen \cup next
    /\ UNCHANGED <<required, stage, job, aborted, process, calling>>

\* The server refuses, does not answer in time or breaks off: its client is closed.
Refuses(s) ==
    /\ client[s] \in {"connecting", "listing"}
    /\ client' = [client EXCEPT ![s] = "closing"]
    /\ UNCHANGED <<required, stage, job, aborted, seen, tools, process, calling>>

\* A withdrawal that leaves what was listed.
Kept(s) == tools
Without(s) == {e \in tools : e.server # s}

\* After the close its tools are withdrawn; a required server fails the start.
Withdraw(s) ==
    /\ client[s] = "closing" /\ stage = "opening"
    /\ client' = [client EXCEPT ![s] = "closed"]
    /\ tools' = Without(s)
    /\ stage' = IF s \in required THEN "failed" ELSE stage
    /\ job' = IF s \in required THEN fail(job) ELSE job
    /\ UNCHANGED <<required, aborted, seen, process, calling>>

-----------------------------------------------------------------------------
(* The native process                                                      *)

Spawn ==
    /\ stage = "opening" /\ process = "none"
    /\ \A s \in McpServers : client[s] \in {"connected", "closed"}
    /\ process' = "starting"
    /\ UNCHANGED <<stage, job, aborted, catalog, calling>>

Ready ==
    /\ stage = "opening" /\ process = "starting"
    /\ process' = "running" /\ stage' = "up"
    /\ UNCHANGED <<job, aborted, catalog, calling>>

\* Gone before it was ready, or not ready in time: awaitReady fails the start.
StartupFails ==
    /\ stage = "opening" /\ process = "starting"
    /\ process' \in {"gone", "running"}
    /\ stage' = "failed" /\ job' = fail(job)
    /\ UNCHANGED <<aborted, catalog, calling>>

\* The process ends while its turn is open; while it is stopped it may end at any time.
ProcessGone ==
    /\ process \in {"running", "terminated", "killed"}
    /\ process' = "gone"
    /\ job' = IF job.closing THEN job ELSE fail(job)
    /\ UNCHANGED <<stage, aborted, catalog, calling>>

-----------------------------------------------------------------------------
(* Remote calls                                                            *)

\* The model names a listed tool; perform refuses a closing job.
CallTool(c, name) ==
    /\ stage = "up" /\ ~job.closing /\ call[c] = "none"
    /\ \E e \in tools : e.name = name
    /\ named' = [named EXCEPT ![c] = name]
    /\ call' = [call EXCEPT ![c] = "waiting"]
    /\ UNCHANGED <<stage, job, aborted, catalog, process, reports>>

ServerOf(c) == (CHOOSE e \in tools : e.name = named[c]).server

\* reportMcp: an mcp event for every outcome; a settled log retains none.
succeeded(how) == IF how = "result" THEN "success" ELSE "failure"
Report(c, how) ==
    IF Sealed(job) THEN reports ELSE [reports EXCEPT ![c] = Append(@, succeeded(how))]

\* The tool's result, a failure of its own, or a call that was not answered.
CallEnds(c, how) ==
    /\ call[c] = "waiting" /\ ~aborted
    /\ how # "failed" => client[ServerOf(c)] = "connected"
    /\ call' = [call EXCEPT ![c] = how]
    /\ reports' = Report(c, how)
    /\ UNCHANGED <<stage, job, aborted, catalog, process, named>>

\* The job's abort ends the request.
CallAborted(c) ==
    /\ call[c] = "waiting" /\ aborted
    /\ call' = [call EXCEPT ![c] = "interrupted"]
    /\ reports' = Report(c, "interrupted")
    /\ UNCHANGED <<stage, job, aborted, catalog, process, named>>

-----------------------------------------------------------------------------
(* The end: Job.run, Job.stopped                                           *)

TurnDone ==
    /\ stage = "up" /\ process = "running"
    /\ job' = setStatus(job, "completed")
    /\ UNCHANGED <<stage, aborted, catalog, process, calling>>

\* A stop, after the start ended.  From here on completion is too late.
StopBegins ==
    /\ stage \in {"up", "failed"}
    /\ stage' = "interrupting" /\ job' = requestCancel(job)
    /\ UNCHANGED <<aborted, catalog, process, calling>>

\* The runtime was interrupted as far as it goes: the log is sealed.
SealLog ==
    /\ stage = "interrupting"
    /\ stage' = "sealed" /\ job' = close(job)
    /\ UNCHANGED <<aborted, catalog, process, calling>>

AbortJob ==
    /\ stage = "sealed"
    /\ aborted' = TRUE /\ stage' = "releasing"
    /\ UNCHANGED <<job, catalog, process, calling>>

\* terminate: SIGTERM, and SIGKILL when the grace is over.
Terminate ==
    /\ stage = "releasing"
    /\ \/ process = "running" /\ process' = "terminated"
       \/ process = "terminated" /\ process' = "killed"
    /\ UNCHANGED <<stage, job, aborted, catalog, calling>>

ProcessReleased == process \in {"none", "gone"}

\* The clients close once the process is gone, the last one first.
Release(s) ==
    /\ stage = "releasing" /\ ProcessReleased
    /\ client[s] = "connected"
    /\ client' = [client EXCEPT ![s] = "closed"]
    /\ UNCHANGED <<required, stage, job, aborted, seen, tools, process, calling>>

\* The fibers of the job, its calls among them, are interrupted last.
StopEnds ==
    /\ stage = "releasing" /\ ProcessReleased
    /\ \A s \in McpServers : client[s] # "connected"
    /\ stage' = "stopped"
    /\ call' = [c \in McpCalls |-> IF call[c] = "waiting" THEN "interrupted" ELSE call[c]]
    /\ UNCHANGED <<job, aborted, catalog, process, named, reports>>

NativeJobNext ==
    \/ \E s \in McpServers :
          \/ Connect(s) \/ Connected(s) \/ Refuses(s) \/ Withdraw(s) \/ Release(s)
          \/ \E found \in SUBSET McpTools, next \in SUBSET Cursors : Page(s, found, next)
    \/ Spawn \/ Ready \/ StartupFails \/ ProcessGone
    \/ \E c \in McpCalls :
          \/ \E name \in 0..MaxTools : CallTool(c, name)
          \/ \E how \in {"result", "toolError", "failed"} : CallEnds(c, how)
          \/ CallAborted(c)
    \/ TurnDone \/ StopBegins \/ SealLog \/ AbortJob \/ Terminate \/ StopEnds

-----------------------------------------------------------------------------
(* Properties                                                              *)

\* The model is offered only tools that can be called: each one's server is connected
\* and no two have one name, whatever servers failed while they listed theirs; and an
\* execution that runs has every server it requires.
OfferedIsServed ==
    stage = "up" =>
        /\ \A e \in tools : client[e.server] = "connected"
        /\ \A e, f \in tools : e.name = f.name => e = f
        /\ \A s \in required : client[s] = "connected"

\* A stopped job leaves nothing behind: no process, no connection, no call.
NothingOutlivesTheJob ==
    stage = "stopped" =>
        /\ process \in {"none", "gone"}
        /\ \A s \in McpServers : client[s] \in {"none", "closed"}
        /\ \A c \in McpCalls : call[c] # "waiting"

\* Every outcome of a call is reported once and as it was: what a call that ended before
\* the log was settled came to is in the transcript, and no call is there twice.
CallsReported ==
    \A c \in McpCalls :
        /\ call[c] \in {"none", "waiting"} => reports[c] = <<>>
        /\ reports[c] \in {<<>>, <<succeeded(call[c])>>}
        /\ call[c] \in {"result", "toolError", "failed"} /\ ~Sealed(job) => reports[c] # <<>>

\* The job's tools, calls and processes live and end with it.
JobContained == OfferedIsServed /\ NothingOutlivesTheJob /\ CallsReported
=============================================================================
