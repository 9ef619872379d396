----------------------------- MODULE Supervisor -----------------------------
(***************************************************************************)
(* packages/supervisor: the process in a harness container that owns one   *)
(* job at a time (server.ts), the job's lifecycle, event log and memoized  *)
(* control operations (job.ts, lifecycle.ts) and its delegated children    *)
(* (delegation.ts).  Jobs are modelled after ToolJob, the base of the      *)
(* SDK-driven runtimes.                                                    *)
(*                                                                         *)
(* Requests that change ownership or control the job run one at a time     *)
(* behind the lifecycle permit: request is the one that has it.  One that  *)
(* waits for the permit, prepares its command or is refused by the first   *)
(* check changes nothing and is not a step.  Inside a job, start, stop and *)
(* the effect of a command run behind the transition permit.  Native       *)
(* callbacks, child relays and polls need neither and run in between.      *)
(*                                                                         *)
(* The stop sequence is the finalizers of the job's scope:                 *)
(*                                                                         *)
(*   requestCancel, children asked to cancel | children terminated,        *)
(*   interruptTurn | log closed, abort, calls abandoned | teardown,        *)
(*   resources closed                                                      *)
(*                                                                         *)
(* where | is an await.  Whoever needs the job stopped (a cancel command,  *)
(* a checkpoint, the next start, a callback through the daemon fiber, a    *)
(* failed start) joins the same sequence.                                  *)
(*                                                                         *)
(* The native runtime and the HarnessDO behind the children are external.  *)
(* The runtime ends its turn only when no tool call of it is unanswered.   *)
(***************************************************************************)
EXTENDS JobLog, Naturals, Sequences, FiniteSets, SequencesExt

CONSTANTS MaxTurn,      \* turns are generations 1..MaxTurn of one session
          Call,         \* client function calls of the runtime
          Child,        \* delegated children
          ChildCall,    \* their client function calls, as pairs <<child, call>>
          Command,      \* control commands: [id, type, call]
          MaxLog,       \* EVENT_LOG_LIMIT, in events
          Page,         \* events per poll
          MaxConcurrentSubagents

ASSUME SupervisorAssumption ==
  /\ MaxTurn \in Nat /\ MaxLog \in Nat /\ Page \in Nat \ {0}
  /\ IsFiniteSet(Child) /\ Call \cap ChildCall = {} /\ \A c \in ChildCall : c[1] \in Child

VARIABLES slot,        \* the turn of the active job, 0 before the first
          job,         \* job[g]: the state of the job of turn g
          request,     \* the request that has the lifecycle permit
          transition,  \* who has the transition permit of each job
          told         \* the terminal pages polls have answered with

vars == <<slot, job, request, transition, told>>

Turn == 1..MaxTurn
Output == <<"output">>   \* any event but the opening and closing of a child

(***************************************************************************)
(* The event log of a job, which JobLog keeps with its outcome.            *)
(***************************************************************************)
\* emit, with the job's reaction: a log at its limit, or a job that failed
\* before, has the runtime stopped.
appended(j, events) ==
  IF Len(j.events) + Len(events) <= MaxLog THEN [j EXCEPT !.events = @ \o events]
  ELSE [fail(j) EXCEPT !.events = @ \o SubSeq(events, 1, MaxLog - Len(j.events)),
                       !.stopRequested = TRUE]
emitUnsealed(j, events) ==
  IF j.closing THEN j ELSE appended(j, events)
emit(j, events) ==
  IF j.closing \/ events = <<>> THEN j
  ELSE IF settled(j) THEN [j EXCEPT !.stopRequested = @ \/ j.status = "failed"]
  ELSE appended(j, events)

\* A page of the log; the outcome is told with the last page only.
page(j, after) ==
  LET next == IF after + Page < Len(j.events) THEN after + Page ELSE Len(j.events)
  IN [cursor |-> next,
      status |-> IF next < Len(j.events) THEN "running" ELSE j.status]

(***************************************************************************)
(* Delegated children.                                                     *)
(***************************************************************************)
InProgress(j) == {k \in Child : j.children[k] = "in_progress"}

Becomes(j, k, state) == [j EXCEPT !.children = [j.children EXCEPT ![k] = state]]
Ended(j, ended) ==
  [j EXCEPT !.children = [k \in Child |-> IF k \in ended THEN "ended" ELSE j.children[k]],
            !.pending = @ \ {c \in ChildCall : c[1] \in ended}]

\* The child's outcome is published in the step that settles it.
terminate(j, k) ==
  IF k \in InProgress(j) THEN emit(Ended(j, {k}), <<<<"closed", k>>>>) ELSE j

\* cancelAll: of the children it found in progress, those still so end together.
Orders(S) == {o \in [1..Cardinality(S) -> S] : \A k \in S : \E i \in DOMAIN o : o[i] = k}
cancelAll(j, order) ==
  emit(Ended(j, j.doomed \cap InProgress(j)),
       [i \in DOMAIN order |-> <<"closed", order[i]>>])

\* owns: the calls of children are kept with the child that raised them.
ChildPending(j) == j.pending \cap ChildCall
OwnPending(j) == j.pending \cap Call

(***************************************************************************)
(* Jobs and the stop sequence.                                             *)
(***************************************************************************)
NewJob ==
  [status |-> "running", cancelling |-> FALSE, closing |-> FALSE,
   events |-> <<>>,
   stopRequested |-> FALSE, aborted |-> FALSE,
   stage |-> "none",    \* none, starting, up, children, interrupt, teardown, stopped
   native |-> FALSE,    \* the runtime's processes may exist
   task |-> "running",  \* the native turn: running, settling, done
   raised |-> {},       \* calls raised so far; their ids are fresh
   pending |-> {},      \* calls waiting for a client result
   children |-> [k \in Child |-> "none"],
   doomed |-> {},       \* the children cancelAll found in progress
   operations |-> [id \in {m.id : m \in Command} |-> "none"],
   applied |-> [id \in {m.id : m \in Command} |-> 0],  \* history, up to 2
   saved |-> "none"]

\* stopped: the first caller starts the sequence, the others join it.
BeginStop(j) ==
  IF j.stage \in {"starting", "up"}
  THEN [requestCancel(j) EXCEPT !.stage = "children", !.doomed = InProgress(j)]
  ELSE j

Only(g, j) == job' = [job EXCEPT ![g] = j]

ChildrenCancelled(g) ==
  /\ job[g].stage = "children"
  /\ \E order \in Orders(job[g].doomed \cap InProgress(job[g])) :
       Only(g, [cancelAll(job[g], order) EXCEPT !.stage = "interrupt"])
  /\ UNCHANGED <<slot, request, transition, told>>

\* close, abort and abandon run together once the runtime was interrupted.
Interrupted(g) ==
  /\ job[g].stage = "interrupt"
  /\ Only(g, [close(job[g]) EXCEPT !.stage = "teardown", !.aborted = TRUE,
                                   !.pending = @ \ Call])
  /\ UNCHANGED <<slot, request, transition, told>>

TornDown(g) ==
  /\ job[g].stage = "teardown"
  /\ Only(g, [job[g] EXCEPT !.stage = "stopped", !.native = FALSE,
                            !.stopRequested = TRUE])
  /\ UNCHANGED <<slot, request, transition, told>>

\* The daemon start forked: stops the job on behalf of a callback.
DaemonStops(g) ==
  /\ job[g].stage = "up" /\ job[g].stopRequested /\ transition[g] = "free"
  /\ transition' = [transition EXCEPT ![g] = "daemon"]
  /\ Only(g, BeginStop(job[g]))
  /\ UNCHANGED <<slot, request, told>>
DaemonDone(g) ==
  /\ transition[g] = "daemon" /\ job[g].stage = "stopped"
  /\ transition' = [transition EXCEPT ![g] = "free"]
  /\ UNCHANGED <<slot, job, request, told>>

(***************************************************************************)
(* The routes that hold the lifecycle permit.  A request that needs the    *)
(* transition permit of the active job waits at "transition".              *)
(***************************************************************************)
Idle == [op |-> "none", turn |-> 0, command |-> "none", at |-> "idle"]
Unasked == request.op = "none"
At(op, at) == request.op = op /\ request.at = at
Goes(at) == request' = [request EXCEPT !.at = at]
Arrives(op, g, command, at) ==
  /\ Unasked
  /\ request' = [op |-> op, turn |-> g, command |-> command, at |-> at]

TakesTransition ==
  /\ request.at = "transition" /\ transition[slot] = "free"
  /\ transition' = [transition EXCEPT ![slot] = "request"]
ReturnsTransition == transition' = [transition EXCEPT ![slot] = "free"]

(* POST /jobs *)
\* admit: a repeated or older turn, or a start while a job runs, is answered
\* without effect.
Admits(g) == g > slot /\ (slot # 0 => settled(job[slot]))
StartArrives(g) ==
  /\ Admits(g)
  /\ Arrives("start", g, "none", IF slot = 0 THEN "admitted" ELSE "transition")
  /\ UNCHANGED <<slot, job, transition, told>>

\* admit returns once the previous job, if there is one, is stopped completely: the
\* new job gets the slot, returning the permit of the old one, and begins its start.
PreviousLeft == request.op = "start" /\ request.at \in {"admitted", "stopping"}
PreviousStopped ==
  \/ At("start", "admitted")
  \/ At("start", "stopping") /\ job[slot].stage = "stopped"
BeginStart ==
  LET g == request.turn IN
  /\ PreviousStopped
  /\ slot' = g
  /\ Only(g, [job[g] EXCEPT !.stage = "starting", !.native = TRUE])
  /\ transition' = [h \in Turn |->
       CASE h = g -> "request" [] h = slot -> "free" [] OTHER -> transition[h]]
  /\ Goes("starting")
  /\ UNCHANGED told
\* A stop asked for during the start is kept: the daemon waits for a deferred.
StartUp ==
  /\ At("start", "starting")
  /\ Only(slot, [job[slot] EXCEPT !.stage = "up"])
  /\ ReturnsTransition /\ request' = Idle
  /\ UNCHANGED <<slot, told>>
StartFails ==
  /\ At("start", "starting")
  /\ Only(slot, BeginStop(fail(job[slot])))
  /\ Goes("failing")
  /\ UNCHANGED <<slot, transition, told>>
StartFailed ==
  /\ At("start", "failing") /\ job[slot].stage = "stopped"
  /\ ReturnsTransition /\ request' = Idle
  /\ UNCHANGED <<slot, job, told>>

(* GET /jobs/:turn/checkpoint *)
CheckpointArrives ==
  /\ slot # 0 /\ job[slot].saved = "none" /\ job[slot].status = "completed"
  /\ Arrives("checkpoint", slot, "none", "transition")
  /\ UNCHANGED <<slot, job, transition, told>>

\* A start stops the previous job, a checkpoint its own.
StopBegins ==
  /\ request.op \in {"start", "checkpoint"} /\ TakesTransition
  /\ Only(slot, BeginStop(job[slot]))
  /\ Goes("stopping")
  /\ UNCHANGED <<slot, told>>

CaptureBegins ==
  /\ At("checkpoint", "stopping") /\ job[slot].stage = "stopped"
  /\ ReturnsTransition /\ Goes("capturing")
  /\ Only(slot, [job[slot] EXCEPT !.saved = "capturing"])
  /\ UNCHANGED <<slot, told>>
\* A failed capture may be asked for again, a successful one is kept.
CaptureEnds ==
  /\ At("checkpoint", "capturing")
  /\ \E result \in {"saved", "none"} :
       Only(slot, [job[slot] EXCEPT !.saved = result])
  /\ request' = Idle
  /\ UNCHANGED <<slot, transition, told>>

(* POST /jobs/:turn/control *)
\* Operations: whatever the outcome, an id is performed once.
MemoizedSuccess(j, m) == j.operations[m.id] \in {"underway", "ok", "rejected"}
Memoized(j, m) == j.operations[m.id] # "none"
Remembers(j, id, verdict) == [j EXCEPT !.operations = [j.operations EXCEPT ![id] = verdict]]
ControlArrives(m) ==
  /\ slot # 0 /\ ~Memoized(job[slot], m)
  /\ Arrives("control", slot, m, "transition")
  /\ Only(slot, Remembers(job[slot], m.id, "underway"))
  /\ UNCHANGED <<slot, transition, told>>

Command_(type) == request.op = "control" /\ request.command.type = type
Verdict(j, verdict) == Remembers(j, request.command.id, verdict)
Reached(j) ==
  LET id == request.command.id
  IN [j EXCEPT !.applied = [j.applied EXCEPT ![id] = IF @ < 2 THEN @ + 1 ELSE @]]
\* The command's answer, in the step that takes or that returns the permit.
Refused ==
  /\ request.at = "transition" /\ transition[slot] = "free"
  /\ Only(slot, Verdict(job[slot], "rejected"))
  /\ request' = Idle
  /\ UNCHANGED <<slot, transition, told>>
Ends(j) ==
  /\ Only(slot, j)
  /\ ReturnsTransition /\ request' = Idle
  /\ UNCHANGED <<slot, told>>

Steerable(j) == ~j.closing /\ ~settled(j)
SteerRefused == Command_("steer") /\ ~Steerable(job[slot]) /\ Refused
SteerBegins ==
  /\ Command_("steer") /\ Steerable(job[slot])
  /\ TakesTransition /\ Goes("applying")
  /\ UNCHANGED <<slot, job, told>>
\* The runtime took the input, refused it, or failed with or without it.
SteerEnds ==
  /\ Command_("steer") /\ request.at = "applying"
  /\ \/ Ends(Verdict(Reached(job[slot]), "ok"))
     \/ Ends(Verdict(job[slot], "rejected"))
     \/ Ends(Verdict(Reached(job[slot]), "failed"))
     \/ Ends(Verdict(job[slot], "failed"))

\* cancel joins the stop under the permit this command already has.
CancelBeginsTwice ==
  /\ Command_("cancel") /\ TakesTransition
  /\ Only(slot, BeginStop(job[slot]))
  /\ UNCHANGED <<slot, request, told>>
CancelBegins ==
  /\ Command_("cancel") /\ TakesTransition
  /\ Only(slot, BeginStop(job[slot]))
  /\ Goes("applying")
  /\ UNCHANGED <<slot, told>>
CancelEnds ==
  /\ Command_("cancel") /\ request.at = "applying" /\ job[slot].stage = "stopped"
  /\ Ends(Verdict(job[slot], "ok"))

\* A result for a call of this job's own runtime.
TakesResult(j, c) == ~j.closing /\ j.status = "waiting" /\ c \in OwnPending(j)
answered(j, c) ==
  setStatus([j EXCEPT !.pending = @ \ {c}],
            IF OwnPending(j) \ {c} # {} THEN "waiting" ELSE "running")
ResultTaken ==
  LET c == request.command.call IN
  /\ Command_("tool_result") /\ request.at = "transition" /\ transition[slot] = "free"
  /\ TakesResult(job[slot], c)
  /\ Only(slot, Verdict(Reached(answered(job[slot], c)), "ok"))
  /\ request' = Idle
  /\ UNCHANGED <<slot, transition, told>>
ResultRefused ==
  LET c == request.command.call IN
  /\ Command_("tool_result")
  /\ IF c \in ChildPending(job[slot]) THEN job[slot].closing
     ELSE ~TakesResult(job[slot], c)
  /\ Refused

\* A result for a call of a delegated child.
RouteBegins ==
  /\ Command_("tool_result")
  /\ request.command.call \in ChildPending(job[slot]) /\ ~job[slot].closing
  /\ TakesTransition /\ Goes("applying")
  /\ UNCHANGED <<slot, job, told>>
Unpended(j) == [j EXCEPT !.pending = @ \ {request.command.call}]
RouteEnds ==
  /\ Command_("tool_result") /\ request.at = "applying"
  /\ \/ Ends(Verdict(Reached(Unpended(job[slot])), "ok"))
     \/ Ends(Verdict(Unpended(job[slot]), "rejected"))
     \/ Ends(Verdict(Reached(job[slot]), "failed"))
     \/ Ends(Verdict(job[slot], "failed"))

(* GET /jobs/:turn, without the permit.  Only terminal pages are remembered. *)
Poll(after) ==
  /\ slot # 0 /\ after <= Len(job[slot].events)
  /\ page(job[slot], after).status \in Terminal
  /\ told' = [told EXCEPT ![slot] = @ \cup {page(job[slot], after)}]
  /\ UNCHANGED <<slot, job, request, transition>>

(***************************************************************************)
(* Callbacks of the native runtime, until its processes are gone.          *)
(***************************************************************************)
Callback(g, j) ==
  /\ job[g].native /\ Only(g, j)
  /\ UNCHANGED <<slot, request, transition, told>>

Emit(g) == Callback(g, emit(job[g], <<Output>>))

Raised(j, c) == [j EXCEPT !.raised = @ \cup {c}, !.pending = @ \cup {c}]
\* externalTool
RaiseCall(g, c) ==
  /\ job[g].task = "running" /\ c \in Call \ job[g].raised
  /\ ~job[g].closing /\ ~job[g].aborted
  /\ Callback(g, setStatus(emit(Raised(job[g], c), <<Output>>), "waiting"))

\* The native turn ends; run waits for the children before it completes.
TaskEnds(g) ==
  /\ job[g].task = "running" /\ OwnPending(job[g]) = {}
  /\ \A k \in Child : job[g].children[k] # "asked"
  /\ Callback(g, [job[g] EXCEPT !.task = "settling"])
TaskSettles(g) ==
  /\ job[g].task = "settling" /\ InProgress(job[g]) = {}
  /\ Callback(g, [setStatus(job[g], "completed") EXCEPT !.task = "done"])
TaskFails(g) ==
  /\ job[g].task = "running"
  /\ Callback(g, [fail(job[g]) EXCEPT !.task = "done"])

\* executeCode failed, or left calls open: late effects cannot be contained.
CodeUncertain(g) ==
  /\ job[g].task = "running"
  /\ Callback(g, [fail(job[g]) EXCEPT !.aborted = TRUE, !.stopRequested = TRUE])

(* Delegation *)
SpawnAsked(g, k) ==
  /\ job[g].task = "running" /\ job[g].children[k] = "none" /\ ~job[g].closing
  /\ Cardinality(InProgress(job[g])) < MaxConcurrentSubagents
  /\ Callback(g, Becomes(job[g], k, "asked"))
SpawnAnswered(g, k) ==
  /\ job[g].children[k] = "asked" /\ ~job[g].aborted
  /\ Callback(g, emit(Becomes(job[g], k, "in_progress"), <<<<"opened", k>>>>))
SpawnRefused(g, k) ==
  /\ job[g].children[k] = "asked"
  /\ Callback(g, emit(Becomes(job[g], k, "refused"), <<Output>>))

\* relay: a function call of the child, which waits although the job runs.
RelayCall(g, k, c) ==
  /\ k \in InProgress(job[g]) /\ ~job[g].aborted
  /\ c \in ChildCall \ job[g].raised /\ c[1] = k
  /\ Callback(g, emit(Raised(job[g], c), <<Output>>))
\* The child ended, was lost, or its relay failed.
ChildEnds(g, k) ==
  /\ k \in InProgress(job[g])
  /\ Callback(g, terminate(job[g], k))
ChildUncertain(g, k) ==
  /\ k \in InProgress(job[g]) /\ ~job[g].aborted
  /\ Callback(g, [fail(terminate(job[g], k)) EXCEPT !.stopRequested = TRUE])

Init ==
  /\ slot = 0 /\ job = [g \in Turn |-> NewJob] /\ request = Idle
  /\ transition = [g \in Turn |-> "free"] /\ told = [g \in Turn |-> {}]

Stop(g) == ChildrenCancelled(g) \/ Interrupted(g) \/ TornDown(g) \/ DaemonDone(g)
Request ==
  \/ BeginStart \/ StartUp \/ StartFails \/ StartFailed
  \/ CaptureBegins \/ CaptureEnds \/ SteerEnds \/ CancelEnds \/ RouteEnds
Permit ==
  \/ StopBegins \/ SteerRefused \/ SteerBegins \/ CancelBegins
  \/ ResultTaken \/ ResultRefused \/ RouteBegins
Native(g) ==
  \/ Emit(g) \/ TaskEnds(g) \/ TaskSettles(g) \/ TaskFails(g) \/ CodeUncertain(g)
  \/ \E c \in Call : RaiseCall(g, c)
  \/ \E k \in Child :
       \/ SpawnAsked(g, k) \/ SpawnAnswered(g, k) \/ SpawnRefused(g, k)
       \/ ChildEnds(g, k) \/ ChildUncertain(g, k)
       \/ \E c \in ChildCall : RelayCall(g, k, c)

Next ==
  \/ \E g \in Turn : StartArrives(g) \/ Stop(g) \/ DaemonStops(g) \/ Native(g)
  \/ CheckpointArrives \/ \E m \in Command : ControlArrives(m)
  \/ Request \/ Permit
  \/ \E after \in 0..MaxLog : Poll(after)

\* Every await of a request and of the stop sequence is bounded; the
\* transition permit is granted in the order it was asked for.
Fairness ==
  /\ WF_vars(Request) /\ SF_vars(Permit)
  /\ \A g \in Turn : WF_vars(Stop(g)) /\ SF_vars(DaemonStops(g))

Spec == Init /\ [][Next]_vars /\ Fairness

(***************************************************************************)
(* What the supervisor promises.                                           *)
(***************************************************************************)
\* Once a poll has told the outcome, nothing changes it and nothing is logged
\* after it: the reader has the whole log.  JobLog's terminal outcomes absorb
\* late native events, child relays, cancellations and the stop.
PolledOutcomeFinal ==
  \A g \in Turn : \A p \in told[g] :
    p = [cursor |-> Len(job[g].events), status |-> job[g].status]

\* A command reaches the runtime or the child at most once, also when its
\* first try failed without saying whether it arrived.
AppliedOnce ==
  \A g \in Turn, m \in Command : job[g].applied[m.id] <= 1

\* The processes of two turns never exist together: a start waits until the
\* stop of the previous job has finished, whoever began it.
OneNativeRuntime ==
  \A g, h \in Turn : job[g].native /\ job[h].native => g = h

\* The home is captured only after a completed turn, with the runtime's
\* processes gone and all commands ended.
CheckpointQuiescent ==
  \A g \in Turn : job[g].saved # "none" =>
    job[g].status = "completed" /\ ~job[g].native /\ job[g].stage = "stopped"

\* A completed job's log closes every child it opened.
CompletedClosesChildren ==
  \A g \in Turn, k \in Child :
    job[g].status = "completed" /\ Contains(job[g].events, <<"opened", k>>)
      => Contains(job[g].events, <<"closed", k>>)

\* While a turn is neither ended nor being cancelled, the status it reports
\* says whether the runtime waits for a client's result.
WaitingIffPending ==
  \A g \in Turn : ~settled(job[g]) /\ ~job[g].cancelling =>
    (job[g].status = "waiting" <=> OwnPending(job[g]) # {})

\* A turn whose cancellation began before its end is never reported completed,
\* though its native task may still finish.
CancelledNeverCompletes ==
  \A g \in Turn : job[g].cancelling => job[g].status # "completed"

\* A turn's outcome is what happened: final once told, never "completed" over open
\* children or after a cancellation, "waiting" while and only while a result is owed.
OutcomeTruthful ==
  PolledOutcomeFinal /\ CompletedClosesChildren /\ WaitingIffPending /\ CancelledNeverCompletes

\* The runtime is alone in its container, with the next turn and with the capture.
RuntimeAlone == OneNativeRuntime /\ CheckpointQuiescent

\* Every request is answered, whatever it has to wait for: no cycle between
\* the two permits, the daemon and the stop sequence.
RequestsEnd == ~Unasked ~> Unasked

\* A callback that asks for a stop gets it.
StopRequestsHonoured ==
  \A g \in Turn : job[g].stopRequested ~> job[g].stage = "stopped"

\* Nobody waits forever, neither a request nor a callback that needs the job stopped.
WaitsEnd == RequestsEnd /\ StopRequestsHonoured
=============================================================================
