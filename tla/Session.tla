------------------------------- MODULE Session -------------------------------
(***************************************************************************)
(* One SessionDO: the durable session record, its turns and its queues     *)
(* (session-state.ts), the entrypoints that change them (session.ts) and   *)
(* the reconciler that an alarm runs against the turn's runtime            *)
(* (session-reconcile.ts).                                                 *)
(*                                                                         *)
(* The durable store is one record, db.  Every function of session-state.ts *)
(* that runs inside a transaction is an operator from a store to a store,  *)
(* and an action applies one of them atomically (transactionSync).  The    *)
(* reconciler is a program counter, tick.pc, that moves between two awaits: *)
(* client calls, runtime progress, the deadline and an eviction of the     *)
(* object interleave wherever the code awaits a driver call.               *)
(*                                                                         *)
(* The runtime behind the driver is external: job[g] is what a driver has  *)
(* promised of the job of turn g, and every driver call may be answered,   *)
(* fail before it took effect, or take effect and lose its answer.         *)
(*                                                                         *)
(* Abstractions: a turn id is the generation that began it; a message is an *)
(* element of Input and is its own operation id; native output is one      *)
(* opaque event, a client function call is the element of Call it names;   *)
(* records of the previous schema (migrate, legacy cancel commands) and    *)
(* subagent turns are left out.                                            *)
(***************************************************************************)
EXTENDS Integers, Sequences, FiniteSets

CONSTANTS
  Input,        \* client messages
  Call,         \* ids of client function calls the runtime may make
  Request,      \* the requests clients may submit: [key, events]
  MaxTurn,      \* bound on generations
  MaxLog,       \* bound on the events one job emits
  MaxEviction,  \* bound on evictions and redeployments
  Page,         \* records one tx.store.list returns (100, fewer when large)
  Deployment,   \* registrations of the session's driver a deploy may leave
  Steerable,    \* driver.capabilities.steer
  EnvReport     \* environment statuses the environment driver may report

VARIABLES
  db,        \* the durable store of the object
  alarm,     \* the platform holds an alarm for the object
  late,      \* now >= execution.deadline
  deployed,  \* registration of the session's driver in this deployment
  tick,      \* the reconciler's program counter and locals; lost on eviction
  job,       \* external: the job each turn has at the runtime
  evictions  \* evictions and redeployments so far

vars == <<db, alarm, late, deployed, tick, job, evictions>>

Turn == 1..MaxTurn
Output == "output"
Event == {Output} \cup Call

Terminal == {"completed", "cancelled", "failed"}
TurnStatus == {"none", "queued", "in_progress", "waiting"} \cup Terminal
ActivePhase == {"starting", "running", "checkpointing"}
Phase == {"idle", "failed"} \cup ActivePhase
EnvStatus == {"pending", "connected", "disconnected", "failed"}

\* Turn errors.  Of the codes the reconciler uses only outcome_unknown is
\* indeterminate: nobody can confirm what the runtime did.
Error == {"none", "outcome_unknown", "request_timeout", "executor_failed",
          "executor_unavailable", "executor_version_incompatible",
          "invalid_runtime_cursor", "runtime_rejected",
          "checkpoint_rejected", "checkpoint_unavailable"}
isIndeterminate(error) == error = "outcome_unknown"

Steer(g, i) == [type |-> "steer", turn |-> g, arg |-> i]
ToolResult(g, c) == [type |-> "tool_result", turn |-> g, arg |-> c]
Cancel(g) == [type |-> "cancel", turn |-> g, arg |-> "none"]
Command == {Steer(g, i) : g \in Turn, i \in Input}
             \cup {ToolResult(g, c) : g \in Turn, c \in Call}

Message(i) == [type |-> "message", turn |-> 0, arg |-> i]
CancelInput == [type |-> "cancel", turn |-> 0, arg |-> "none"]
Answer(g, c) == [type |-> "tool_result", turn |-> g, arg |-> c]
InputEvent == {Message(i) : i \in Input} \cup {CancelInput}
                \cup {Answer(g, c) : g \in Turn, c \in Call}

ASSUME SessionAssumption ==
  /\ MaxTurn \in Nat \ {0}
  /\ MaxLog \in Nat
  /\ MaxEviction \in Nat
  /\ Page \in Nat \ {0}
  /\ Steerable \in BOOLEAN
  /\ Deployment \subseteq {"same", "other", "missing"}
  /\ EnvReport \subseteq EnvStatus
  /\ Output \notin Call
  /\ \A r \in Request :
       \/ \E e \in InputEvent : r.events = <<e>>
       \/ \E e, f \in InputEvent : r.events = <<e, f>>

\* Every message a client sends becomes an item with an id of its own (addInput).
ASSUME MessagesDistinct ==
  \A r, s \in Request : \A m \in DOMAIN r.events, n \in DOMAIN s.events :
    r.events[m].type = "message" /\ r.events[m] = s.events[n]
      => r.key = s.key /\ (r = s => m = n)

-----------------------------------------------------------------------------
(* The durable store and its transitions (session-state.ts).               *)

EmptyStore(life) ==
  [ life |-> life,              \* live, deleted, or purged to a tombstone
    phase |-> "idle",
    generation |-> 0,
    execution |-> 0,            \* the active turn, 0 for null
    input |-> {},               \* execution.input
    cursor |-> 0,
    checkpoint |-> 0,           \* the turn whose checkpoint is committed
    status |-> "idle",          \* session.status
    error |-> "none",           \* session.error
    actions |-> {},             \* session.required_actions
    turns |-> [g \in Turn |-> "none"],
    items |-> [g \in Turn |-> {}],     \* input items of each turn
    shown |-> [g \in Turn |-> <<>>],   \* runtime events applied to each turn
    commands |-> <<>>,
    cancellation |-> {},
    queued |-> <<>>,            \* queuedInput: steers the runtime refused
    accepted |-> {},            \* idempotency: the requests already applied
    environment |-> "none" ]
NewStore == EmptyStore("live")

Active(d) == d.execution # 0

\* The first page of a queue, as tx.store.list returns it.
FirstPage(s) == SubSeq(s, 1, IF Len(s) < Page THEN Len(s) ELSE Page)
Elements(s) == {s[n] : n \in 1..Len(s)}

begin(d, input) ==
  LET g == d.generation + 1 IN
  [d EXCEPT !.generation = g,
            !.execution = g,
            !.input = input,
            !.cursor = 0,
            !.phase = "starting",
            !.status = "in_progress",
            !.turns = [d.turns EXCEPT ![g] = "queued"]]

addInput(d, input) ==
  [d EXCEPT !.items = [d.items EXCEPT ![d.execution] = @ \cup input]]

enqueue(d, command) == [d EXCEPT !.commands = Append(@, command)]

\* The store removes a command by its id; it is queued at most once.
Without(s, x) ==
  IF x \in Elements(s)
  THEN LET n == CHOOSE m \in 1..Len(s) : s[m] = x
       IN SubSeq(s, 1, n - 1) \o SubSeq(s, n + 1, Len(s))
  ELSE s

discard(d, command) == [d EXCEPT !.commands = Without(@, command)]

\* Mutant: a refused steer stays in the transcript of the turn that refused it.
rejectKeepsItem(d, command) ==
  IF command.type = "steer"
  THEN [discard(d, command) EXCEPT !.queued = Append(@, command.arg)]
  ELSE discard(d, command)
\* A refused steer leaves the transcript and waits for the next turn.
reject(d, command) ==
  LET dropped == discard(d, command) IN
  IF command.type = "steer"
  THEN [dropped EXCEPT
          !.items = [d.items EXCEPT ![command.turn] = @ \ {command.arg}],
          !.queued = Append(@, command.arg)]
  ELSE dropped

markRunning(d) ==
  [d EXCEPT !.phase = "running",
            !.turns = [d.turns EXCEPT ![d.execution] = "in_progress"]]

\* Seal the active turn: its queues and its required actions go with it.
sealTurn(d, status, error) ==
  LET phase == IF status = "failed" /\ isIndeterminate(error) THEN "failed" ELSE "idle"
  IN [d EXCEPT !.turns = [d.turns EXCEPT ![d.execution] = status],
               !.commands = <<>>, !.cancellation = {}, !.queued = <<>>,
               !.execution = 0, !.input = {}, !.phase = phase,
               !.status = phase, !.error = error, !.actions = {}]

\* Input the runtime refused begins the next turn, unless this one was
\* cancelled or its outcome is unknown.
complete(d, status, error) ==
  LET sealed == sealTurn(d, status, error)
      input == Elements(FirstPage(d.queued))
  IN IF d.queued = <<>> \/ status = "cancelled" \/ sealed.phase = "failed"
     THEN sealed
     ELSE addInput(begin(sealed, input), input)

\* Mutant: the turn completes and the checkpoint pointer does not move.
commitCheckpointForgets(d) == complete(d, "completed", "none")
commitCheckpoint(d) ==
  complete([d EXCEPT !.checkpoint = d.execution], "completed", "none")

\* A batch holds the runtime's events from+1 .. from+Len(events).
Gap(d, batch) == batch.events # <<>> /\ batch.from > d.cursor
\* Mutant: a repeated page is applied again.
FreshRepeats(d, batch) == batch.events
Fresh(d, batch) ==
  IF batch.events = <<>> THEN <<>>
  ELSE SubSeq(batch.events, d.cursor - batch.from + 1, Len(batch.events))
\* Mutant: a completed batch ends the turn whatever arrived during the poll.
PendingIgnored(d, cancel) == FALSE
Pending(d, cancel) == ~cancel /\ d.commands # <<>>

\* acceptRuntimeEvent over the fresh events: a function call parks the turn.
acceptRuntimeEvents(d, events) ==
  LET calls == Elements(events) \cap Call
      parked == calls # {}
  IN [d EXCEPT
        !.cursor = @ + Len(events),
        !.shown = [d.shown EXCEPT ![d.execution] = @ \o events],
        !.actions = @ \cup {[turn |-> d.execution, call |-> c] : c \in calls},
        !.status = IF parked THEN "requires_action" ELSE @,
        !.turns = IF parked THEN [d.turns EXCEPT ![d.execution] = "waiting"] ELSE @]

acceptBatch(d, batch, cancel) ==
  LET next == acceptRuntimeEvents(d, Fresh(d, batch)) IN
  IF batch.status = "completed" /\ ~Pending(d, cancel)
  THEN [next EXCEPT !.phase = "checkpointing"]
  ELSE next

\* One event of a request: which ones throw, and what the others do.
\* Mutant: any answer to a function call is taken while a turn is active.
ThrowsUnlessActive(d, e) ==
  \/ e.type = "message" /\ Active(d) /\ ~Steerable
  \/ e.type = "tool_result" /\ ~Active(d)
Throws(d, e) ==
  \/ e.type = "message" /\ Active(d) /\ ~Steerable
  \/ e.type = "tool_result"
       /\ (~Active(d) \/ [turn |-> e.turn, call |-> e.arg] \notin d.actions)

acceptMessage(d, i) ==
  IF Active(d)
  THEN enqueue(addInput(d, {i}), Steer(d.execution, i))
  ELSE addInput(begin(d, {i}), {i})

acceptCancel(d) ==
  IF Active(d)
  THEN [d EXCEPT !.cancellation = @ \cup {d.execution}]
  ELSE d

\* Mutant: the first of several answers resumes the session.
acceptToolResultResumes(d, g, c) ==
  [enqueue(d, ToolResult(d.execution, c)) EXCEPT
     !.actions = @ \ {[turn |-> g, call |-> c]},
     !.status = "in_progress",
     !.turns = [d.turns EXCEPT ![g] = "in_progress"]]
acceptToolResult(d, g, c) ==
  LET rest == d.actions \ {[turn |-> g, call |-> c]} IN
  [enqueue(d, ToolResult(d.execution, c)) EXCEPT
     !.actions = rest,
     !.status = IF rest = {} THEN "in_progress" ELSE "requires_action",
     !.turns = IF rest = {} THEN [d.turns EXCEPT ![g] = "in_progress"] ELSE d.turns]

acceptEvent(d, e) ==
  IF e.type = "message" THEN acceptMessage(d, e.arg)
  ELSE IF e.type = "cancel" THEN acceptCancel(d)
  ELSE acceptToolResult(d, e.turn, e.arg)

\* All events of a request, of which the model's requests have one or two.
Refused(d, es) ==
  \/ Throws(d, es[1])
  \/ Len(es) = 2 /\ Throws(acceptEvent(d, es[1]), es[2])
acceptEvents(d, es) ==
  IF Len(es) = 1 THEN acceptEvent(d, es[1])
  ELSE acceptEvent(acceptEvent(d, es[1]), es[2])

Known(d, r) == \E p \in d.accepted : p.key = r.key

\* The requests that commit; a known key is a no-op or a conflict.
Accepts(d, r) ==
  /\ d.life = "live"
  /\ ~Known(d, r)
  /\ d.phase \notin {"failed", "checkpointing"}
  /\ deployed = "same"
  /\ ~Refused(d, r.events)

acceptInput(d, r) ==
  [acceptEvents(d, r.events) EXCEPT !.accepted = @ \cup {r}]

\* A settled environment never regresses; a failed setup fails an idle session.
Publishes(d, status) ==
  /\ d.life = "live"
  /\ d.environment # status
  /\ status = "pending" => d.environment = "none"
  /\ status = "disconnected" => d.environment = "connected"
  /\ status = "connected" => d.environment # "failed"

applyEnvironmentStatus(d, status) ==
  IF status = "failed" /\ ~Active(d)
  THEN [d EXCEPT !.environment = status, !.phase = "failed",
                 !.status = "failed",
                 !.error = "environment_setup_failed"]
  ELSE [d EXCEPT !.environment = status]

markDeleted(d) == [d EXCEPT !.life = "deleted"]
purgeRecords == EmptyStore("purged")

-----------------------------------------------------------------------------
(* The runtime behind the driver (external), as the reconciler relies on it. *)

NoJob == [state |-> "none", log |-> <<>>, got |-> {}, answered |-> {},
          cancel |-> FALSE, saved |-> FALSE]

\* Dispatch happens once: a retry of an acknowledged start is a no-op.
Started(j, input) ==
  IF j.state = "none" THEN [j EXCEPT !.state = "live", !.got = input] ELSE j

\* Operations are memoized by id, so a repeated delivery is acknowledged.
Applied(j, c) ==
  \/ c.type = "steer" /\ c.arg \in j.got
  \/ c.type = "tool_result" /\ c.arg \in j.answered
Takes(j, c) ==
  /\ j.state \notin {"none", "gone"}
  /\ \/ Applied(j, c)
     \/ c.type = "cancel"
     \/ c.type = "steer" /\ j.state = "live"
     \/ c.type = "tool_result" /\ j.state = "live" /\ c.arg \in Elements(j.log)
Apply(j, c) ==
  IF c.type = "steer" THEN [j EXCEPT !.got = @ \cup {c.arg}]
  ELSE IF c.type = "tool_result" THEN [j EXCEPT !.answered = @ \cup {c.arg}]
  ELSE [j EXCEPT !.cancel = TRUE]

\* Stopping destroys the container and the job in it.
Stopped(j) == IF j.state = "none" THEN j ELSE [j EXCEPT !.state = "gone"]

Waiting(j) == (Elements(j.log) \cap Call) \ j.answered # {}
BatchStatus(j) == IF j.state = "live" THEN "running" ELSE j.state

\* What a poll may answer: any page of the log, a repeated or a missing
\* prefix included, with the job's status once the page reaches the end.
Batches(j) ==
  IF j.state \in {"none", "gone"}
  THEN {[from |-> 0, events |-> <<>>, status |-> "missing"]}
  ELSE {[from |-> m, events |-> SubSeq(j.log, m + 1, n),
         status |-> IF n = Len(j.log) THEN BatchStatus(j) ELSE "running"] :
          m, n \in 0..Len(j.log)}

JobStep(g, next) ==
  /\ job' = [job EXCEPT ![g] = next]
  /\ UNCHANGED <<db, alarm, late, deployed, tick, evictions>>

JobEmits(g, e) ==
  /\ job[g].state = "live" /\ Len(job[g].log) < MaxLog
  /\ IF e \in Call THEN e \notin Elements(job[g].log) ELSE ~Waiting(job[g])
  /\ JobStep(g, [job[g] EXCEPT !.log = Append(@, e)])
JobCompletes(g) ==
  /\ job[g].state = "live" /\ ~Waiting(job[g])
  /\ JobStep(g, [job[g] EXCEPT !.state = "completed"])
JobCancelled(g) ==
  /\ job[g].state = "live" /\ job[g].cancel
  /\ JobStep(g, [job[g] EXCEPT !.state = "cancelled"])
JobFails(g) ==
  /\ job[g].state = "live"
  /\ JobStep(g, [job[g] EXCEPT !.state = "failed"])
JobVanishes(g) ==
  /\ job[g].state \notin {"none", "gone"}
  /\ JobStep(g, [job[g] EXCEPT !.state = "gone"])

-----------------------------------------------------------------------------
(* Client calls, the clock and the platform.                               *)

\* submitProgram: the alarm is armed first, then the input commits or throws.
\* The bound on turns keeps the model finite.
Submit(r) ==
  /\ db.generation < MaxTurn \/ Active(db)
  /\ alarm' = TRUE
  /\ db' = IF Accepts(db, r) THEN acceptInput(db, r) ELSE db
  /\ late' = IF db'.generation = db.generation THEN late ELSE FALSE
  /\ UNCHANGED <<deployed, tick, job, evictions>>

EnvironmentStatus(status) ==
  /\ Publishes(db, status)
  /\ db' = applyEnvironmentStatus(db, status)
  /\ UNCHANGED <<alarm, late, deployed, tick, job, evictions>>

\* Mutant: deletion does not ask whether a turn is active.
DeleteAnyway ==
  /\ db.life = "live"
  /\ db' = markDeleted(db)
  /\ UNCHANGED <<alarm, late, deployed, tick, job, evictions>>
\* delete: refused while a turn is active; releases the compute it still holds.
Delete ==
  /\ db.life = "live" /\ ~Active(db)
  /\ db' = markDeleted(db)
  /\ \/ UNCHANGED job
     \/ job' = [g \in Turn |-> Stopped(job[g])]
  /\ UNCHANGED <<alarm, late, deployed, tick, evictions>>

Purge ==
  /\ db.life = "deleted"
  /\ db' = purgeRecords
  /\ alarm' = FALSE
  /\ UNCHANGED <<late, deployed, tick, job, evictions>>

DeadlinePasses ==
  /\ Active(db) /\ ~late
  /\ late' = TRUE
  /\ UNCHANGED <<db, alarm, deployed, tick, job, evictions>>

NoTick == [pc |-> "idle", turn |-> 0, cancel |-> FALSE, commands |-> <<>>,
           retry |-> FALSE, batch |-> [from |-> 0, events |-> <<>>, status |-> "none"],
           outcome |-> "none", error |-> "none"]

\* The platform drops the object from memory; a deploy may change the driver.
Evict ==
  /\ evictions < MaxEviction
  /\ evictions' = evictions + 1
  /\ tick' = NoTick
  /\ deployed' \in Deployment
  /\ UNCHANGED <<db, alarm, late, job>>

\* Mutant: only the tick it starts re-arms the alarm, when it ends.
AlarmFiresOnce ==
  /\ alarm
  /\ alarm' = FALSE
  /\ tick' = IF tick.pc = "idle" /\ Active(db)
             THEN [NoTick EXCEPT !.pc = "turn", !.turn = db.execution]
             ELSE tick
  /\ UNCHANGED <<db, late, deployed, job, evictions>>
\* alarmProgram: the fired alarm is cleared, and re-armed before the permit
\* check while a turn is active; one tick runs at a time.
AlarmFires ==
  /\ alarm
  /\ alarm' = Active(db)
  /\ tick' = IF tick.pc = "idle" /\ Active(db)
             THEN [NoTick EXCEPT !.pc = "turn", !.turn = db.execution]
             ELSE tick
  /\ UNCHANGED <<db, late, deployed, job, evictions>>

-----------------------------------------------------------------------------
(* The reconciler (session-reconcile.ts): one tick, from await to await.   *)

\* tx.fenced: the durable record still belongs to this tick's execution.
Fenced == db.life = "live" /\ db.execution = tick.turn

At(pc) == tick.pc = pc

\* Move on inside the tick; a fence that no longer holds ends it silently.
Goto(next) == tick' = IF Fenced THEN next ELSE NoTick

\* Effect.ensuring(rearm): a tick that ends leaves an active turn its alarm.
EndTick ==
  /\ tick' = NoTick
  /\ alarm' = (alarm \/ Active(db'))

\* One fenced transaction that leaves the turn open.
Transact(next, d) ==
  /\ Goto(next)
  /\ db' = IF Fenced THEN d ELSE db
  /\ UNCHANGED <<alarm, late, deployed, job, evictions>>

\* One fenced transaction that seals the turn and ends the tick.
Seal(d) ==
  /\ db.queued # <<>> => db.generation < MaxTurn
  /\ db' = IF Fenced THEN d ELSE db
  /\ late' = IF Fenced THEN FALSE ELSE late
  /\ EndTick
  /\ UNCHANGED <<deployed, job, evictions>>

\* A driver call: the job may change, the store does not.
DriverCall(next, j) ==
  /\ tick' = next
  /\ job' = [job EXCEPT ![tick.turn] = j]
  /\ UNCHANGED <<db, alarm, late, deployed, evictions>>

\* A driver call nobody answered ends the tick: the next alarm retries.
Unanswered(j) ==
  /\ job' = [job EXCEPT ![tick.turn] = j]
  /\ UNCHANGED <<db, late, deployed, evictions>>
  /\ EndTick

Stage(pc) == [NoTick EXCEPT !.pc = pc, !.turn = tick.turn]
StopWith(outcome, error) ==
  [Stage("stop") EXCEPT !.outcome = outcome, !.error = error]
StopAndFail(error) == StopWith("failed", error)

Local(next) ==
  /\ tick' = next
  /\ UNCHANGED <<db, alarm, late, deployed, job, evictions>>

\* reconcileTick, reconcileTurn: what this tick does with the turn.
ExecutorUnavailable ==
  /\ At("turn") /\ deployed = "missing"
  /\ Seal(complete(db, "failed", "executor_unavailable"))

ReconcileTurn ==
  /\ At("turn") /\ deployed # "missing"
  /\ Local(IF deployed = "other" THEN StopAndFail("executor_version_incompatible")
           ELSE IF db.phase = "checkpointing" THEN Stage("checkpoint")
           ELSE IF late THEN StopAndFail("request_timeout")
           ELSE IF db.phase = "starting" THEN Stage("start")
           ELSE Stage("round"))

StartAnswered ==
  /\ At("start")
  /\ DriverCall(Stage("started"), Started(job[tick.turn], db.input))
StartRejected ==
  /\ At("start") /\ job[tick.turn].state = "none"
  /\ Local(StopAndFail("runtime_rejected"))
StartUnanswered ==
  /\ At("start")
  /\ \E j \in {job[tick.turn], Started(job[tick.turn], db.input)} : Unanswered(j)

MarkRunning ==
  /\ At("started")
  /\ Transact(Stage("round"), markRunning(db))

\* round: the deadline, then the commands to deliver; a cancellation
\* supersedes the queue (pendingCommands).
Round ==
  /\ At("round")
  /\ LET cancel == tick.turn \in db.cancellation IN
     /\ Goto(IF late THEN StopAndFail("request_timeout")
             ELSE [Stage("deliver") EXCEPT
                     !.cancel = cancel,
                     !.commands = IF cancel THEN <<Cancel(tick.turn)>>
                                  ELSE FirstPage(db.commands)])
     /\ UNCHANGED <<db, alarm, late, deployed, job, evictions>>

\* deliver: the outcome of one control call.
Delivering == At("deliver") /\ tick.commands # <<>>
Operation == Head(tick.commands)
Rest(pc) == [tick EXCEPT !.pc = pc, !.commands = Tail(@)]

\* A cancellation's delivery outcome never matters.
DeliverCancel ==
  /\ Delivering /\ tick.cancel
  /\ \E j \in {job[tick.turn]} \cup
             (IF Takes(job[tick.turn], Operation)
              THEN {Apply(job[tick.turn], Operation)} ELSE {}) :
       DriverCall(Rest("deliver"), j)

DeliverAnswered ==
  /\ Delivering /\ ~tick.cancel /\ Takes(job[tick.turn], Operation)
  /\ DriverCall([tick EXCEPT !.pc = "discard"], Apply(job[tick.turn], Operation))
Discard ==
  /\ At("discard")
  /\ Transact(Rest("deliver"), discard(db, Operation))

DeliverRefused ==
  /\ Delivering /\ ~tick.cancel /\ ~Takes(job[tick.turn], Operation)
  /\ Local([tick EXCEPT !.pc = "reject"])
Reject ==
  /\ At("reject")
  /\ Transact(Rest("deliver"), reject(db, Operation))

\* An unknown delivery outcome: poll first, deliver again next time.
DeliverUnanswered ==
  /\ Delivering /\ ~tick.cancel
  /\ \E j \in {job[tick.turn]} \cup
             (IF Takes(job[tick.turn], Operation)
              THEN {Apply(job[tick.turn], Operation)} ELSE {}) :
       DriverCall([tick EXCEPT !.commands = <<>>, !.retry = TRUE], j)

Polling == At("deliver") /\ tick.commands = <<>>
PollAnswered ==
  /\ Polling
  /\ \E batch \in Batches(job[tick.turn]) :
       Local([tick EXCEPT !.pc = "accept", !.batch = batch])
PollUnanswered ==
  /\ Polling
  /\ Unanswered(job[tick.turn])

\* The batch in one transaction; a gap rolls it back and fails the turn.
RejectBatch ==
  /\ At("accept") /\ Gap(db, tick.batch)
  /\ Goto(StopAndFail("invalid_runtime_cursor"))
  /\ UNCHANGED <<db, alarm, late, deployed, job, evictions>>

Accepting == At("accept") /\ ~Gap(db, tick.batch)
Accepted == acceptBatch(db, tick.batch, tick.cancel)

AcceptCompletion ==
  /\ Accepting /\ Accepted.phase = "checkpointing"
  /\ Transact(Stage("checkpoint"), Accepted)
AcceptFailure ==
  /\ Accepting /\ tick.batch.status \in {"failed", "missing"}
  /\ Transact(StopAndFail(IF tick.batch.status = "missing"
                          THEN "outcome_unknown" ELSE "executor_failed"), Accepted)
AcceptCancellation ==
  /\ Accepting /\ tick.batch.status = "cancelled"
  /\ Transact(StopWith("cancelled", "none"), Accepted)

\* More to do: commands accepted during the poll, or news from a long poll.
StillOpen ==
  /\ Accepting /\ Accepted.phase # "checkpointing"
  /\ tick.batch.status \in {"running", "completed"}
AcceptAndRepeat ==
  /\ StillOpen
  /\ \/ Pending(db, tick.cancel) /\ ~tick.retry
     \/ Accepted.cursor > db.cursor /\ tick.batch.status = "running"
  /\ Transact(Stage("round"), Accepted)
\* The tick also ends here after its bounded number of rounds or its budget.
AcceptAndEnd ==
  /\ StillOpen
  /\ db' = IF Fenced THEN Accepted ELSE db
  /\ EndTick
  /\ UNCHANGED <<late, deployed, job, evictions>>

\* boundedStop: an unconfirmed stop is retried until the deadline; past it
\* the turn is sealed, and a failure reads outcome_unknown.
StopAnswered ==
  /\ At("stop")
  /\ DriverCall([tick EXCEPT !.pc = "finish"], Stopped(job[tick.turn]))
StopUnanswered ==
  /\ At("stop") /\ ~late
  /\ \E j \in {job[tick.turn], Stopped(job[tick.turn])} : Unanswered(j)
\* Mutant: an unconfirmed stop is retried past the deadline too.
StopUnknownRetries ==
  /\ At("stop") /\ late
  /\ \E j \in {job[tick.turn], Stopped(job[tick.turn])} : Unanswered(j)
StopUnknown ==
  /\ At("stop") /\ late
  /\ \E j \in {job[tick.turn], Stopped(job[tick.turn])} :
       DriverCall([tick EXCEPT !.pc = "finish",
                          !.error = IF tick.outcome = "failed"
                                    THEN "outcome_unknown" ELSE @], j)
Finish ==
  /\ At("finish")
  /\ Seal(complete(db, tick.outcome, tick.error))

\* checkpoint: an answer commits, a definite refusal fails the turn, and no
\* answer is retried until the deadline.
CheckpointAnswered ==
  /\ At("checkpoint")
  /\ job[tick.turn].saved \/ job[tick.turn].state = "completed"
  /\ DriverCall(Stage("commit"), [job[tick.turn] EXCEPT !.saved = TRUE])
CheckpointRejected ==
  /\ At("checkpoint") /\ ~job[tick.turn].saved
  /\ Local(StopAndFail("checkpoint_rejected"))
CheckpointUnanswered ==
  /\ At("checkpoint")
  /\ \E saved \in {job[tick.turn].saved,
                   job[tick.turn].saved \/ job[tick.turn].state = "completed"} :
       LET j == [job[tick.turn] EXCEPT !.saved = saved] IN
       IF late THEN DriverCall(StopAndFail("checkpoint_unavailable"), j)
       ELSE Unanswered(j)
CommitCheckpoint ==
  /\ At("commit")
  /\ Seal(commitCheckpoint(db))

-----------------------------------------------------------------------------
Init ==
  /\ db = NewStore
  /\ alarm = FALSE
  /\ late = FALSE
  /\ deployed = "same"
  /\ tick = NoTick
  /\ job = [g \in Turn |-> NoJob]
  /\ evictions = 0

Client == Delete \/ Purge \/ \E r \in Request : Submit(r)

Environment == \E status \in EnvReport : EnvironmentStatus(status)

Platform == AlarmFires \/ DeadlinePasses \/ Evict

Runtime ==
  \E g \in Turn :
    \/ \E e \in Event : JobEmits(g, e)
    \/ JobCompletes(g) \/ JobCancelled(g) \/ JobFails(g) \/ JobVanishes(g)

Reconciler ==
  \/ ExecutorUnavailable \/ ReconcileTurn
  \/ StartAnswered \/ StartRejected \/ StartUnanswered \/ MarkRunning
  \/ Round
  \/ DeliverCancel \/ DeliverAnswered \/ Discard
  \/ DeliverRefused \/ Reject \/ DeliverUnanswered
  \/ PollAnswered \/ PollUnanswered \/ RejectBatch
  \/ AcceptCompletion \/ AcceptFailure \/ AcceptCancellation
  \/ AcceptAndRepeat \/ AcceptAndEnd
  \/ StopAnswered \/ StopUnanswered \/ StopUnknown \/ Finish
  \/ CheckpointAnswered \/ CheckpointRejected \/ CheckpointUnanswered
  \/ CommitCheckpoint

Next == Client \/ Environment \/ Platform \/ Runtime \/ Reconciler

Spec == Init /\ [][Next]_vars

\* Alarms fire at least once, every awaited call returns or times out, and
\* time passes.  Clients and the runtime promise nothing.
Fairness ==
  /\ WF_vars(AlarmFires)
  /\ WF_vars(DeadlinePasses)
  /\ WF_vars(Reconciler)

FairSpec == Spec /\ Fairness

-----------------------------------------------------------------------------
(* Properties.                                                             *)

Batch == [from : Nat, events : Seq(Event),
          status : {"none", "running", "completed", "cancelled", "failed", "missing"}]

StoreType ==
  [ life : {"live", "deleted", "purged"},
    phase : Phase,
    generation : 0..MaxTurn,
    execution : 0..MaxTurn,
    input : SUBSET Input,
    cursor : Nat,
    checkpoint : 0..MaxTurn,
    status : {"idle", "in_progress", "requires_action", "failed"},
    error : Error \cup {"environment_setup_failed"},
    actions : SUBSET [turn : Turn, call : Call],
    turns : [Turn -> TurnStatus],
    items : [Turn -> SUBSET Input],
    shown : [Turn -> Seq(Event)],
    commands : Seq(Command),
    cancellation : SUBSET Turn,
    queued : Seq(Input),
    accepted : SUBSET Request,
    environment : EnvStatus \cup {"none"} ]

JobType ==
  [ state : {"none", "live", "completed", "cancelled", "failed", "gone"},
    log : Seq(Event),
    got : SUBSET Input,
    answered : SUBSET Call,
    cancel : BOOLEAN,
    saved : BOOLEAN ]

TickType ==
  [ pc : {"idle", "turn", "start", "started", "round", "deliver", "discard",
          "reject", "accept", "stop", "finish", "checkpoint", "commit"},
    turn : 0..MaxTurn,
    cancel : BOOLEAN,
    commands : Seq(Command \cup {Cancel(g) : g \in Turn}),
    retry : BOOLEAN,
    batch : Batch,
    outcome : {"none", "failed", "cancelled"},
    error : Error ]

\* Every variable keeps the shape the persistence schemas and the reconciler
\* give it (session-record.ts, Tick in session-reconcile.ts).
TypeOK ==
  /\ db \in StoreType
  /\ alarm \in BOOLEAN
  /\ late \in BOOLEAN
  /\ deployed \in {"same", "other", "missing"}
  /\ tick \in TickType
  /\ job \in [Turn -> JobType]
  /\ evictions \in 0..MaxEviction

\* validate() and the meaning of the record: a turn is open exactly while it
\* is the execution, the execution is the newest generation, and a phase is
\* active exactly while there is an execution.
OpenTurn(d) ==
  /\ Active(d) <=> d.phase \in ActivePhase
  /\ Active(d) => d.execution = d.generation /\ d.life = "live"
  /\ \A g \in Turn :
       /\ d.turns[g] \in {"queued", "in_progress", "waiting"} <=> g = d.execution
       /\ d.turns[g] # "none" => g <= d.generation
OneOpenTurn == OpenTurn(db)

\* The fence of a running tick never fails: with one permit per object, no
\* client call, environment report or deletion moves the record on while the
\* reconciler waits for the runtime.
FenceHolds == ~At("idle") => Fenced

\* An active turn always has an alarm behind it, so an eviction at any await
\* cannot orphan it (submitProgram, alarmProgram).
WakeupPersists == Active(db) => alarm

\* What is queued belongs to the active turn: no steer, tool result,
\* cancellation, refused input or required action outlives the turn it was
\* accepted for.
Current(d) ==
  /\ \A c \in Elements(d.commands) : c.turn = d.execution
  /\ \A a \in d.actions : a.turn = d.execution
  /\ d.cancellation \subseteq {d.execution}
  /\ d.commands # <<>> \/ d.queued # <<>> => Active(d)
QueuesCurrent == Current(db)

\* Whatever arrives while a tick waits for the runtime, the record stays that
\* of one execution: one open turn, the newest, with the queues accepted for it,
\* and it is the turn the tick works on.
RecordCurrent == OneOpenTurn /\ QueuesCurrent /\ FenceHolds

\* The locals of a running tick fit its program counter.
TickShape ==
  /\ ~At("idle") => tick.turn \in Turn
  /\ tick.pc \in {"stop", "finish"} => tick.outcome \in {"failed", "cancelled"}
  /\ ~tick.cancel => tick.commands \in Seq(Command)
  /\ tick.pc \in {"discard", "reject"} => ~tick.cancel /\ tick.commands # <<>>

\* The inductive invariant behind the theorems of SessionProofs.
SessionInv ==
  TypeOK /\ OneOpenTurn /\ QueuesCurrent /\ FenceHolds /\ WakeupPersists /\ TickShape

\* session.status and the turn's status tell the client what the record holds:
\* action is required exactly while a function call is unanswered.
StatusTruthful ==
  /\ db.status = "idle" <=> db.phase = "idle"
  /\ db.status = "failed" <=> db.phase = "failed"
  /\ db.status = "requires_action" <=> db.actions # {}
  /\ \A g \in Turn : db.turns[g] = "waiting" <=> \E a \in db.actions : a.turn = g

\* A message is in the transcript of at most one turn, and one the runtime
\* refused is in none until its own turn begins: a retried request, a
\* redelivery or a restart never shows it twice.
InputOnce ==
  \A i \in Input :
    /\ Cardinality({g \in Turn : i \in db.items[g]}) <= 1
    /\ i \in Elements(db.queued) => \A g \in Turn : i \notin db.items[g]

\* The events of a turn are the runtime's, in order, each applied once, and
\* the cursor counts them, whatever pages the runtime repeats or loses.
EventsInOrder ==
  \A g \in Turn :
    /\ Len(db.shown[g]) <= Len(job[g].log)
    /\ db.shown[g] = SubSeq(job[g].log, 1, Len(db.shown[g]))
    /\ g = db.execution => db.cursor = Len(db.shown[g])

\* The committed checkpoint is that of the last completed turn, and the
\* harness has it: a failed or cancelled turn never moves it.
CheckpointOfLastCompleted ==
  db.life # "purged" =>
    LET done == {g \in Turn : db.turns[g] = "completed"} IN
    /\ \A g \in done : g <= db.checkpoint
    /\ db.checkpoint # 0 => db.checkpoint \in done /\ job[db.checkpoint].saved

\* This step seals turn g.
Seals(g) == g = db.execution /\ db'.turns[g] \in Terminal

\* The outcome of a turn never changes once it is published.
TerminalForever ==
  [][\A g \in Turn : db.turns[g] \in Terminal /\ db'.life # "purged"
                        => db'.turns[g] = db.turns[g]]_vars

\* A turn completes only when the runtime took every message shown in it: a
\* steer accepted while the last poll was out is delivered or moved first.
CompletedTurnTookItsInput ==
  [][\A g \in Turn :
       Seals(g) /\ db'.turns[g] = "completed" /\ g \notin db.cancellation
         => db.items[g] \subseteq job[g].got]_vars

\* A turn is sealed over a runtime that may still act only when the session
\* says so: its outcome is unknown, or the deployment dropped the executor.
SealedRuntimeContained ==
  [][\A g \in Turn :
       Seals(g) /\ job[g].state = "live"
         => db'.error \in {"outcome_unknown", "executor_unavailable"}]_vars

\* Input the runtime refused runs as the next turn when its turn is sealed,
\* unless the turn was cancelled or its outcome is unknown.
RefusedSteerRuns ==
  [][\A g \in Turn :
       Seals(g) /\ db'.turns[g] # "cancelled" /\ db'.phase # "failed"
         => Elements(db.queued) \subseteq db'.input]_vars

\* A session whose outcome is unknown accepts nothing more: no turn begins in
\* a failed session.
FailedForever ==
  [][db.phase = "failed" /\ db'.life # "purged" =>
       db'.phase = "failed" /\ db'.generation = db.generation]_vars

\* What a client was told stands: outcomes of turns and the failure of a session.
OutcomesStand == TerminalForever /\ FailedForever

\* A turn is sealed truthfully: as completed only over input the runtime took, over a
\* live runtime only as unknown, and never over a refused steer without running it.
SealedTruthfully == CompletedTurnTookItsInput /\ SealedRuntimeContained /\ RefusedSteerRuns

\* Every turn is sealed: no loss of answers, containers, objects or messages
\* leaves a turn open past its deadline.
EveryTurnSealed ==
  \A g \in Turn : g = db.execution ~> g # db.execution

-----------------------------------------------------------------------------
(* What the documentation promises and the code does not keep.             *)

\* "If the runtime has already finished when the message arrives, the message
\* is not lost: it runs as the next turn" (environments-and-tools.md): a
\* message the finished runtime never took is the input of the next turn.
FinishedTurnKeepsSteer ==
  [][\A g \in Turn :
       /\ Seals(g) /\ g \notin db.cancellation
       /\ db'.turns[g] = "completed" \/ db'.error = "executor_failed"
       => db.items[g] \subseteq job[g].got \cup db'.input]_vars

=============================================================================
