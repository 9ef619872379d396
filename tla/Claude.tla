------------------------------- MODULE Claude -------------------------------
(***************************************************************************)
(* ClaudeCodeJob (claude-code.ts): one turn of the Claude Code CLI, driven *)
(* through its SDK, with its native subagents.                             *)
(*                                                                         *)
(* cli is external: it takes input from the queue the job keeps open,      *)
(* writes messages block by block, runs subagents in the background, ends  *)
(* each round with a result and exits when its input is closed.  Its       *)
(* messages and hooks reach the job in the order of mail.  The two signals *)
(* that register a subagent, its task and its hook, come in either order   *)
(* before those of another; a hook may name the tool use or not.           *)
(*                                                                         *)
(* A native id that may be absent is a set of at most one element.  A      *)
(* block is identified by its scope, the number of its message and its     *)
(* index; "empty" is a text block that stays empty.                        *)
(***************************************************************************)
EXTENDS JobLog, Naturals, Sequences, FiniteSets, FiniteSetsExt

CONSTANTS MaxSub,       \* bound on native subagents
          Shape,        \* messages, as sequences of block types
          MaxChildren,  \* max_concurrent_subagents
          MaxMessage,   \* bound on the messages of a scope
          MaxMail,      \* bound on the signals not yet read
          MaxWork       \* bound on subagents, messages and steers together

ASSUME ClaudeAssumption ==
  /\ MaxSub \in Nat /\ MaxChildren \in Nat \ {0}
  /\ MaxMessage \in Nat /\ MaxMail \in Nat /\ MaxWork \in Nat

VARIABLES cli,    \* the CLI
          mail,   \* signals: what it sent and the job did not read
          turn,   \* the state of the ClaudeCodeJob
          permit  \* the operation that holds the transition permit

claudeVars == <<cli, mail, turn, permit>>

Main == 0        \* the scope of the main thread
Sub == 1..MaxSub  \* native subagents, in the order they are spawned
Scope == {Main} \cup Sub

-----------------------------------------------------------------------------
(***************************************************************************)
(* The CLI, external                                                       *)
(***************************************************************************)
Signal(type, of) == [type |-> type, of |-> of, msg |-> cli.message[of].number, index |-> 0,
                     block |-> "none", detail |-> "none"]
Posts(m) == Len(mail) < MaxMail /\ mail' = Append(mail, m)
Up == cli.work # "exited" /\ ~turn.closing
\* A turn that is being cancelled begins nothing new.
Budget == cli.moves + turn.accepted < MaxWork /\ ~turn.cancelling
Written(o) == cli.message[o].done = Len(cli.message[o].shape)
Registered(s) == cli.sub[s] = "none" \/ cli.owes[s] \cap {"task", "start"} = {}

\* The iterator of InputQueue returned: what was pushed before close is still yielded.
Ended == turn.closed /\ turn.items = 0

\* canUseTool, for Task: the subagents the job knows are counted.
canUseTool ==
  Cardinality({i \in DOMAIN turn.children : turn.children[i].status = "in_progress"}) < MaxChildren

CliSpawns(s, tasked) ==
  /\ Up /\ cli.work = "busy" /\ cli.sub[s] = "none" /\ canUseTool /\ Budget
  /\ \A other \in Sub : Registered(other) /\ (other < s => cli.sub[other] # "none")
  /\ cli.linked \/ tasked
  /\ cli' = [cli EXCEPT !.sub[s] = "running", !.moves = @ + 1,
                        !.owes[s] = {"start"} \cup (IF tasked THEN {"task"} ELSE {})]
  /\ UNCHANGED <<mail, turn, permit>>
\* The main thread wakes up when a subagent has ended.
CliTells(s, signal) ==
  /\ Up /\ signal \in cli.owes[s]
  /\ cli' = [cli EXCEPT !.owes[s] = @ \ {signal},
                        !.work = IF cli.sub[s] = "ended" /\ cli.owes[s] = {signal} THEN "busy" ELSE @,
                        !.tasked = IF signal = "task" THEN @ \cup {s} ELSE @]
  /\ Posts([Signal(signal, s) EXCEPT !.detail = IF cli.linked THEN "linked" ELSE "none"])
  /\ UNCHANGED <<turn, permit>>
CliEnds(s) ==
  /\ Up /\ cli.sub[s] = "running" /\ cli.owes[s] = {} /\ Written(s)
  /\ cli' = [cli EXCEPT !.sub[s] = "ended",
                        !.owes[s] = {"stop"} \cup (IF s \in cli.tasked THEN {"note"} ELSE {})]
  /\ UNCHANGED <<mail, turn, permit>>
CliOpens(o, shape) ==
  /\ Up /\ Written(o) /\ cli.message[o].number < MaxMessage /\ Budget
  /\ IF o = Main THEN cli.work = "busy" ELSE cli.sub[o] = "running" /\ Registered(o)
  /\ cli' = [cli EXCEPT !.moves = @ + 1, !.message[o] =
               [number |-> @.number + 1, shape |-> shape, streamed |-> 0, done |-> 0]]
  /\ UNCHANGED <<mail, turn, permit>>
CliStreams(o) ==
  LET p == cli.message[o]
      i == p.streamed + 1
  IN /\ Up /\ i <= Len(p.shape)
     /\ cli' = [cli EXCEPT !.message[o].streamed = i]
     /\ Posts([Signal("stream", o) EXCEPT !.index = i, !.block = p.shape[i]])
     /\ UNCHANGED <<turn, permit>>
CliCompletes(o) ==
  LET p == cli.message[o]
      i == p.done + 1
  IN /\ Up /\ i <= p.streamed
     /\ cli' = [cli EXCEPT !.message[o].done = i,
                           !.wrote = IF p.shape[i] = "text"
                                     THEN @ \cup {[of |-> o, msg |-> p.number, index |-> i]} ELSE @]
     /\ IF p.shape[i] = "empty" THEN UNCHANGED mail
        ELSE Posts([Signal("assistant", o) EXCEPT !.index = i, !.block = p.shape[i]])
     /\ UNCHANGED <<turn, permit>>
CliResult(detail) ==
  /\ Up /\ cli.work = "busy" /\ Written(Main) /\ \A s \in Sub : Registered(s)
  /\ detail = "error" => cli.interrupted \/ cli.message[Main].number = 0
  /\ cli' = [cli EXCEPT !.work = "idle", !.interrupted = FALSE]
  /\ Posts([Signal("result", Main) EXCEPT !.detail = detail, !.index = cli.queued])
  /\ UNCHANGED <<turn, permit>>
CliHears ==
  /\ Up /\ cli.queued > 0
  /\ cli' = [cli EXCEPT !.queued = @ - 1, !.heard = @ + 1, !.work = "busy"]
  /\ UNCHANGED <<mail, turn, permit>>
CliExits ==
  /\ Up /\ cli.work = "idle" /\ cli.queued = 0 /\ Ended
  /\ \A s \in Sub : cli.sub[s] # "running" /\ cli.owes[s] = {}
  /\ cli' = [cli EXCEPT !.work = "exited"]
  /\ Posts(Signal("end", Main))
  /\ UNCHANGED <<turn, permit>>
CliDies ==
  /\ Up /\ cli' = [cli EXCEPT !.work = "exited"] /\ Posts(Signal("crash", Main))
  /\ UNCHANGED <<turn, permit>>
CLI ==
  \/ \E s \in Sub : CliEnds(s) \/ (\E tasked \in BOOLEAN : CliSpawns(s, tasked))
                               \/ \E signal \in cli.owes[s] : CliTells(s, signal)
  \/ \E o \in Scope : CliStreams(o) \/ CliCompletes(o) \/ \E shape \in Shape : CliOpens(o, shape)
  \/ \E detail \in {"success", "error"} : CliResult(detail)
  \/ CliHears \/ CliExits \/ CliDies

-----------------------------------------------------------------------------
(***************************************************************************)
(* Native subagents, known under whichever id came first.  Child 0 is the  *)
(* main thread.                                                            *)
(***************************************************************************)
NewSubagent == [agent |-> {}, tool |-> {}, task |-> {}, status |-> "in_progress",
                announced |-> FALSE, forwarded |-> FALSE]
Same(a, b) == a # {} /\ a = b
found(j, agent, tool, task) ==
  {i \in DOMAIN j.children : \/ Same(agent, j.children[i].agent) \/ Same(tool, j.children[i].tool)
                             \/ Same(task, j.children[i].task)}
unlinked(j, agent, tool) ==
  {i \in DOMAIN j.children : /\ j.children[i].status = "in_progress"
                             /\ \/ agent # {} /\ j.children[i].agent = {}
                                \/ tool # {} /\ j.children[i].tool = {}}
\* child: the one that matches, else the newest that is not linked, else a new one.
subagent(j, agent, tool, task) ==
  CASE found(j, agent, tool, task) # {} -> Min(found(j, agent, tool, task))
    [] found(j, agent, tool, task) = {} /\ unlinked(j, agent, tool) # {} -> Max(unlinked(j, agent, tool))
    [] OTHER -> Len(j.children) + 1
linkedTo(j, agent, tool, task) ==
  LET i == subagent(j, agent, tool, task)
      all == IF i > Len(j.children) THEN Append(j.children, NewSubagent) ELSE j.children
  IN [j EXCEPT !.children = [all EXCEPT ![i].agent = IF @ = {} THEN agent ELSE @,
                                        ![i].tool = IF @ = {} THEN tool ELSE @,
                                        ![i].task = IF @ = {} THEN task ELSE @]]

Opened(j, i) == i = 0 \/ (j.children[i].announced /\ j.children[i].status = "in_progress")
announce(j, i) == [j EXCEPT !.children[i].announced = TRUE]
\* flushTexts
flushTexts(j, entries, phase) ==
  [j EXCEPT !.pending = @ \ entries,
            !.said = @ \cup {[child |-> e.child, msg |-> e.msg, index |-> e.index, phase |-> phase] : e \in entries},
            !.stray = @ \/ \E e \in entries :
                             \/ ~Opened(j, e.child)
                             \/ \E t \in j.said : <<t.child, t.msg, t.index>> = <<e.child, e.msg, e.index>>]
\* finish: what is pending is the subagent's answer, else the text its end carries.
finish(j, i) ==
  IF j.children[i].status # "in_progress" THEN j
  ELSE LET own == {e \in j.pending : e.child = i}
           summary == IF j.children[i].forwarded THEN {} ELSE {[child |-> i, msg |-> 0, index |-> 0]}
       IN [flushTexts(announce(j, i), own \cup summary, "final_answer")
             EXCEPT !.children[i].status = "completed"]

onTask(j, m) ==
  announce(linkedTo(j, {}, {m.of}, {m.of}), subagent(j, {}, {m.of}, {m.of}))
onSubagentStart(j, m) ==
  LET tool == IF m.detail = "linked" THEN {m.of} ELSE {}
  IN announce(linkedTo(j, {m.of}, tool, {}), subagent(j, {m.of}, tool, {}))
onSubagentStop(j, m) ==
  LET of == {i \in DOMAIN j.children : j.children[i].agent = {m.of}}
  IN IF of = {} THEN j ELSE finish(j, Min(of))
onNotification(j, m) ==
  LET of == {i \in DOMAIN j.children : {m.of} \in {j.children[i].task, j.children[i].tool}}
  IN IF of = {} THEN j ELSE finish(j, Min(of))

-----------------------------------------------------------------------------
(***************************************************************************)
(* Messages                                                                *)
(***************************************************************************)
scopeOf(j, m) == IF m.of = Main THEN 0 ELSE subagent(j, {}, {m.of}, {})
Scoped(j, m) == IF m.of = Main THEN j ELSE linkedTo(j, {}, {m.of}, {})

\* acceptStream and StreamBlocks.started, received: a block, with its deltas.
acceptStream(j, m) ==
  LET i == scopeOf(j, m)
      j1 == Scoped(j, m)
      b == [of |-> m.of, msg |-> m.msg, index |-> m.index, consumed |-> FALSE,
            type |-> IF m.block = "empty" THEN "text" ELSE m.block,
            received |-> m.block # "empty"]
  IN [j1 EXCEPT !.blocks = Append(@, b),
                !.stray = @ \/ (m.block \in {"text", "thinking"} /\ ~Opened(j1, i))]

assignableAny(j, m) ==
  {k \in DOMAIN j.blocks : LET b == j.blocks[k]
                           IN b.of = m.of /\ b.msg = m.msg /\ ~b.consumed /\ b.type = m.block}
\* StreamBlocks.assign: the blocks a part may stand for.
assignable(j, m) ==
  {k \in DOMAIN j.blocks : LET b == j.blocks[k]
                           IN /\ b.of = m.of /\ b.msg = m.msg /\ ~b.consumed /\ b.type = m.block
                              /\ (b.type = "text" => b.received)}
\* acceptAssistant: earlier messages, and text a tool call follows, are commentary.
acceptAssistant(j, m) ==
  LET i == scopeOf(j, m)
      before == Scoped(j, m)
      role == flushTexts(before,
                {e \in before.pending : e.child = i /\ (e.msg # m.msg \/ m.block = "tool_use")}, "commentary")
      ks == assignable(role, m)
      index == IF ks = {} THEN 1 ELSE role.blocks[Min(ks)].index
      j1 == IF ks = {} THEN role ELSE [role EXCEPT !.blocks[Min(ks)].consumed = TRUE]
      j2 == IF i = 0 THEN j1 ELSE [j1 EXCEPT !.children[i].forwarded = @ \/ m.block = "text"]
  IN IF m.block = "text"
     THEN [j2 EXCEPT !.pending = @ \cup {[child |-> i, msg |-> m.msg, index |-> index]}]
     ELSE [j2 EXCEPT !.stray = @ \/ (m.block = "thinking" /\ (index # m.index \/ ~Opened(j2, i)))]

\* finalize: subagents still open are closed with the turn.
finalize(j) ==
  LET n == DOMAIN j.children
      j1 == [j EXCEPT !.children = [i \in n |-> [j.children[i] EXCEPT !.announced = TRUE]]]
  IN [flushTexts(j1, j.pending, "final_answer")
        EXCEPT !.children = [i \in n |-> [j1.children[i] EXCEPT !.status = "completed"]]]
\* acceptResult: an error ends the turn; queued input and subagents at work keep it open.
acceptResult(j, m) ==
  LET pendingWork == m.index > 0 \/ \E i \in DOMAIN j.children : j.children[i].status = "in_progress"
      j1 == [j EXCEPT !.results = TRUE]
  IN IF m.detail = "error"
     THEN [setStatus(IF j.cancelling THEN j1 ELSE fail([j1 EXCEPT !.closed = TRUE]), "completed")
             EXCEPT !.reading = FALSE]
     ELSE IF pendingWork THEN j1
     ELSE [finalize(j1) EXCEPT !.finished = TRUE, !.closed = TRUE, !.completed = TRUE, !.blocks = <<>>]

\* The stream ended, and with it the CLI: the task of run.
taskEnds(j, completed) ==
  [(IF j.cancelling \/ completed THEN setStatus(j, "completed") ELSE fail(j)) EXCEPT !.reading = FALSE]

accept(j, m) ==
  CASE m.type = "task" -> onTask(j, m)
    [] m.type = "start" -> onSubagentStart(j, m)
    [] m.type = "stop" -> onSubagentStop(j, m)
    [] m.type = "note" -> onNotification(j, m)
    [] m.type = "stream" -> acceptStream(j, m)
    [] m.type = "assistant" -> acceptAssistant(j, m)
    [] m.type = "result" -> acceptResult(j, m)
    [] m.type = "end" -> taskEnds(j, j.completed)
    [] m.type = "crash" -> taskEnds(j, FALSE)
consume ==
  /\ turn.reading /\ ~turn.closing /\ mail # <<>>
  /\ mail' = Tail(mail) /\ turn' = accept(turn, Head(mail))
  /\ UNCHANGED <<cli, permit>>

-----------------------------------------------------------------------------
(***************************************************************************)
(* Input and control                                                       *)
(***************************************************************************)
\* The iterator of InputQueue.
yields ==
  /\ Up /\ turn.items > 0
  /\ turn' = [turn EXCEPT !.items = @ - 1] /\ cli' = [cli EXCEPT !.queued = @ + 1]
  /\ UNCHANGED <<mail, permit>>

Finished == turn.finished \/ turn.closed
\* steer, to the fetch of its images; refused when the turn has finished.
steer ==
  /\ permit = "free" /\ ~Sealed(turn) /\ ~Finished /\ Budget
  /\ permit' = "steer" /\ UNCHANGED <<cli, mail, turn>>
steerEndsUnchecked ==
  /\ permit = "steer" /\ permit' = "free"
  /\ turn' = [turn EXCEPT !.items = @ + 1, !.accepted = @ + 1]
  /\ UNCHANGED <<cli, mail>>
steerEnds ==
  /\ permit = "steer" /\ permit' = "free"
  /\ turn' = IF Finished THEN turn ELSE [turn EXCEPT !.items = @ + 1, !.accepted = @ + 1]
  /\ UNCHANGED <<cli, mail>>

\* interruptRuntime, to its wait for the result.
interruptRuntime ==
  /\ permit = "free" /\ ~turn.closing
  /\ turn' = [requestCancel(turn) EXCEPT !.results = FALSE]
  /\ cli' = [cli EXCEPT !.interrupted = cli.work = "busy" /\ ~Finished]
  /\ permit' = IF Finished THEN "closing" ELSE "interrupt"
  /\ UNCHANGED mail
\* The result came, or the grace is over.
interrupted ==
  /\ permit = "interrupt" /\ permit' = "closing"
  /\ turn' = [turn EXCEPT !.finished = TRUE, !.closed = TRUE]
  /\ UNCHANGED <<cli, mail>>
\* closeRuntime, after the log is closed.
closeRuntime ==
  /\ permit = "closing" /\ permit' = "free"
  /\ turn' = [close(turn) EXCEPT !.finished = TRUE, !.closed = TRUE, !.items = 0]
  /\ cli' = [cli EXCEPT !.work = "exited"] /\ mail' = <<>>

ClaudeInit ==
  /\ cli \in [work : {"busy"}, queued : {0}, heard : {0}, moves : {0}, interrupted : {FALSE}, linked : BOOLEAN,
              sub : {[s \in Sub |-> "none"]}, owes : {[s \in Sub |-> {}]}, tasked : {{}},
              message : {[o \in Scope |-> [number |-> 0, shape |-> <<>>, streamed |-> 0, done |-> 0]]},
              wrote : {{}}]
  /\ mail = <<>> /\ permit = "free"
  /\ turn = [status |-> "running", cancelling |-> FALSE, closing |-> FALSE, finished |-> FALSE,
             closed |-> FALSE, completed |-> FALSE, reading |-> TRUE, results |-> FALSE,
             items |-> 0, accepted |-> 0, children |-> <<>>, pending |-> {}, blocks |-> <<>>,
             said |-> {}, stray |-> FALSE]

ClaudeNext ==
  \/ CLI \/ consume \/ yields
  \/ steer \/ steerEnds \/ interruptRuntime \/ interrupted \/ closeRuntime

-----------------------------------------------------------------------------
(***************************************************************************)
(* Properties                                                              *)
(***************************************************************************)
\* Every native subagent is one public subagent, although its task, its hook and its
\* messages name it by different ids: it is announced before and closed after all that is
\* attributed to it, and a turn completes when each has been closed.
SubagentsAccounted ==
  /\ ~turn.stray
  /\ turn.status = "completed" =>
       /\ \A i \in DOMAIN turn.children : turn.children[i].announced /\ turn.children[i].status = "completed"
       /\ Len(turn.children) = Cardinality({s \in Sub : cli.sub[s] # "none"})

\* A steer that was accepted is worked on before the turn completes, also when it crosses
\* the result that ends the turn.
SteerHeard == turn.status = "completed" => cli.heard = turn.accepted

\* A turn that completes has said each text the CLI wrote once, in its scope and under the
\* id of its deltas; as commentary when a tool call or a message followed, else as answer.
Native(t) == IF t.child = 0 THEN Main ELSE CHOOSE s \in Sub : turn.children[t.child].tool = {s}
Texts == {t \in turn.said : t.msg # 0}
TextOnce ==
  turn.status = "completed" =>
    /\ {[of |-> Native(t), msg |-> t.msg, index |-> t.index] : t \in Texts} = cli.wrote
    /\ \A t, u \in turn.said : (t.phase = "final_answer" /\ u.child = t.child /\ t.msg = 0) => u = t
=============================================================================
