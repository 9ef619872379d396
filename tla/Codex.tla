------------------------------- MODULE Codex -------------------------------
(***************************************************************************)
(* CodexJob (codex.ts, codex-protocol.ts, json-rpc.ts, programmatic.ts):   *)
(* one turn of a Codex app-server with its native subagent threads.        *)
(*                                                                         *)
(* native and rpc are external: the app-server runs the root thread and    *)
(* the children, and answers requests on its own time.  Its notifications  *)
(* and its own requests come through inbox, in order; answers do not.  A   *)
(* thread is announced before its turns, and the item of a collaboration   *)
(* tool before the end of its sender's turn, at any time.  A request is    *)
(* answered within its timeout.                                            *)
(*                                                                         *)
(* Every control operation holds the transition permit, so control is the  *)
(* one that runs.  A value that may be absent is a set of at most one      *)
(* element.  Items, deltas and searches only differ in their payload: they *)
(* are "item".                                                             *)
(***************************************************************************)
EXTENDS JobLog, Naturals, Sequences, FiniteSets

CONSTANTS Root,      \* the root thread
          SubThread, \* native subagent threads
          CodexCall, \* tool calls of the runtime
          MaxChildTurn, \* bound on the turns of a child
          MaxInbox,  \* bound on the messages not yet read
          MaxMove    \* bound on what the threads choose to do besides starting and ending turns

ASSUME CodexAssumption ==
  /\ Root \notin SubThread /\ IsFiniteSet(SubThread) /\ IsFiniteSet(CodexCall)
  /\ MaxChildTurn \in Nat \ {0} /\ MaxInbox \in Nat /\ MaxMove \in Nat

VARIABLES native,   \* the app-server
          inbox,    \* messages: what it sent and the job did not read
          rpc,      \* interrupts and steers it has not answered
          codex,    \* the state of the CodexJob
          control,  \* the operation that holds the transition permit
          code,     \* what became of each invocation of the programmatic tool
          seen      \* history

codexVars == <<native, inbox, rpc, codex, control, code, seen>>

Thread == {Root} \cup SubThread

-----------------------------------------------------------------------------
(***************************************************************************)
(* The app-server, external                                                *)
(***************************************************************************)
Message(type, thread, detail, to) ==
  [type |-> type, thread |-> thread, turn |-> native.turn[thread], detail |-> detail, to |-> to]
Sends(m) == Len(inbox) < MaxInbox /\ inbox' = Append(inbox, m)
\* Nothing is read once the job has its outcome, so what happens then is left out.
Runs(t) == native.alive /\ codex.status \in Active /\ native.state[t] = "running"
Owed(t) == {i \in native.owed : i.sender = t}
Blocked(t) == \E k \in CodexCall : native.call[k] = [by |-> t, answers |-> 0]
Acts(t) == Runs(t) /\ t \notin native.closing /\ ~Blocked(t) /\ native.moves < MaxMove

\* Threads get their ids in one order: which of the unused ones is next is all the same.
Spawns(t, c) ==
  /\ Acts(t) /\ native.state[c] = "none" /\ c = CHOOSE d \in SubThread : native.state[d] = "none"
  /\ native' = [native EXCEPT !.state[c] = "new", !.moves = @ + 1,
                              !.owed = @ \cup {[sender |-> t, tool |-> "spawnAgent", to |-> c]}]
  /\ UNCHANGED <<inbox, rpc, codex, control, code, seen>>
Announces(c) ==
  /\ native.alive /\ codex.status \in Active /\ native.state[c] = "new"
  /\ native' = [native EXCEPT !.state[c] = "opened"]
  /\ Sends(Message("thread/started", c, "none", c))
  /\ UNCHANGED <<rpc, codex, control, code, seen>>
\* More input for a thread that ended its turn.
Follows(t, c) ==
  /\ Acts(t) /\ native.state[c] = "idle" /\ c \in SubThread /\ native.turn[c] < MaxChildTurn
  /\ native' = [native EXCEPT !.state[c] = "opened", !.moves = @ + 1,
                              !.owed = @ \cup {[sender |-> t, tool |-> "sendInput", to |-> c]}]
  /\ seen' = [seen EXCEPT !.resumed = @ \cup {c}]
  /\ UNCHANGED <<inbox, rpc, codex, control, code>>
\* A thread is closed between its tools; a turn that runs is interrupted.
Closes(t, c) ==
  /\ Acts(t) /\ Owed(c) = {} /\ native.state[c] \in {"running", "idle"} /\ c \in SubThread \ {t}
  /\ native' = [native EXCEPT !.state[c] = IF @ = "running" THEN @ ELSE "closed",
                              !.closing = @ \cup {c}, !.moves = @ + 1,
                              !.owed = @ \cup {[sender |-> t, tool |-> "closeAgent", to |-> c]}]
  /\ UNCHANGED <<inbox, rpc, codex, control, code, seen>>
Reports(i) ==
  /\ native.alive /\ codex.status \in Active /\ i \in native.owed
  /\ native' = [native EXCEPT !.owed = @ \ {i}]
  /\ Sends(Message("collaboration", i.sender, i.tool, i.to))
  /\ UNCHANGED <<rpc, codex, control, code, seen>>
Item(t) ==
  /\ Acts(t) /\ native' = [native EXCEPT !.moves = @ + 1]
  /\ Sends(Message("item", t, "none", t))
  /\ UNCHANGED <<rpc, codex, control, code, seen>>
TurnStarts(c) ==
  LET n == [native EXCEPT !.state[c] = "running", !.turn[c] = @ + 1]
  IN /\ native.alive /\ codex.status \in Active /\ native.state[c] = "opened"
     /\ native' = n
     /\ Sends([Message("turn/started", c, "none", c) EXCEPT !.turn = n.turn[c]])
     /\ UNCHANGED <<rpc, codex, control, code, seen>>
\* A turn that is interrupted, by the job or with its thread, drops what it had open.
NativeEnds(t, status) ==
  /\ Runs(t)
  /\ IF status = "interrupted" THEN t \in native.interrupted \cup native.closing
     ELSE ~Blocked(t) /\ Owed(t) = {}
  /\ native' = [native EXCEPT !.state[t] = IF t \in native.closing THEN "closed" ELSE "idle",
                              !.owed = @ \ Owed(t), !.interrupted = @ \ {t}]
  /\ Sends(Message("turn/completed", t, status, t))
  /\ UNCHANGED <<rpc, codex, control, code, seen>>
\* A dynamic tool, or a question to the user; any other request is refused at once.
Calls(t, k, kind) ==
  /\ Acts(t) /\ native.call[k].answers = 0 /\ native.call[k].by \notin Thread
  /\ native' = [native EXCEPT !.call[k] = [by |-> t, answers |-> 0], !.moves = @ + 1]
  /\ Sends(Message("call", t, kind, k))
  /\ UNCHANGED <<rpc, codex, control, code, seen>>
AppServer ==
  \/ \E t \in Thread, c \in SubThread : Spawns(t, c) \/ Follows(t, c) \/ Closes(t, c)
  \/ \E c \in SubThread : Announces(c) \/ TurnStarts(c)
  \/ \E i \in native.owed : Reports(i)
  \/ \E t \in Thread :
       \/ Item(t) \/ \E s \in {"completed", "interrupted", "failed"} : NativeEnds(t, s)
       \/ \E k \in CodexCall, kind \in {"function", "code", "delegate", "ask"} : Calls(t, k, kind)

-----------------------------------------------------------------------------
(***************************************************************************)
(* The job's log: the outcome, and what it said of each child's turn.      *)
(***************************************************************************)
known(j, c) == c \in SubThread /\ j.child[c] # {}
tracked(j, c) == CHOOSE s \in j.child[c] : TRUE
active(j) == {c \in SubThread : \E s \in j.child[c] : s.active}

finishIfReadyRoot(j) ==
  IF j.rootOutcome # {} THEN setStatus(j, CHOOSE o \in j.rootOutcome : TRUE) ELSE j
\* finishIfReady: delegated children are in Supervisor.
finishIfReady(j) ==
  IF j.rootOutcome # {} /\ active(j) = {} THEN setStatus(j, CHOOSE o \in j.rootOutcome : TRUE) ELSE j

\* settleWaiting
settleWaiting(j) == setStatus(j, IF j.tools # {} \/ j.code # {} THEN "waiting" ELSE "running")

\* origin: the scope of an event, the root for a thread nobody announced.
origin(j, t) == IF known(j, t) THEN t ELSE Root
\* An event that names a turn of a child outside its life.
emitItem(j, m) ==
  LET t == origin(j, m.thread)
  IN IF t = m.thread /\ (t = Root \/ j.reported[t][m.turn] = "in_progress") THEN j
     ELSE [j EXCEPT !.stray = TRUE]

-----------------------------------------------------------------------------
(***************************************************************************)
(* receive: one message, as a function of the job's state.                 *)
(***************************************************************************)
NewChild == [active |-> TRUE, closed |-> FALSE, turn |-> 0]
threadStartedUnheard(j, m) == j
threadStarted(j, m) == IF known(j, m.to) THEN j ELSE [j EXCEPT !.child[m.to] = {NewChild}]

childTurnStatus(started, status) ==
  CASE started -> "in_progress" [] ~started /\ status = "completed" -> "completed"
    [] ~started /\ status = "interrupted" -> "cancelled" [] OTHER -> "failed"
\* childTurn, without the interrupt of a child that starts late.
childTurn(j, m, started) ==
  LET c == m.thread
  IN finishIfReady(
       [j EXCEPT !.child[c] = {[tracked(j, c) EXCEPT !.turn = m.turn, !.active = started]},
                 !.reported[c][m.turn] = childTurnStatus(started, m.detail),
                 !.stray = @ \/ j.reported[c][m.turn] # (IF started THEN "none" ELSE "in_progress")])
rootTurnCompleted(j, m) ==
  IF m.detail = "failed" THEN fail(j)
  ELSE finishIfReady([j EXCEPT !.rootOutcome =
         {IF m.detail = "completed" /\ ~j.cancelRequested THEN "completed" ELSE "cancelled"}])
turnStarted(j, m) == IF known(j, m.thread) THEN childTurn(j, m, TRUE) ELSE j
turnCompleted(j, m) ==
  IF known(j, m.thread) THEN childTurn(j, m, FALSE)
  ELSE IF m.thread = Root THEN rootTurnCompleted(j, m) ELSE j

\* trackChild, for the receiver of a collaboration that completed.
trackChild(j, m) ==
  LET j1 == IF ~known(j, m.to) /\ m.detail = "spawnAgent" THEN [j EXCEPT !.child[m.to] = {NewChild}]
            ELSE j
      s == tracked(j1, m.to)
  IN IF ~known(j1, m.to) THEN j1
     ELSE [j1 EXCEPT !.child[m.to] =
       {CASE m.detail = "closeAgent" -> [s EXCEPT !.closed = TRUE, !.active = FALSE]
          [] m.detail = "sendInput" -> [s EXCEPT !.closed = FALSE]
          [] OTHER -> s}]
collaboration(j, m) == emitItem(trackChild(j, m), m)

\* toolCall and userInputRequest: what is not answered at once.
toolCall(j, m) ==
  CASE m.detail = "function" -> emitItem(setStatus([j EXCEPT !.tools = @ \cup {m.to}], "waiting"), m)
    [] m.detail = "ask" -> emitItem(j, m)
    [] OTHER -> j

dispatch(j, m) ==
  CASE m.type = "thread/started" -> threadStarted(j, m)
    [] m.type = "turn/started" -> turnStarted(j, m)
    [] m.type = "turn/completed" -> turnCompleted(j, m)
    [] m.type = "collaboration" -> collaboration(j, m)
    [] m.type = "call" -> toolCall(j, m)
    [] OTHER -> emitItem(j, m)

Answered(k) == [native EXCEPT !.call[k].answers = @ + 1]
InterruptsNobody(m) == {}
\* A child whose turn starts after the cancellation is interrupted.
Interrupts(m) ==
  IF m.type = "turn/started" /\ known(codex, m.thread) /\ codex.cancelRequested
  THEN {[thread |-> m.thread, waits |-> FALSE]} ELSE {}
receive ==
  LET m == Head(inbox)
      listens == ~codex.closing /\ codex.status \in Active
  IN /\ native.alive /\ inbox # <<>>
     /\ inbox' = Tail(inbox)
     /\ codex' = IF listens THEN dispatch(codex, m) ELSE codex
     /\ rpc' = IF listens THEN rpc \cup Interrupts(m) ELSE rpc
     /\ native' = IF listens /\ m.type = "call" /\ m.detail = "ask"
                  THEN Answered(m.to) ELSE native
     /\ code' = IF listens /\ m.type = "call" /\ m.detail \in {"code", "delegate"}
                THEN [code EXCEPT ![m.to] = m.detail] ELSE code
     /\ UNCHANGED <<control, seen>>

\* The process is gone, with what it sent and what it had open.
Dead == [native EXCEPT !.alive = FALSE, !.state = [t \in Thread |-> "none"],
                       !.owed = {}, !.closing = {}, !.interrupted = {}]
\* close: what was not read is dropped, what waits for an answer fails.
exited ==
  /\ native.alive /\ native' = Dead
  /\ codex' = fail(codex) /\ inbox' = <<>> /\ rpc' = {}
  /\ control' = "free"
  /\ UNCHANGED <<code, seen>>

-----------------------------------------------------------------------------
(***************************************************************************)
(* The programmatic tool and delegated work, answered outside receive.     *)
(***************************************************************************)
Aborted == codex.cancelRequested /\ control # "abort"
\* codeTool: the running code calls a client function and waits.
codeTool(k) ==
  /\ code[k] = "code" /\ ~codex.closing /\ ~Aborted
  /\ code' = [code EXCEPT ![k] = "waits"]
  /\ codex' = setStatus([codex EXCEPT !.code = @ \cup {k}], "waiting")
  /\ UNCHANGED <<native, inbox, rpc, control, seen>>
\* executeCode returned: a failed run may have left calls of the turn open, and one that
\* is uncertain fails the job.
respondCode(k, isError, uncertain) ==
  LET lost == uncertain \/ (isError /\ codex.code # {})
  IN /\ code[k] \in {"code", "waits"} /\ (code[k] = "waits" => isError)
     /\ code' = [code EXCEPT ![k] = "done"]
     /\ native' = IF lost \/ ~native.alive THEN native ELSE Answered(k)
     /\ codex' = IF lost /\ ~codex.cancelRequested /\ ~codex.closing THEN fail(codex) ELSE codex
     /\ UNCHANGED <<inbox, rpc, control, seen>>
delegated(k) ==
  /\ code[k] = "delegate"
  /\ code' = [code EXCEPT ![k] = "done"]
  /\ native' = IF native.alive THEN Answered(k) ELSE native
  /\ UNCHANGED <<inbox, rpc, codex, control, seen>>

-----------------------------------------------------------------------------
(***************************************************************************)
(* apply: control operations, one at a time.                               *)
(***************************************************************************)
Listening == control = "free" /\ ~codex.closing /\ codex.status \in Active

applyTool(k) ==
  /\ Listening /\ k \in codex.tools
  /\ native' = IF native.alive THEN Answered(k) ELSE native
  /\ codex' = settleWaiting([codex EXCEPT !.tools = @ \ {k}])
  /\ UNCHANGED <<inbox, rpc, control, code, seen>>
answerCode(k) ==
  /\ Listening /\ k \in codex.code
  /\ codex' = settleWaiting([codex EXCEPT !.code = @ \ {k}])
  /\ code' = [code EXCEPT ![k] = IF @ = "waits" THEN "code" ELSE @]
  /\ UNCHANGED <<native, inbox, rpc, control, seen>>

\* turn/steer: taken by the turn that runs, or an error.
steerTurn ==
  /\ Listening /\ native.alive
  /\ control' = "steer" /\ rpc' = rpc \cup {[thread |-> Root, waits |-> TRUE]}
  /\ UNCHANGED <<native, inbox, codex, code, seen>>

\* cancelTurn, to the first await: delegated children are told first.
cancelTurn ==
  /\ control = "free" /\ ~codex.closing /\ codex.status \in Active /\ ~codex.cancelRequested
  /\ codex' = [codex EXCEPT !.cancelRequested = TRUE, !.cancelling = TRUE,
                        !.rootOutcome = IF @ = {} THEN @ ELSE {"cancelled"}]
  /\ control' = "abort"
  /\ UNCHANGED <<native, inbox, rpc, code, seen>>
\* The calls of running code fail, and the root's turn is interrupted unless it ended.
cancelRoot ==
  /\ control = "abort"
  /\ codex' = [codex EXCEPT !.code = {}]
  /\ code' = [k \in CodexCall |-> IF code[k] = "waits" THEN "code" ELSE code[k]]
  /\ rpc' = IF codex.rootOutcome = {} THEN rpc \cup {[thread |-> Root, waits |-> TRUE]} ELSE rpc
  /\ control' = IF codex.rootOutcome = {} THEN "interrupt" ELSE "children"
  /\ UNCHANGED <<native, inbox, seen>>
\* Then every child whose turn runs, in turn; the ones told are in visited.
cancelChild(c) ==
  /\ control = "children" /\ c \in active(codex) \ seen.visited /\ tracked(codex, c).turn # 0
  /\ rpc' = rpc \cup {[thread |-> c, waits |-> TRUE]}
  /\ seen' = [seen EXCEPT !.visited = @ \cup {c}]
  /\ control' = "interrupt"
  /\ UNCHANGED <<native, inbox, codex, code>>
cancelDone ==
  /\ control = "children" /\ \A c \in active(codex) \ seen.visited : tracked(codex, c).turn = 0
  /\ codex' = finishIfReady(codex)
  /\ control' = "free" /\ seen' = [seen EXCEPT !.visited = {}]
  /\ UNCHANGED <<native, inbox, rpc, code>>

\* The app-server's answer; "no active turn to interrupt" is one of them.
answers(r) ==
  /\ native.alive /\ r \in rpc /\ rpc' = rpc \ {r}
  /\ native' = IF native.state[r.thread] = "running" /\ ~(r.waits /\ control = "steer")
               THEN [native EXCEPT !.interrupted = @ \cup {r.thread}] ELSE native
  /\ control' = CASE ~r.waits -> control [] control = "steer" -> "free" [] OTHER -> "children"
  /\ UNCHANGED <<inbox, codex, code, seen>>

\* The stop sequence of Supervisor: the log is closed, then the process ends.
stop ==
  /\ control = "free" /\ ~codex.closing
  /\ codex' = [close(codex) EXCEPT !.code = {}]
  /\ native' = Dead /\ inbox' = <<>> /\ rpc' = {}
  /\ UNCHANGED <<control, code, seen>>

CodexInit ==
  /\ native = [state |-> [t \in Thread |-> IF t = Root THEN "running" ELSE "none"],
               turn |-> [t \in Thread |-> IF t = Root THEN 1 ELSE 0],
               owed |-> {}, closing |-> {}, interrupted |-> {}, moves |-> 0, alive |-> TRUE,
               call |-> [k \in CodexCall |-> [by |-> "nobody", answers |-> 0]]]
  /\ inbox = <<>> /\ rpc = {} /\ control = "free" /\ code = [k \in CodexCall |-> "none"]
  /\ codex = [status |-> "running", closing |-> FALSE, cancelling |-> FALSE,
            cancelRequested |-> FALSE, rootOutcome |-> {}, tools |-> {}, code |-> {},
            child |-> [c \in SubThread |-> {}], stray |-> FALSE,
            reported |-> [c \in SubThread |-> [n \in 1..MaxChildTurn |-> "none"]]]
  /\ seen = [visited |-> {}, resumed |-> {}]

Control ==
  \/ \E k \in CodexCall : applyTool(k) \/ answerCode(k)
  \/ steerTurn \/ cancelTurn \/ cancelRoot \/ (\E c \in SubThread : cancelChild(c)) \/ cancelDone \/ stop
Runner ==
  \E k \in CodexCall : codeTool(k) \/ delegated(k) \/ \E e, u \in BOOLEAN : respondCode(k, e, u)

CodexNext == AppServer \/ receive \/ exited \/ Control \/ Runner \/ \E r \in rpc : answers(r)

\* The job reads what comes and goes on with a cancellation; the app-server answers
\* requests, starts the turns it accepted and ends the ones that are interrupted.
CodexFairness ==
  /\ WF_codexVars(receive)
  /\ WF_codexVars(cancelRoot \/ (\E c \in SubThread : cancelChild(c)) \/ cancelDone)
  /\ \A t \in Thread, w \in BOOLEAN : WF_codexVars(answers([thread |-> t, waits |-> w]))
  /\ WF_codexVars(\E c \in SubThread : Announces(c) \/ TurnStarts(c))
  /\ WF_codexVars(\E t \in Thread : NativeEnds(t, "interrupted"))

-----------------------------------------------------------------------------
(***************************************************************************)
(* Properties                                                              *)
(***************************************************************************)
\* A job that completed left no subagent at work: every thread that was spawned ran its
\* turn to the end, however its notifications and the root's interleaved.  Once a thread
\* that had ended was given more input this is not so: nothing tells the job before that
\* turn starts.
CompletesQuiet ==
  codex.status = "completed" /\ native.alive /\ seen.resumed = {} =>
    \A c \in SubThread : native.state[c] \in {"none", "idle", "closed"} \/ c \in native.closing

\* What SessionEvents relies on: an event is attributed to the thread it came from, and
\* names a turn of a subagent only between the start and the end that were reported,
\* each reported once.
ScopedToOpenTurn == ~codex.stray

\* A cancellation ends the job, and never as completed, although children start late,
\* turns end on their own and answers are overtaken by notifications.
CancelSettles ==
  /\ codex.cancelRequested ~> codex.status \in {"cancelled", "failed"}
  /\ [](codex.cancelRequested => codex.status # "completed")

\* A request of the app-server gets one answer at most, and a client function keeps the
\* job waiting until it has its result.
AnsweredOnce ==
  /\ \A k \in CodexCall : native.call[k].answers <= 1
  /\ Listening /\ ~codex.cancelling => (codex.status = "waiting" <=> codex.tools \cup codex.code # {})

\* What a client is told of a turn is attributed to the right thread while it is open,
\* and every request of the app-server is accounted for.
EveryMessageAccounted == ScopedToOpenTurn /\ AnsweredOnce
=============================================================================
