------------------------------ MODULE OpenCode ------------------------------
(***************************************************************************)
(* OpenCodeJob and OpenCodeTranscript (opencode.ts, opencode-transcript.ts): *)
(* one public turn over an OpenCode server: the prompt, admitted steers    *)
(* and their reruns, projected from an event feed that lags.               *)
(*                                                                         *)
(* server is external.  Its loop reads the session before each inference   *)
(* and answers the newest user message; a step that ends with tool calls   *)
(* goes on, another ends the loop unless a newer user message came.  A     *)
(* steer is stored without a reply: only a loop that still reads finds it. *)
(*                                                                         *)
(* User and assistant messages are numbered.  An assistant message has at  *)
(* most one text part, and a step that calls tools may run a child         *)
(* session, whose one message is its number negated.                       *)
(***************************************************************************)
EXTENDS JobLog, Integers, Sequences, FiniteSets

CONSTANTS MaxUser,       \* bound on user messages
          MaxAssistant,  \* bound on assistant messages
          MaxFeed        \* bound on the events not yet read

ASSUME OpenCodeAssumption ==
  MaxUser \in Nat \ {0} /\ MaxAssistant \in Nat \ {0} /\ MaxFeed \in Nat \ {0}

VARIABLES server,  \* the OpenCode server
          feed,    \* events: what it published and the job did not read
          oc,      \* the state of the OpenCodeJob and its transcript
          gate     \* who holds the steer gate: "free", "steer" or "turn"

openCodeVars == <<server, feed, oc, gate>>

Stored == (1..server.users) \ server.deleted
Newest == CHOOSE u \in Stored : \A v \in Stored : v <= u
Event(type, msg, detail) == [type |-> type, msg |-> msg, detail |-> detail]
Publishes(events) == Len(feed) + Len(events) <= MaxFeed /\ feed' = feed \o events
Serving == server.up /\ ~oc.closing /\ oc.status \in Active

-----------------------------------------------------------------------------
(***************************************************************************)
(* The server, external                                                    *)
(***************************************************************************)
Infers ==
  /\ Serving /\ server.loop = "reading" /\ server.assistants < MaxAssistant
  /\ server' = [server EXCEPT !.loop = "inferring", !.assistants = @ + 1, !.answering = Newest,
                              !.worked = @ \cup UNION {server.holds[u] : u \in Stored}]
  /\ Publishes(<<Event("assistant", server.assistants + 1, Newest)>>)
  /\ UNCHANGED <<oc, gate>>
\* The text part of the message, or of its child session; it is published again now and then.
Writes(m) ==
  /\ Serving /\ server.loop = "inferring" /\ m \in {server.assistants, -server.assistants}
  /\ m < 0 => server.kid = m
  /\ server.repeated => m \notin server.wrote
  /\ server' = [server EXCEPT !.wrote = @ \cup {m}, !.repeated = @ \/ m \in server.wrote]
  /\ Publishes(<<Event("text", m, "none")>>)
  /\ UNCHANGED <<oc, gate>>
Delegates ==
  /\ Serving /\ server.loop = "inferring" /\ server.kids = 0
  /\ server' = [server EXCEPT !.kid = -server.assistants, !.kids = 1]
  /\ Publishes(<<Event("created", -server.assistants, "none")>>)
  /\ UNCHANGED <<oc, gate>>
Returns ==
  /\ Serving /\ server.kid # 0
  /\ server' = [server EXCEPT !.kid = 0]
  /\ Publishes(<<Event("step", server.kid, "stop"), Event("idle", server.kid, "none")>>)
  /\ UNCHANGED <<oc, gate>>
StepEnds(finish) ==
  /\ Serving /\ server.loop = "inferring" /\ server.kid = 0
  /\ finish = "tool-calls" => server.assistants < MaxAssistant
  /\ (finish = "stop" /\ Newest > server.answering) => server.assistants < MaxAssistant
  /\ server' = [server EXCEPT !.loop = IF finish = "tool-calls" \/ Newest > server.answering
                                       THEN "reading" ELSE "leaving",
                              !.tooled = IF finish = "tool-calls" THEN @ \cup {server.assistants} ELSE @]
  /\ Publishes(<<Event("step", server.assistants, finish), Event("finish", server.assistants, finish)>>)
  /\ UNCHANGED <<oc, gate>>
\* The prompt that started the loop resolves.
Replies(outcome) ==
  /\ Serving /\ server.loop = "leaving" /\ server.reply = "awaited"
  /\ server' = [server EXCEPT !.reply = outcome, !.last = server.assistants]
  /\ UNCHANGED <<feed, oc, gate>>
Leaves ==
  /\ Serving /\ server.loop = "leaving" /\ server.reply # "awaited"
  /\ server' = [server EXCEPT !.loop = "idle"]
  /\ Publishes(<<Event("idle", 0, "none")>>)
  /\ UNCHANGED <<oc, gate>>
Crashes ==
  /\ Serving /\ server' = [server EXCEPT !.up = FALSE]
  /\ oc' = fail(oc) /\ UNCHANGED <<feed, gate>>
Server ==
  \/ Infers \/ Delegates \/ Returns \/ Crashes
  \/ \E m \in (-MaxAssistant)..MaxAssistant : Writes(m)
  \/ \E finish \in {"stop", "tool-calls"} : StepEnds(finish)
  \/ Leaves \/ \E outcome \in {"answered", "error"} : Replies(outcome)

-----------------------------------------------------------------------------
(***************************************************************************)
(* OpenCodeTranscript: one event, as a function of the job's state.        *)
(***************************************************************************)
\* An event in the scope of a child names it while it is open.
InScope(j, m) == m > 0 \/ j.children[-m] = "open"
sayTwice(j, m, phase) ==
  [j EXCEPT !.said = @ \cup {<<m, phase>>},
            !.stray = @ \/ ~InScope(j, m) \/ \E t \in j.said : t[1] = m]
\* claim: a part is announced once.
say(j, m, phase) == IF \E t \in j.said : t[1] = m THEN j ELSE sayTwice(j, m, phase)

phaseOf(finish) == IF finish = "tool-calls" THEN "commentary" ELSE "final_answer"
flushText(j, m, phase) ==
  IF m \in j.pendingText THEN [say(j, m, phase) EXCEPT !.pendingText = @ \ {m}] ELSE j
flushAll(j) ==
  [j EXCEPT !.said = @ \cup {<<m, "final_answer">> : m \in {p \in j.pendingText : ~\E t \in j.said : t[1] = p}},
            !.pendingText = {}]
openChild(j, m) == IF j.children[-m] = "none" THEN [j EXCEPT !.children[-m] = "open"] ELSE j
closeChild(j, m) ==
  IF j.children[-m] # "open" THEN j
  ELSE [flushText(j, m, "final_answer") EXCEPT !.children[-m] = "closed"]
collectText(j, m) ==
  IF (m < 0 /\ j.children[-m] = "none") \/ \E t \in j.said : t[1] = m THEN j
  ELSE [j EXCEPT !.pendingText = @ \cup {m}]

accepts(j, e) ==
  CASE e.type = "created" -> openChild(j, e.msg)
    [] e.type = "assistant" -> [j EXCEPT !.answered = @ \cup {e.detail}]
    [] e.type = "text" -> collectText(j, e.msg)
    [] e.type \in {"step", "finish"} -> flushText(j, e.msg, phaseOf(e.detail))
    [] e.type = "idle" /\ e.msg < 0 -> closeChild(j, e.msg)
    [] e.type = "echo" -> [j EXCEPT !.echoed = @ \/ e.msg = j.token]
    [] OTHER -> j
consumeFeed ==
  /\ oc.pc # "done" /\ feed # <<>> /\ ~oc.closing
  /\ feed' = Tail(feed) /\ oc' = accepts(oc, Head(feed))
  /\ UNCHANGED <<server, gate>>

-----------------------------------------------------------------------------
(***************************************************************************)
(* The turn                                                                *)
(***************************************************************************)
AtTurn(pc) == oc.pc = pc /\ ~oc.closing /\ oc.status \in Active /\ server.up

\* The prompt resolved; an error fails the turn.
prompted ==
  /\ AtTurn("prompting") /\ server.reply \in {"answered", "error"}
  /\ server' = [server EXCEPT !.reply = "none"]
  /\ oc' = IF server.reply = "error" THEN [fail(oc) EXCEPT !.pc = "done"]
           ELSE [oc EXCEPT !.pc = "idling", !.steered = @ \ oc.orphans, !.orphans = {}, !.answer = server.last]
  /\ UNCHANGED <<feed, gate>>
\* untilIdle: a probe that says busy, or fails, is tried again.
untilIdle ==
  /\ AtTurn("idling") /\ server.loop = "idle"
  /\ oc' = [oc EXCEPT !.pc = "settle"] /\ UNCHANGED <<server, feed, gate>>
\* barrier: a write to the session comes back through the feed; its wait is bounded.
barrier(pc) ==
  /\ oc' = [oc EXCEPT !.pc = pc, !.echoed = FALSE, !.token = @ + 1]
  /\ Publishes(<<Event("echo", oc.token + 1, "none")>>)
Caught(pc) == AtTurn(pc) /\ (oc.echoed \/ oc.late)
Times == AtTurn("settleBarrier") \/ AtTurn("lastBarrier")
timesOut ==
  /\ Times /\ ~oc.echoed /\ ~oc.late
  /\ oc' = [oc EXCEPT !.late = TRUE] /\ UNCHANGED <<server, feed, gate>>

\* settle, under the gate.
settle ==
  /\ AtTurn("settle") /\ gate = "free" /\ gate' = "turn"
  /\ IF oc.steered = {} THEN oc' = [oc EXCEPT !.pc = "orphans"] /\ UNCHANGED feed
     ELSE barrier("settleBarrier")
  /\ UNCHANGED server
settleCaught ==
  /\ Caught("settleBarrier") /\ oc' = [oc EXCEPT !.pc = "orphans"] /\ UNCHANGED <<server, feed, gate>>
\* What the loop did not answer is run again; with nothing left, later steers are refused.
orphans ==
  /\ AtTurn("orphans") /\ gate' = "free"
  /\ oc' = [oc EXCEPT !.steered = @ \ oc.answered, !.orphans = oc.steered \ oc.answered,
                      !.settling = oc.steered \subseteq oc.answered,
                      !.pc = IF oc.steered \subseteq oc.answered THEN "last" ELSE "rerun"]
  /\ UNCHANGED <<server, feed>>
\* The orphans leave the session and come back as one prompt.
rerun ==
  /\ AtTurn("rerun") /\ server.users < MaxUser
  /\ server' = [server EXCEPT !.deleted = @ \cup oc.orphans, !.users = @ + 1, !.loop = "reading",
                              !.reply = "awaited",
                              !.holds[server.users + 1] = UNION {server.holds[u] : u \in oc.orphans}]
  /\ oc' = [oc EXCEPT !.pc = "prompting"]
  /\ UNCHANGED <<feed, gate>>
last == AtTurn("last") /\ barrier("lastBarrier") /\ UNCHANGED <<server, gate>>
\* The feed caught up: children are closed, and what was not announced is the answer.
Said(j) ==
  LET closed == [flushAll(j) EXCEPT !.children = [k \in DOMAIN @ |-> IF @[k] = "open" THEN "closed" ELSE @[k]]]
  IN IF j.answer \in server.wrote THEN say(closed, j.answer, "final_answer") ELSE closed
turnEnds ==
  /\ Caught("lastBarrier")
  /\ oc' = [setStatus(Said(oc), "completed") EXCEPT !.pc = "done"]
  /\ UNCHANGED <<server, feed, gate>>

-----------------------------------------------------------------------------
(***************************************************************************)
(* Steering and cancellation                                               *)
(***************************************************************************)
\* steer: stored under the gate, unless the turn has settled.
steerStores ==
  /\ gate = "free" /\ Serving /\ ~oc.settling /\ oc.pc # "done" /\ server.users < MaxUser - 1
  /\ gate' = "steer"
  /\ server' = [server EXCEPT !.users = @ + 1, !.holds[server.users + 1] = {server.users + 1},
                              !.steer = server.users + 1]
  /\ UNCHANGED <<feed, oc>>
\* Its answer names the message, or is lost: the worker retries a steer it knows nothing of.
steerAdmitted(lost) ==
  /\ gate = "steer" /\ gate' = "free"
  /\ oc' = IF lost \/ ~server.up THEN oc
           ELSE [oc EXCEPT !.steered = @ \cup {server.steer}, !.admitted = @ \cup {server.steer}]
  /\ UNCHANGED <<server, feed>>
\* cancel: the server ends with the job's resources.
stopOpenCode ==
  /\ ~oc.closing /\ oc' = close(oc) /\ server' = [server EXCEPT !.up = FALSE]
  /\ feed' = <<>> /\ UNCHANGED gate

OpenCodeInit ==
  /\ server = [up |-> TRUE, users |-> 1, deleted |-> {}, loop |-> "reading", reply |-> "awaited",
               assistants |-> 0, answering |-> 0, worked |-> {}, wrote |-> {}, repeated |-> FALSE,
               kid |-> 0, kids |-> 0, tooled |-> {}, last |-> 0, steer |-> 0, holds |-> [u \in 1..MaxUser |-> {u}]]
  /\ feed = <<>> /\ gate = "free"
  /\ oc = [status |-> "running", cancelling |-> FALSE, closing |-> FALSE, pc |-> "prompting",
           steered |-> {}, admitted |-> {}, orphans |-> {}, answered |-> {}, settling |-> FALSE,
           echoed |-> FALSE, late |-> FALSE, children |-> [k \in 1..MaxAssistant |-> "none"],
           pendingText |-> {}, said |-> {}, stray |-> FALSE, answer |-> 0, token |-> 0]

OpenCodeNext ==
  \/ Server \/ consumeFeed
  \/ prompted \/ untilIdle \/ settle \/ settleCaught \/ orphans \/ rerun \/ last \/ turnEnds \/ timesOut
  \/ steerStores \/ \E lost \in BOOLEAN : steerAdmitted(lost)
  \/ stopOpenCode

-----------------------------------------------------------------------------
(***************************************************************************)
(* Properties                                                              *)
(***************************************************************************)
\* A steer that was admitted has been in an inference when the turn completes: answered by
\* the loop that ran, or found orphaned and run again, also when the feed is late.
SteerWorkedOn == oc.status = "completed" => oc.admitted \subseteq server.worked

\* A text part is announced once, and in the scope of a child only while that is open; a
\* turn whose feed caught up announced every part, as commentary when its step called
\* tools, and the answer of the last prompt is announced in any case.
PartsSaidOnce ==
  /\ ~oc.stray
  /\ oc.status = "completed" =>
       /\ {t[1] : t \in oc.said} \subseteq server.wrote
       /\ oc.answer \in server.wrote => \E t \in oc.said : t[1] = oc.answer
       /\ ~oc.late => oc.said = {<<m, IF m \in server.tooled THEN "commentary" ELSE "final_answer">> : m \in server.wrote}
=============================================================================
