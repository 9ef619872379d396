----------------------------- MODULE Delegation -----------------------------
(***************************************************************************)
(* Delegated subagents.  A parent's supervisor (supervisor/delegation.ts)  *)
(* asks its own HarnessDO (containers/delegation.ts) to start children;    *)
(* each child runs in a HarnessDO and a container of its own and shares    *)
(* the parent's sandbox.  The supervisor polls each child and relays its   *)
(* events under the child's ids, waits for its children before the parent  *)
(* completes, and cancels them with the parent.  The HarnessDO keeps one   *)
(* row per child, and stops the children that its rows say are live when   *)
(* the turn is stopped (containers.ts, stopAttempt).                       *)
(*                                                                         *)
(* Every request between the two is bounded by a timeout at the supervisor *)
(* only: the HarnessDO goes on with a request nobody waits for.  A child   *)
(* is an abstract worker that says text, calls a client function and ends. *)
(***************************************************************************)
EXTENDS Naturals, FiniteSets, Sequences

CONSTANTS
    Agents,     \* the ids a spawn request may be given
    Limits,     \* values of maxConcurrentSubagents an execution may carry
    MaxEvents   \* bound on the events of each child

ASSUME DelegationAssumption == Limits \subseteq Nat \ {0} /\ MaxEvents \in [Agents -> Nat]

VARIABLES
    limit,      \* execution.maxConcurrentSubagents
    task,       \* the parent's job, as its own log shows it
    asked,      \* spawn calls whose answer the supervisor still waits for
    spawn,      \* how far the HarnessDO is with each spawn request
    kid,        \* the supervisor's Child records
    said,       \* what the supervisor made of each child: emissions and events passed over
    poll,       \* the poll of each child: none, on its way, refused or answered
    closing,    \* children a cf_close waits for
    turn,       \* the HarnessDO's assignment: which turn, revoked or not
    row,        \* the HarnessDO's child rows: absent, live or a terminal batch
    stops,      \* children the running stopAttempt has yet to stop
    stopped,    \* the parent's turn was stopped to the end
    work,       \* each child's own execution
    log,        \* each child's own events
    unstopped   \* children whose stop failed (the failure is only logged)

delegationVars == <<limit, task, asked, spawn, kid, said, poll, closing, turn,
                    row, stops, stopped, work, log, unstopped>>

\* What a poll calls terminal; a child that is gone reads as missing, which fails it.
Ended == {"completed", "failed", "cancelled", "uncertain"}
Busy == {"starting", "working", "waiting"}

NoKid == [status |-> "none", cursor |-> 0, closed |-> FALSE, pending |-> FALSE]
NoPoll == [at |-> "idle", batch |-> <<>>]
Live == [status |-> "live", batch |-> <<>>]
NoRow == [status |-> "none", batch |-> <<>>]

DelegationInit ==
    /\ limit \in Limits
    /\ task = "working" /\ asked = {} /\ closing = {}
    /\ spawn = [a \in Agents |-> "none"]
    /\ kid = [a \in Agents |-> NoKid]
    /\ said = [a \in Agents |-> <<>>]
    /\ poll = [a \in Agents |-> NoPoll]
    /\ turn = [id |-> 1, revoked |-> FALSE]
    /\ row = [a \in Agents |-> NoRow]
    /\ stops = {} /\ stopped = FALSE
    /\ work = [a \in Agents |-> "none"]
    /\ log = [a \in Agents |-> <<>>]
    /\ unstopped = {}

supervisorVars == <<limit, task, asked, kid, said, closing>>
harnessVars == <<turn, row, stops, stopped>>
childVars == <<work, log, unstopped>>

-----------------------------------------------------------------------------
(* The supervisor's records                                                *)

active == {a \in Agents : kid[a].status = "in_progress"}
Sealed == {"completed", "failed", "cancelled", "gone"}

\* terminate and closeRecord, on the records k and the emissions s: the child's
\* turn closes, then its record unless cf_close closed it before.
Closed(s, k) == IF k.closed THEN s ELSE Append(s, "closed")
terminate(A, status) ==
    /\ kid' = [a \in Agents |-> IF a \in A
                  THEN [kid[a] EXCEPT !.status = status, !.closed = TRUE, !.pending = FALSE]
                  ELSE kid[a]]
    /\ said' = [a \in Agents |-> IF a \in A
                  THEN Closed(Append(said[a], "turnClosed"), kid[a]) ELSE said[a]]

-----------------------------------------------------------------------------
(* cf_delegate: the supervisor asks, the HarnessDO reserves and starts     *)

\* Delegations.spawn up to its request.
SpawnAsk(a) ==
    /\ task = "working" /\ spawn[a] = "none"
    /\ Cardinality(active) < limit
    /\ asked' = asked \cup {a}
    /\ spawn' = [spawn EXCEPT ![a] = "sent"]
    /\ UNCHANGED <<limit, task, kid, said, closing, poll, harnessVars, childVars>>

\* delegateRequest reads the assignment before the body arrives.
delegateRequest(a) ==
    /\ spawn[a] = "sent"
    /\ spawn' = [spawn EXCEPT ![a] =
                    IF turn.revoked \/ turn.id # 1 THEN "refused" ELSE "arrived"]
    /\ UNCHANGED <<supervisorVars, poll, harnessVars, childVars>>

LiveRows == {a \in Agents : row[a].status = "live"}

\* A reservation that leaves the limit to the supervisor's count.
reservedUncounted(a) == ~turn.revoked /\ turn.id = 1

\* The assignment is read again and the live rows are counted in the transaction.
reserved(a) == ~turn.revoked /\ turn.id = 1 /\ Cardinality(LiveRows) < limit

\* The transaction of spawnChild: superseded, over the limit, or reserved; the
\* start of the child is then on its way.
Reserve(a) ==
    /\ spawn[a] = "arrived"
    /\ IF reserved(a)
         THEN /\ row' = [row EXCEPT ![a] = Live]
              /\ work' = [work EXCEPT ![a] = "starting"]
              /\ spawn' = [spawn EXCEPT ![a] = "starting"]
         ELSE /\ spawn' = [spawn EXCEPT ![a] = "refused"]
              /\ UNCHANGED <<row, work>>
    /\ UNCHANGED <<supervisorVars, poll, turn, stops, stopped, log, unstopped>>

\* startExecution answers; a child that was stopped meanwhile had started.
ChildStarted(a) ==
    /\ spawn[a] = "starting"
    /\ work[a] \in {"starting", "stopped"}
    /\ work' = [work EXCEPT ![a] = IF @ = "starting" THEN "working" ELSE @]
    /\ spawn' = [spawn EXCEPT ![a] = "started"]
    /\ UNCHANGED <<supervisorVars, poll, harnessVars, log, unstopped>>

\* startExecution fails, which says nothing of the child: the row is terminal
\* before the child is stopped, and the stop's own failure is ignored.
StartFails(a) ==
    /\ spawn[a] = "starting"
    /\ spawn' = [spawn EXCEPT ![a] = "refused"]
    /\ row' = [row EXCEPT ![a] = [status |-> "failed", batch |-> <<>>]]
    /\ \/ /\ work' = [work EXCEPT ![a] = "stopped"]
          /\ UNCHANGED unstopped
       \/ /\ work[a] = "starting"
          /\ work' = [work EXCEPT ![a] = "working"]
          /\ unstopped' = unstopped \cup {a}
    /\ UNCHANGED <<supervisorVars, poll, turn, stops, stopped, log>>

\* The answer reaches the supervisor: the child is opened and followed.
SpawnTold(a) ==
    /\ a \in asked /\ spawn[a] = "started" /\ task \notin Sealed
    /\ asked' = asked \ {a}
    /\ kid' = [kid EXCEPT ![a].status = "in_progress"]
    /\ said' = [said EXCEPT ![a] = <<"opened", "turnOpened">>]
    /\ UNCHANGED <<limit, task, spawn, poll, closing, harnessVars, childVars>>

\* A refusal, an error or requestMs: the agent is told the child did not start.
SpawnGivenUp(a) ==
    /\ a \in asked
    /\ asked' = asked \ {a}
    /\ UNCHANGED <<limit, task, spawn, kid, said, poll, closing, harnessVars, childVars>>

-----------------------------------------------------------------------------
(* follow: poll, relay, terminate                                          *)

PollAsk(a) ==
    /\ a \in active /\ poll[a].at = "idle" /\ task \notin Sealed
    /\ poll' = [poll EXCEPT ![a] = [at |-> "sent", batch |-> <<>>]]
    /\ UNCHANGED <<supervisorVars, spawn, harnessVars, childVars>>

\* The child's own page after the cursor, or the one stored with its row.
BatchOf(a) ==
    IF row[a].status # "live" THEN row[a].batch
    ELSE [status |-> IF work[a] \in Ended THEN work[a]
                     ELSE IF work[a] = "stopped" THEN "failed" ELSE "running",
          from |-> kid[a].cursor,
          events |-> SubSeq(log[a], kid[a].cursor + 1, Len(log[a]))]

\* delegateRequest, GET.  A terminal batch is stored with the row before the child's
\* container is stopped; a stop that fails, or that an eviction cuts off, is not repeated.
PollServed(a) ==
    /\ poll[a].at = "sent"
    /\ IF turn.revoked \/ turn.id # 1
         THEN /\ poll' = [poll EXCEPT ![a].at = "refused"]
              /\ UNCHANGED <<row, work, unstopped>>
         ELSE LET b == BatchOf(a) IN
              /\ poll' = [poll EXCEPT ![a] = [at |-> "answered", batch |-> b]]
              /\ IF b.status = "running" \/ row[a].status # "live"
                   THEN UNCHANGED <<row, work, unstopped>>
                   ELSE /\ row' = [row EXCEPT ![a] = [status |-> b.status, batch |-> b]]
                        /\ \/ /\ work' = [work EXCEPT ![a] = "stopped"]
                              /\ UNCHANGED unstopped
                           \/ /\ unstopped' = unstopped \cup {a}
                              /\ UNCHANGED work
    /\ UNCHANGED <<supervisorVars, spawn, turn, stops, stopped, log>>

\* What a relay hears that leaves out the last page.
freshRunning(a, b) ==
    IF b.status = "running" THEN SubSeq(b.events, kid[a].cursor - b.from + 1, Len(b.events))
    ELSE <<>>

\* The events of a batch the cursor has not passed.
fresh(a, b) == SubSeq(b.events, kid[a].cursor - b.from + 1, Len(b.events))

\* relay: a child's own subagents are not projected and leave only their place.
relay(s) == [n \in DOMAIN s |-> IF s[n] = "nested" THEN "passedOver" ELSE s[n]]

Outcome(status) == IF status = "uncertain" THEN "failed" ELSE status

\* follow: relay what is new, then terminate on a terminal batch.  Code whose effects
\* are uncertain fails the parent.
PollTold(a) ==
    /\ poll[a].at = "answered" /\ a \in active /\ task \notin Sealed
    /\ poll' = [poll EXCEPT ![a] = NoPoll]
    /\ LET b == poll[a].batch
           new == relay(fresh(a, b))
           heard == [kid[a] EXCEPT !.cursor = @ + Len(new),
                                   !.pending =
                                       IF \E n \in DOMAIN new : new[n] = "call" THEN TRUE ELSE @]
           relayed == said[a] \o new
       IN IF b.status = "running"
            THEN /\ kid' = [kid EXCEPT ![a] = heard]
                 /\ said' = [said EXCEPT ![a] = relayed]
                 /\ UNCHANGED task
            ELSE /\ kid' = [kid EXCEPT ![a] = [heard EXCEPT
                        !.status = Outcome(b.status), !.closed = TRUE, !.pending = FALSE]]
                 /\ said' = [said EXCEPT ![a] = Closed(Append(relayed, "turnClosed"), kid[a])]
                 /\ task' = IF b.status = "uncertain" THEN "failed" ELSE task
    /\ UNCHANGED <<limit, asked, spawn, closing, harnessVars, childVars>>

\* The poll is refused, breaks or runs into requestMs: no second attempt.
PollFails(a) ==
    /\ poll[a].at # "idle"
    /\ IF a \in active /\ task \notin Sealed THEN terminate({a}, "failed")
       ELSE UNCHANGED <<kid, said>>
    /\ poll' = [poll EXCEPT ![a] = NoPoll]
    /\ UNCHANGED <<limit, task, asked, spawn, closing, harnessVars, childVars>>

-----------------------------------------------------------------------------
(* Controlling a child                                                     *)

\* A client's answer to a call of the child: applied, or refused with 409 because
\* the row is terminal.  Any other failure keeps the call and is retried.
routeToolResult(a) ==
    /\ a \in active /\ kid[a].pending /\ task \notin Sealed
    /\ ~turn.revoked /\ turn.id = 1
    /\ \/ /\ row[a].status = "live" /\ work[a] = "waiting"
          /\ work' = [work EXCEPT ![a] = "working"]
       \/ /\ row[a].status # "live"
          /\ UNCHANGED work
    /\ kid' = [kid EXCEPT ![a].pending = FALSE]
    /\ UNCHANGED <<limit, task, asked, spawn, said, poll, closing, harnessVars, log, unstopped>>

\* requestCancel for the children A: each request reaches its child or is lost.
Cancellable(A) == {a \in A : row[a].status = "live" /\ work[a] \in {"working", "waiting"}}
requestCancel(A) ==
    \E reached \in SUBSET (IF turn.revoked \/ turn.id # 1 THEN {} ELSE Cancellable(A)) :
        work' = [a \in Agents |-> IF a \in reached THEN "cancelled" ELSE work[a]]

\* cf_close: cancel the child and wait for the relay to see it.
Close(a) ==
    /\ task = "working" /\ a \in active \ closing
    /\ closing' = closing \cup {a}
    /\ requestCancel({a})
    /\ UNCHANGED <<limit, task, asked, spawn, kid, said, poll, harnessVars, log, unstopped>>

\* The child settled, or requestMs passed: its record is closed either way.
CloseEnds(a) ==
    /\ a \in closing /\ task \notin Sealed
    /\ closing' = closing \ {a}
    /\ kid' = [kid EXCEPT ![a].closed = TRUE]
    /\ said' = [said EXCEPT ![a] = Closed(@, kid[a])]
    /\ UNCHANGED <<limit, task, asked, spawn, poll, harnessVars, childVars>>

-----------------------------------------------------------------------------
(* The end of the parent's turn at the supervisor                          *)

\* The runtime's own task ends; its tool calls were answered before.
TaskEnds ==
    /\ task = "working" /\ asked = {} /\ closing = {}
    /\ task' = "settling"
    /\ UNCHANGED <<limit, asked, spawn, kid, said, poll, closing, harnessVars, childVars>>

\* A parent that does not wait for its children.
AtOnce == TRUE

AllSettled == active = {}

\* settle, then setStatus("completed").
settle ==
    /\ task = "settling" /\ AllSettled
    /\ task' = "completed"
    /\ UNCHANGED <<limit, asked, spawn, kid, said, poll, closing, harnessVars, childVars>>

\* The stop sequence: cancellation is requested of every active child ...
CancelTurn ==
    /\ task \in {"working", "settling"}
    /\ task' = "cancelling"
    /\ requestCancel(active)
    /\ UNCHANGED <<limit, asked, spawn, kid, said, poll, closing, harnessVars, log, unstopped>>

\* ... the rest of cancelAll runs when they settled or settleMs passed ...
cancelAll ==
    /\ task = "cancelling"
    /\ terminate(active, "cancelled")
    /\ task' = "interrupting"
    /\ UNCHANGED <<limit, asked, spawn, poll, closing, harnessVars, childVars>>

\* ... the native turn is interrupted, then the log is sealed.
Seal ==
    /\ task = "interrupting"
    /\ task' = "cancelled"
    /\ asked' = {} /\ closing' = {}
    /\ UNCHANGED <<limit, spawn, kid, said, poll, harnessVars, childVars>>

-----------------------------------------------------------------------------
(* The HarnessDO ends the turn                                             *)

\* stopAttempt revokes the latest record and lists the live children.
StopTurn ==
    /\ turn.id = 1 /\ stops = {} /\ ~stopped
    /\ turn' = [turn EXCEPT !.revoked = TRUE]
    /\ stops' = LiveRows
    /\ stopped' = (LiveRows = {})
    /\ task' = IF LiveRows = {} /\ task \notin Sealed THEN "gone" ELSE task
    /\ UNCHANGED <<limit, asked, spawn, kid, said, poll, closing, row, childVars>>

\* One child is stopped, or its stop fails and is ignored; after the last one the
\* supervisor's own container goes.
StopChild(a) ==
    /\ a \in stops
    /\ \/ /\ work' = [work EXCEPT ![a] = "stopped"]
          /\ UNCHANGED unstopped
       \/ /\ unstopped' = unstopped \cup {a}
          /\ UNCHANGED work
    /\ stops' = stops \ {a}
    /\ stopped' = (stops = {a})
    /\ task' = IF stops = {a} /\ task \notin Sealed THEN "gone" ELSE task
    /\ UNCHANGED <<limit, asked, spawn, kid, said, poll, closing, turn, row, log>>

\* The next turn's assignment replaces the record and has no children.
NextParentTurn ==
    /\ turn.id = 1 /\ stopped
    /\ turn' = [id |-> 2, revoked |-> FALSE]
    /\ UNCHANGED <<supervisorVars, spawn, poll, row, stops, stopped, childVars>>

\* The HarnessDO is evicted: its handlers die with it, and their callers are told.
EvictParent ==
    /\ spawn' = [a \in Agents |-> IF spawn[a] \in {"arrived", "starting"} THEN "refused"
                                  ELSE spawn[a]]
    /\ stops' = {}
    /\ <<spawn, stops>>' # <<spawn, stops>>
    /\ work' = [a \in Agents |-> IF spawn[a] = "starting" /\ work[a] = "starting" THEN "working"
                                 ELSE work[a]]
    /\ UNCHANGED <<supervisorVars, poll, turn, row, stopped, log, unstopped>>

-----------------------------------------------------------------------------
(* The children (external: each is another supervisor)                     *)

\* Events that nobody can relay any more are left out of the log.
Heard(a) == task \notin Sealed /\ (a \in active \/ a \in asked)

ChildSays(a) ==
    /\ work[a] = "working" /\ Len(log[a]) < MaxEvents[a] /\ Heard(a)
    /\ \E e \in {"text", "call", "nested"} :
         /\ log' = [log EXCEPT ![a] = Append(@, e)]
         /\ work' = [work EXCEPT ![a] = IF e = "call" THEN "waiting" ELSE @]
    /\ UNCHANGED <<supervisorVars, spawn, poll, harnessVars, unstopped>>

ChildEnds(a) ==
    /\ work[a] \in {"working", "waiting"}
    /\ \E e \in {"completed", "failed", "uncertain"} :
         /\ e = "completed" => work[a] = "working"
         /\ e # "failed" => Heard(a)
         /\ work' = [work EXCEPT ![a] = e]
    /\ UNCHANGED <<supervisorVars, spawn, poll, harnessVars, log, unstopped>>

Spawning(a) ==
    \/ SpawnAsk(a) \/ delegateRequest(a) \/ Reserve(a) \/ ChildStarted(a)
    \/ StartFails(a) \/ SpawnTold(a) \/ SpawnGivenUp(a)

Following(a) ==
    \/ PollAsk(a) \/ PollServed(a) \/ PollTold(a) \/ PollFails(a)

Controlling(a) ==
    \/ routeToolResult(a) \/ Close(a) \/ CloseEnds(a) \/ StopChild(a)
    \/ ChildSays(a) \/ ChildEnds(a)

DelegationNext ==
    \/ \E a \in Agents : Spawning(a) \/ Following(a) \/ Controlling(a)
    \/ TaskEnds \/ settle \/ CancelTurn \/ cancelAll \/ Seal
    \/ StopTurn \/ NextParentTurn \/ EvictParent

DelegationSpec == DelegationInit /\ [][DelegationNext]_delegationVars

-----------------------------------------------------------------------------
(* Properties                                                              *)

\* What the supervisor said of a child beside what it says of every child.
Relayed(a) == {i \in DOMAIN said[a] : said[a][i] \in {"text", "call", "passedOver"}}

\* The relay is the child's own log in order, without gap or repeat, however its
\* pages overlap: the nth thing relayed is the nth event.  And a child recorded as
\* completed was relayed to its end although its container is gone when the last page
\* is read.
RelayedWhole ==
    \A a \in Agents :
        /\ \A i \in Relayed(a) :
              LET n == Cardinality({j \in Relayed(a) : j <= i})
              IN n \in DOMAIN log[a] /\ said[a][i] = relay(log[a])[n]
        /\ kid[a].status = "completed" => Cardinality(Relayed(a)) = Len(log[a])

Times(s, e) == Cardinality({i \in DOMAIN s : s[i] = e})

\* A parent that reads completed has closed the turn and the record of every child
\* it opened, each exactly once, and nothing of a child follows the close of its
\* turn except its record: settle, terminate and closeRecord against polls that
\* fail, a cf_close that gives up and late answers.
ChildrenSettleFirst ==
    \A a \in Agents :
        /\ Times(said[a], "turnClosed") <= 1 /\ Times(said[a], "closed") <= 1
        /\ \A i, j \in DOMAIN said[a] :
               said[a][i] = "turnClosed" /\ i < j => said[a][j] = "closed"
        /\ task = "completed" /\ said[a] # <<>> =>
               Times(said[a], "turnClosed") = 1 /\ Times(said[a], "closed") = 1

\* Overlapping spawns never leave more live children than the execution allows.
ChildLimit == Cardinality(LiveRows) <= limit

\* Once the turn is stopped, only a child whose own stop failed still works: not
\* one that was reserved while the turn was being stopped, nor one that starts late.
StoppedMeansStopped ==
    stopped => \A a \in Agents : work[a] \in Busy => a \in unstopped

\* At every moment at most the allowed children live, and none past the stop of its turn.
ChildrenBounded == ChildLimit /\ StoppedMeansStopped

\* "Parents complete after their children stop."
NoChildOutlivesTurn ==
    task = "completed" => \A a \in Agents : work[a] \notin Busy
=============================================================================
