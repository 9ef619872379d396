--------------------------- MODULE DurableMachine ---------------------------
(***************************************************************************)
(* packages/durable-machine: a state machine kept in the object's SQLite   *)
(* database, with an outbox of commands that run after the transaction     *)
(* that enqueued them.  A machine is its table (answer), the resources its *)
(* states hold and the timers its data implies; this module is the runtime *)
(* all machines share, as operators on the stored record:                  *)
(*                                                                         *)
(*   state   the current state, a record with field tag                    *)
(*   epoch   advances whenever the tag changes                             *)
(*   fired   the deadlines already fired since the tag was entered         *)
(*   outbox  the commands not yet done, in the order they were enqueued    *)
(*                                                                         *)
(* Outbox rows are removed by id in the code.  Only the first row is ever  *)
(* taken, one drain at a time, and new rows go to the end, so removing the *)
(* head removes the same row.                                              *)
(***************************************************************************)
EXTENDS Naturals, Sequences, FiniteSetsExt

CONSTANTS answer(_, _, _),   \* the table: [kind, to, commands] for (state, event, facts)
          isTerminal(_),     \* states that answer nothing
          holds(_),          \* the resources a state tag holds
          Resources,         \* the sequence of resources in release order
          release(_),        \* the command that releases a resource
          timers(_),         \* the deadlines of a state: a set of [event, at]
          RecoveryDelay,     \* how long a new command is left to its own request
          retryDelay(_),     \* the delay before a retry
          MaxFirings         \* bound on timer firings in one wake

\* The planned commands: the table's own, then the releases.
Planned(commands, released) ==
  [i \in 1..Len(commands) |-> [command |-> commands[i], release |-> FALSE]]
    \o [i \in 1..Len(released) |->
          [command |-> release(released[i]), release |-> TRUE]]

\* The resources of a set in release order.
ordered(kept) ==
  LET at == {i \in 1..Len(Resources) : Resources[i] \in kept}
  IN [n \in 1..Cardinality(at) |->
        Resources[CHOOSE i \in at : Cardinality({j \in at : j <= i}) = n]]

\* Machine.step: the next state and the commands it plans.  Leaving the
\* holder of a resource for a state that does not hold it releases it.
step(state, event, facts) ==
  LET reply    == answer(state, event, facts)
      released == ordered(holds(state.tag) \ holds(reply.to.tag))
  IN IF isTerminal(state.tag) \/ reply.kind # "move"
     THEN [moved |-> FALSE]
     ELSE [moved |-> TRUE, to |-> reply.to,
           commands |-> Planned(reply.commands, released)]

\* transition: one event inside the caller's transaction.
transition(rec, event, facts, now) ==
  LET s       == step(rec.state, event, facts)
      entered == s.to.tag # rec.state.tag
      epoch   == IF entered THEN rec.epoch + 1 ELSE rec.epoch
  IN IF ~s.moved THEN rec
     ELSE [state  |-> s.to,
           epoch  |-> epoch,
           fired  |-> IF entered THEN {} ELSE rec.fired,
           outbox |-> rec.outbox \o [i \in 1..Len(s.commands) |->
             [command |-> s.commands[i].command, epoch |-> epoch,
              release |-> s.commands[i].release, attempts |-> 0,
              due |-> now + RecoveryDelay]]]

pendingTimers(rec) == timers(rec.state) \ rec.fired

\* The time this machine must run next, as a set of at most one element (the
\* code's null is the empty set).  Only the first command decides when the
\* outbox can move.
nextWake(rec) ==
  LET times == {timer.at : timer \in pendingTimers(rec)}
                 \cup (IF rec.outbox = <<>> THEN {} ELSE {Head(rec.outbox).due})
  IN IF times = {} THEN {} ELSE {Min(times)}

\* take: what a drain does with the first command.
take(rec, now) ==
  IF rec.outbox = <<>> THEN "Idle"
  ELSE LET entry == Head(rec.outbox) IN
       IF ~entry.release /\ entry.epoch # rec.epoch THEN "Skipped"
       ELSE IF entry.attempts > 0 /\ entry.due > now THEN "Idle"
       ELSE "Run"

removed(rec) == [rec EXCEPT !.outbox = Tail(@)]

\* runOne, the handler succeeded without an event, or with one that counts
\* only in the epoch that enqueued the command.
succeeded(rec) == removed(rec)
succeededWith(rec, event, facts, now) ==
  IF rec.epoch # Head(rec.outbox).epoch THEN removed(rec)
  ELSE transition(removed(rec), event, facts, now)

\* runOne, the handler failed: the command keeps its place and is retried.
failed(rec, now) ==
  LET attempt == Head(rec.outbox).attempts + 1 IN
  [rec EXCEPT !.outbox = <<[Head(@) EXCEPT !.attempts = attempt,
                                           !.due = now + retryDelay(attempt)]>>
                           \o Tail(@)]

\* fireTimers: the earliest due timer is marked before its event is applied.
fireTimer(rec, facts, now) ==
  LET due == {timer \in pendingTimers(rec) : timer.at <= now} IN
  IF due = {} THEN rec
  ELSE LET timer  == CHOOSE t \in due : \A u \in due : t.at <= u.at
           marked == [rec EXCEPT !.fired =
                        {t \in @ : t.event # timer.event} \cup {timer}]
       IN transition(marked, [type |-> timer.event], facts, now)
fireTimers(rec, factsOf(_), now) ==
  LET after[n \in 0..MaxFirings] ==
        IF n = 0 THEN rec
        ELSE fireTimer(after[n - 1], factsOf(after[n - 1]), now)
  IN after[MaxFirings]
=============================================================================
