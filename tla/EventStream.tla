---------------------------- MODULE EventStream ----------------------------
(***************************************************************************)
(* The event streams of a SessionDO (session.ts): live streams that read   *)
(* pages of the stored log and sleep until a commit wakes them, creation   *)
(* streams that end with the initial turn, and the replay of the log.      *)
(*                                                                         *)
(* The wake-up is published after the commit, as a step of its own.  Every *)
(* await of a stream's fiber is a step.  The object may be evicted, which  *)
(* ends every stream and forgets every wake-up; the log is durable.        *)
(*                                                                         *)
(* The client is external: it opens a live stream, replays the log from    *)
(* the last event it has seen until nothing is left, and then takes the    *)
(* events of its stream, skipping the ones it has seen.                    *)
(***************************************************************************)
EXTENDS Naturals, Sequences, FiniteSets

CONSTANTS Client,
          LISTENER_LIMIT,  \* live streams of one object
          EVENT_PAGE,      \* events read at once
          MaxEvent,        \* bound on the log
          MaxFault         \* bound on evictions and on clients that go away

ASSUME StreamAssumption ==
  /\ IsFiniteSet(Client)
  /\ LISTENER_LIMIT \in Nat /\ EVENT_PAGE \in Nat \ {0} /\ MaxEvent \in Nat /\ MaxFault \in Nat

VARIABLES log,     \* the events of the session
          session, \* the session record
          wakes,   \* commits whose wake-up is not published yet
          stream,  \* the stream of each client
          client,  \* what each client has seen
          faults

vars == <<log, session, wakes, stream, client, faults>>

Off == [pc |-> "off", cursor |-> 0, rows |-> <<>>, tick |-> FALSE, initial |-> FALSE]
Live == {"reading", "waiting", "sending"}
Holders == {c \in Client : stream[c].pc \in Live}
Following(c) == stream[c].pc \in Live /\ client[c].caughtUp

-----------------------------------------------------------------------------
(***************************************************************************)
(* Transactions of the object: each appends events, and wakes later.       *)
(***************************************************************************)
\* wakeAfterCommit
Committed(events) ==
  /\ Len(log) + Len(events) <= MaxEvent
  /\ log' = log \o events /\ wakes' = wakes + 1
  /\ UNCHANGED <<stream, client, faults>>

Input ==
  /\ ~session.deleted /\ ~session.execution
  /\ session' = [session EXCEPT !.execution = TRUE, !.turns = @ + 1]
  /\ Committed(<<"in_progress">>)
Output ==
  /\ session.execution /\ UNCHANGED session
  /\ Committed(<<"output">>)
Settle ==
  /\ session.execution
  /\ session' = [session EXCEPT !.execution = FALSE]
  /\ Committed(<<"turn", "idle">>)

\* PubSub.publish on a sliding queue of one: a listener has at most one tick.
Publish(s) == IF s.pc \in Live THEN [s EXCEPT !.tick = TRUE] ELSE s
Wake ==
  /\ wakes > 0 /\ wakes' = wakes - 1
  /\ stream' = [c \in Client |-> Publish(stream[c])]
  /\ UNCHANGED <<log, session, client, faults>>

\* delete: the record, then the streams; purge follows, once or on a retry.
Delete ==
  /\ ~session.execution /\ ~session.deleted
  /\ session' = [session EXCEPT !.deleted = TRUE]
  /\ wakes' = wakes + 1
  /\ UNCHANGED <<log, stream, client, faults>>
CloseStreams ==
  /\ session.deleted
  /\ stream' = [c \in Client |-> Off]
  /\ UNCHANGED <<log, session, wakes, client, faults>>
Purge ==
  /\ session.deleted /\ \A c \in Client : stream[c] = Off
  /\ log' = <<>>
  /\ UNCHANGED <<session, wakes, stream, client, faults>>

-----------------------------------------------------------------------------
(***************************************************************************)
(* A stream.                                                               *)
(***************************************************************************)
\* stream: refused over the limit; the cursor is the tail, or 0 for a creation stream.
Open(c, initial) ==
  /\ ~session.deleted /\ stream[c].pc = "off"
  /\ initial => client[c].seen = 0
  /\ Cardinality(Holders) < LISTENER_LIMIT
  /\ stream' = [stream EXCEPT ![c] = [Off EXCEPT !.pc = "starting", !.initial = initial,
                                                 !.cursor = IF initial THEN 0 ELSE Len(log)]]
  /\ client' = [client EXCEPT ![c].caughtUp = initial,
                              ![c].given = initial /\ session.turns > 0]
  /\ UNCHANGED <<log, session, wakes, faults>>

\* The fiber takes its permit and subscribes before the first read.  Another stream
\* may have taken the permit since the probe: the fiber then waits for the next one.
Begin(c) ==
  /\ stream[c].pc = "starting" /\ Cardinality(Holders) < LISTENER_LIMIT
  /\ stream' = [stream EXCEPT ![c].pc = "reading"]
  /\ UNCHANGED <<log, session, wakes, client, faults>>

\* store.events(after, limit)
events(after, limit) ==
  [i \in 1..(IF Len(log) - after < limit THEN Len(log) - after ELSE limit) |-> after + i]

ReadPageFromTail(c) ==
  LET rows == events(stream[c].cursor, EVENT_PAGE)
  IN /\ stream[c].pc = "reading"
     /\ stream' = IF rows = <<>> THEN [stream EXCEPT ![c].pc = "waiting"]
                  ELSE [stream EXCEPT ![c].pc = "sending", ![c].rows = rows,
                                      ![c].cursor = Len(log)]
     /\ UNCHANGED <<log, session, wakes, client, faults>>
\* One page, or a wait for the next wake-up.
ReadPage(c) ==
  LET rows == events(stream[c].cursor, EVENT_PAGE)
  IN /\ stream[c].pc = "reading"
     /\ stream' = IF rows = <<>> THEN [stream EXCEPT ![c].pc = "waiting"]
                  ELSE [stream EXCEPT ![c].pc = "sending", ![c].rows = rows,
                                      ![c].cursor = rows[Len(rows)]]
     /\ UNCHANGED <<log, session, wakes, client, faults>>
TakeTick(c) ==
  /\ stream[c].pc = "waiting" /\ stream[c].tick
  /\ stream' = [stream EXCEPT ![c].pc = "reading", ![c].tick = FALSE]
  /\ UNCHANGED <<log, session, wakes, client, faults>>

\* initialSettled reads the record when the event is sent, not when it was committed.
initialSettledNoTurns(event) == event = "idle" \/ (event = "created" /\ ~session.execution)
initialSettled(event) ==
  event = "idle" \/ (event = "created" /\ ~session.execution /\ session.turns = 0)

\* The client pulls one event; what it has seen it skips.
Send(c) ==
  LET seq == Head(stream[c].rows)
      rest == Tail(stream[c].rows)
  IN /\ stream[c].pc = "sending" /\ client[c].caughtUp
     /\ stream' = [stream EXCEPT
          ![c].rows = rest,
          ![c].pc = IF stream[c].initial /\ initialSettled(log[seq]) THEN "ended"
                    ELSE IF rest = <<>> THEN "reading" ELSE "sending"]
     /\ client' = [client EXCEPT ![c].seen = IF seq > @ THEN seq ELSE @]
     /\ UNCHANGED <<log, session, wakes, faults>>

\* replay: a page from the last event seen; an empty one ends the catching up.
Replay(c) ==
  LET rows == events(client[c].seen, 1)
  IN /\ ~session.deleted /\ ~client[c].caughtUp
     /\ stream[c].pc \in Live \cup {"starting"}
     /\ client' = IF rows = <<>> THEN [client EXCEPT ![c].caughtUp = TRUE]
                  ELSE [client EXCEPT ![c].seen = rows[1]]
     /\ UNCHANGED <<log, session, wakes, stream, faults>>

\* The client goes away: the scope of the stream releases permit and subscription.
Cancel(c) ==
  /\ stream[c].pc # "off" /\ (stream[c].pc = "ended" \/ faults < MaxFault)
  /\ faults' = IF stream[c].pc = "ended" THEN faults ELSE faults + 1
  /\ stream' = [stream EXCEPT ![c] = Off]
  /\ client' = [client EXCEPT ![c].caughtUp = FALSE]
  /\ UNCHANGED <<log, session, wakes>>

Evict ==
  /\ faults < MaxFault /\ faults' = faults + 1
  /\ wakes' = 0
  /\ stream' = [c \in Client |-> Off]
  /\ client' = [c \in Client |-> [client[c] EXCEPT !.caughtUp = FALSE]]
  /\ UNCHANGED <<log, session>>

\* A session is created with or without its first input.
Init ==
  /\ session \in {[deleted |-> FALSE, execution |-> b, turns |-> IF b THEN 1 ELSE 0] :
                    b \in BOOLEAN}
  /\ log = IF session.execution THEN <<"created", "in_progress">> ELSE <<"created">>
  /\ wakes = 0 /\ faults = 0
  /\ stream = [c \in Client |-> Off]
  /\ client = [c \in Client |-> [seen |-> 0, caughtUp |-> FALSE, given |-> FALSE]]

Fiber(c) == Begin(c) \/ ReadPage(c) \/ TakeTick(c) \/ Send(c)

Next ==
  \/ Input \/ Output \/ Settle \/ Wake
  \/ Delete \/ CloseStreams \/ Purge \/ Evict
  \/ \E c \in Client, initial \in BOOLEAN : Open(c, initial)
  \/ \E c \in Client : Fiber(c) \/ Replay(c) \/ Cancel(c)

\* A fiber that can run runs, and a connected client pulls.
Fairness == WF_vars(Wake) /\ \A c \in Client : WF_vars(Fiber(c))

Spec == Init /\ [][Next]_vars /\ Fairness

-----------------------------------------------------------------------------
\* A client that skips what it has seen, and follows, is joined.
F == INSTANCE Feed WITH
       open <- ~session.deleted,
       seen <- [c \in Client |-> client[c].seen],
       joined <- {c \in Client : Following(c)}

\* The streams implement the feed: whatever connections, evictions and pages do, a
\* client sees every event once and in order, and a client that follows is never left
\* waiting for a wake-up that was published before it slept.
ImplementsFeed == F!Spec

\* A creation stream of a session created with input ends by itself only after the
\* event that settles the initial turn, although the turn may settle before the
\* stream has sent its first event.
CreationStreamCoversTurn ==
  \A c \in Client :
    stream[c].pc = "ended" /\ client[c].given =>
      \E i \in 1..client[c].seen : log[i] = "idle"
=============================================================================
