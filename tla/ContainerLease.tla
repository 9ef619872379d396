--------------------------- MODULE ContainerLease ---------------------------
(***************************************************************************)
(* containers/lease.ts: the lifecycle of the one container a HarnessDO or  *)
(* SandboxDO owns, a DurableMachine with the states stopped, running and   *)
(* retired, and the requests that use the container.                       *)
(*                                                                         *)
(* A request enters hold (busy + 1), acquires the lease, drains the outbox *)
(* behind the permit every drain takes, and passes or fails the held       *)
(* check; stop, retire, renew and the alarm also end in a drain.  Each     *)
(* await of these programs is a step boundary.  An eviction forgets what   *)
(* is in memory (requests, the drain in progress, busy, the boot error)    *)
(* and keeps the record, the alarm and the container.                      *)
(*                                                                         *)
(* Not kept: data.since and the reasons of stop and bootFailed, which      *)
(* nothing reads.                                                          *)
(***************************************************************************)
EXTENDS Naturals, Sequences, FiniteSets, FiniteSetsExt

CONSTANTS Request,        \* requests that use the container
          IdleMs,         \* the values idleMs() may return
          TouchInterval,  \* touches closer together than this are not written
          RecoveryDelay, RetryDelay, MaxFirings,
          MaxTime, MaxEpoch, MaxEviction, MaxCrash  \* bounds of the model

ASSUME LeaseAssumption ==
  /\ IsFiniteSet(Request) /\ Request \cap {"owner", "wake"} = {}
  /\ IdleMs \subseteq Nat \ {0} /\ TouchInterval \in Nat
  /\ RecoveryDelay \in Nat /\ RetryDelay \in Nat \ {0} /\ MaxFirings \in Nat \ {0}

VARIABLES rec,            \* the stored machine record
          alarm,          \* the object's alarm: a set of at most one time
          now,            \* the clock
          container,      \* external: "off", "starting" or "ready"
          pc,             \* where each caller is
          drainer,        \* the caller that has the drain permit, a set
          handler,        \* the command handler in progress
          misconfigured,  \* bootError is a ContainerMisconfigured
          lost,           \* requests whose container crashed or was stopped
          used,           \* when a request last used the container
          evictions, crashes

vars == <<rec, alarm, now, container, pc, drainer, handler, misconfigured,
          lost, used, evictions, crashes>>

\* stop and retire come from entrypoints the lifecycle permit serializes, and
\* renew from the same owner, so one caller stands for the three.
Caller == Request \cup {"owner", "wake"}

(***************************************************************************)
(* The machine.                                                            *)
(***************************************************************************)
stopped == [tag |-> "stopped", lastActive |-> 0, idleMs |-> 0]
retired == [tag |-> "retired", lastActive |-> 0, idleMs |-> 0]
running(lastActive, idleMs) ==
  [tag |-> "running", lastActive |-> lastActive, idleMs |-> idleMs]

isTerminal(tag) == tag = "retired"
holds(tag) == IF tag = "running" THEN {"container"} ELSE {}
Resources == <<"container">>
release(resource) == "destroy"
timers(state) ==
  IF state.tag = "running"
  THEN {[event |-> "idle", at |-> state.lastActive + state.idleMs]} ELSE {}
retryDelay(attempt) == RetryDelay

Move(to, commands) == [kind |-> "move", to |-> to, commands |-> commands]
Ignore(state) == [kind |-> "ignore", to |-> state, commands |-> <<>>]

\* The answers of the stopped and the running state.
whenStoppedTrusting(state, event, facts) ==
  CASE event.type = "need" ->
         Move(running(facts.now, event.idleMs),
              IF facts.containerRunning THEN <<>> ELSE <<"boot">>)
    [] event.type = "retire" -> Move(retired, <<>>)
    [] OTHER -> Ignore(state)
whenStopped(state, event, facts) ==
  CASE event.type = "need" -> Move(running(facts.now, event.idleMs), <<"boot">>)
    [] event.type = "retire" -> Move(retired, <<>>)
    [] OTHER -> Ignore(state)

Later(state, time) == Max({state.lastActive, time})
idleAnswer(state, facts) ==
  IF facts.busy > 0 THEN Move(running(facts.now, state.idleMs), <<>>)
  ELSE IF facts.now < state.lastActive + state.idleMs THEN Move(state, <<>>)
  ELSE Move(stopped, <<>>)
whenRunning(state, event, facts) ==
  CASE event.type = "need" ->
         IF facts.containerRunning \/ facts.bootPending
         THEN Move(running(Later(state, facts.now), event.idleMs), <<>>)
         ELSE Move(running(facts.now, event.idleMs), <<"boot">>)
    [] event.type = "touch" ->
         Move(running(Later(state, facts.now), state.idleMs), <<>>)
    [] event.type = "idle" -> idleAnswer(state, facts)
    [] event.type \in {"bootFailed", "stop"} -> Move(stopped, <<>>)
    [] event.type = "retire" -> Move(retired, <<>>)

answer(state, event, facts) ==
  CASE state.tag = "stopped" -> whenStopped(state, event, facts)
    [] state.tag = "running" -> whenRunning(state, event, facts)
    [] OTHER -> Ignore(state)

INSTANCE DurableMachine

(***************************************************************************)
(* The facts the object observes, and one committed event.                 *)
(***************************************************************************)
Inside == {q \in Request : pc[q] # "out"}   \* the requests in hold
Queued(r, command) == \E i \in 1..Len(r.outbox) : r.outbox[i].command = command
bootPending == Queued(rec, "boot")
containerRunning == container # "off"

facts(busy, r) ==
  [now |-> now, busy |-> busy, containerRunning |-> containerRunning,
   bootPending |-> Queued(r, "boot")]

\* Every commit arms the alarm in the same synchronous step.
Commit(r) == rec' = r /\ alarm' = nextWake(r)
Applied(event, busy) == transition(rec, event, facts(busy, rec), now)

\* touch: written, and the alarm armed, at most once per interval.
touch(busy) ==
  IF rec.state.tag # "running" \/ now < rec.state.lastActive + TouchInterval
  THEN UNCHANGED <<rec, alarm>> ELSE Commit(Applied([type |-> "touch"], busy))

Memory == <<drainer, handler, misconfigured>>
World == <<now, container, evictions, crashes>>

(***************************************************************************)
(* Callers.                                                                *)
(***************************************************************************)
\* acquire: a running container is only touched; anything else asks for one.
acquire(busy) ==
  IF rec.state.tag = "running" /\ containerRunning
  THEN touch(busy)
  ELSE \E idleMs \in IdleMs :
         Commit(Applied([type |-> "need", idleMs |-> idleMs], busy))

Enter(q) ==
  /\ pc[q] = "out" /\ rec.epoch < MaxEpoch
  /\ acquire(Cardinality(Inside) + 1)
  /\ pc' = [pc EXCEPT ![q] = "waiting"]
  /\ lost' = lost \ {q}
  /\ UNCHANGED <<World, Memory, used>>

\* A program that acquires the lease again inside the same hold.
AcquireAgain(q) ==
  /\ pc[q] = "using" /\ rec.epoch < MaxEpoch
  /\ acquire(Cardinality(Inside))
  /\ pc' = [pc EXCEPT ![q] = "waiting"]
  /\ UNCHANGED <<World, Memory, lost, used>>

\* The end of hold: busy - 1, then touch.
LeaveUntouched(q) ==
  /\ rec' = rec /\ alarm' = alarm
  /\ pc' = [pc EXCEPT ![q] = "out"]
  /\ used' = now
Leave(q) ==
  /\ touch(Cardinality(Inside) - 1)
  /\ pc' = [pc EXCEPT ![q] = "out"]
  /\ used' = now

EndUse(q) ==
  /\ pc[q] = "using"
  /\ Leave(q)
  /\ UNCHANGED <<World, Memory, lost>>

\* renew always goes through the transition; it is not a use.
Renew ==
  /\ pc["owner"] = "out" /\ rec.epoch < MaxEpoch
  /\ \E idleMs \in IdleMs :
       Commit(Applied([type |-> "need", idleMs |-> idleMs], Cardinality(Inside)))
  /\ pc' = [pc EXCEPT !["owner"] = "waiting"]
  /\ UNCHANGED <<World, Memory, lost, used>>

\* stop and retire end the container under whoever uses it.
End(event) ==
  /\ pc["owner"] = "out"
  /\ Commit(Applied([type |-> event], Cardinality(Inside)))
  /\ pc' = [pc EXCEPT !["owner"] = "waiting"]
  /\ lost' = Inside
  /\ UNCHANGED <<World, Memory, used>>
Stop == End("stop")
Retire == End("retire")

\* touch from another object: the harness keeps the sandbox of its turn.
Touch ==
  /\ touch(Cardinality(Inside))
  /\ UNCHANGED <<World, Memory, pc, lost, used>>

\* wake, from the alarm: the platform clears it, the due timers fire.
Wake ==
  /\ pc["wake"] = "out" /\ \E at \in alarm : at <= now
  /\ Commit(fireTimers(rec, LAMBDA r : facts(Cardinality(Inside), r), now))
  /\ pc' = [pc EXCEPT !["wake"] = "waiting"]
  /\ UNCHANGED <<World, Memory, lost, used>>

(***************************************************************************)
(* The drain: one caller at a time runs the commands in order.             *)
(***************************************************************************)
DrainBegins(c) ==
  /\ pc[c] = "waiting" /\ drainer = {} /\ drainer' = {c}
  /\ UNCHANGED <<rec, alarm, World, pc, handler, misconfigured, lost, used>>

Taking(outcome) == drainer # {} /\ handler = "none" /\ take(rec, now) = outcome
TakesCommand(command) == Taking("Run") /\ Head(rec.outbox).command = command

TakeSkippedUnarmed ==
  /\ Taking("Skipped")
  /\ rec' = removed(rec) /\ alarm' = alarm
  /\ UNCHANGED <<World, Memory, pc, lost, used>>
TakeSkipped ==
  /\ Taking("Skipped")
  /\ Commit(removed(rec))
  /\ UNCHANGED <<World, Memory, pc, lost, used>>

\* boot: starts the container if it does not run, then waits for it.
BootStarts ==
  /\ TakesCommand("boot")
  /\ handler' = "boot"
  /\ container' = IF containerRunning THEN container ELSE "starting"
  /\ UNCHANGED <<rec, alarm, now, evictions, crashes, pc, drainer, misconfigured,
                 lost, used>>
BootReady ==
  /\ handler = "boot" /\ containerRunning
  /\ container' = "ready" /\ misconfigured' = FALSE /\ handler' = "none"
  /\ Commit(succeeded(rec))
  /\ UNCHANGED <<now, evictions, crashes, pc, drainer, lost, used>>
BootFails ==
  /\ handler = "boot" /\ misconfigured' = FALSE
  /\ Commit(succeededWith(rec, [type |-> "bootFailed"],
                          facts(Cardinality(Inside), removed(rec)), now))
  /\ handler' = "none"
  /\ UNCHANGED <<World, pc, drainer, lost, used>>
\* The deployment names no image: nothing is started.
BootMisconfigured ==
  /\ TakesCommand("boot") /\ misconfigured' = TRUE
  /\ Commit(succeededWith(rec, [type |-> "bootFailed"],
                          facts(Cardinality(Inside), removed(rec)), now))
  /\ UNCHANGED <<World, pc, drainer, handler, lost, used>>

\* destroy: nothing to destroy is not a failure.
DestroyNothing ==
  /\ TakesCommand("destroy") /\ ~containerRunning
  /\ Commit(succeeded(rec))
  /\ UNCHANGED <<World, Memory, pc, lost, used>>
DestroyStarts ==
  /\ TakesCommand("destroy") /\ containerRunning
  /\ handler' = "destroy"
  /\ UNCHANGED <<rec, alarm, World, pc, drainer, misconfigured, lost, used>>
DestroyDone ==
  /\ handler = "destroy" /\ container' = "off" /\ handler' = "none"
  /\ Commit(succeeded(rec))
  /\ UNCHANGED <<now, evictions, crashes, pc, drainer, misconfigured, lost, used>>

\* The end of a drain.  A request goes on to the held check.
Held(q) ==
  /\ rec.state.tag = "running" /\ ~misconfigured
  /\ containerRunning /\ ~bootPending
DrainedBy(c) ==
  IF c \notin Request
  THEN pc' = [pc EXCEPT ![c] = "out"] /\ UNCHANGED <<rec, alarm, used>>
  ELSE IF Held(c)
  THEN pc' = [pc EXCEPT ![c] = "using"] /\ UNCHANGED <<rec, alarm, used>>
  ELSE Leave(c)
DrainEnds ==
  /\ Taking("Idle") \/ handler = "broken"
  /\ \E c \in drainer : DrainedBy(c) /\ lost' = IF Held(c) THEN lost \ {c} ELSE lost
  /\ drainer' = {} /\ handler' = "none"
  /\ UNCHANGED <<World, misconfigured>>
\* The destroy failed, with or without effect: the drain stops and the
\* command waits for its retry.
DestroyFails ==
  /\ handler = "destroy" /\ handler' = "broken"
  /\ container' \in {container, "off"}
  /\ Commit(failed(rec, now))
  /\ UNCHANGED <<now, evictions, crashes, pc, drainer, misconfigured, lost, used>>

(***************************************************************************)
(* The world.                                                              *)
(***************************************************************************)
Tick ==
  /\ now < MaxTime /\ now' = now + 1
  /\ UNCHANGED <<rec, alarm, container, Memory, pc, lost, used, evictions, crashes>>

\* The platform stops the container.
Crash ==
  /\ containerRunning /\ crashes < MaxCrash
  /\ container' = "off" /\ crashes' = crashes + 1 /\ lost' = Inside
  /\ UNCHANGED <<rec, alarm, now, Memory, pc, used, evictions>>

\* The object loses its memory.
Evict ==
  /\ evictions < MaxEviction /\ evictions' = evictions + 1
  /\ pc' = [c \in Caller |-> "out"] /\ drainer' = {} /\ handler' = "none"
  /\ misconfigured' = FALSE /\ lost' = {}
  /\ UNCHANGED <<rec, alarm, now, container, used, crashes>>

Init ==
  /\ rec = [state |-> stopped, epoch |-> 0, fired |-> {}, outbox |-> <<>>]
  /\ alarm = {} /\ now = 0 /\ container = "off"
  /\ pc = [c \in Caller |-> "out"] /\ drainer = {} /\ handler = "none"
  /\ misconfigured = FALSE /\ lost = {} /\ used = 0
  /\ evictions = 0 /\ crashes = 0

Next ==
  \/ \E q \in Request : Enter(q) \/ AcquireAgain(q) \/ EndUse(q)
  \/ Renew \/ Stop \/ Retire \/ Touch \/ Wake
  \/ \E c \in Caller : DrainBegins(c)
  \/ TakeSkipped \/ BootStarts \/ BootReady \/ BootFails \/ BootMisconfigured
  \/ DestroyNothing \/ DestroyStarts \/ DestroyDone \/ DestroyFails \/ DrainEnds
  \/ Tick \/ Crash \/ Evict

Spec == Init /\ [][Next]_vars

(***************************************************************************)
(* What the lease promises.                                                *)
(***************************************************************************)
\* A container that runs is held by the running state or awaits a queued
\* destroy: no exit of the machine, failed boot or eviction leaks one.
NoLeak == containerRunning => rec.state.tag = "running" \/ Queued(rec, "destroy")

\* A destroy left over from an earlier epoch cannot end a container the lease
\* hands out: while one is queued, the boot of the new epoch waits behind it
\* and the held check refuses.
NoStaleDestroy ==
  rec.state.tag = "running" /\ ~bootPending => ~Queued(rec, "destroy")

\* A request that passed the held check has a booted container until it ends,
\* unless the platform stopped it or the session asked for a stop: no idle
\* check, retry, other request's boot or queued command takes it away.
AdmittedContainerReady ==
  \A q \in Request : pc[q] = "using" /\ q \notin lost =>
    rec.state.tag = "running" /\ container = "ready"

\* The container belongs to who was given it: none leaks, none is destroyed by what an
\* earlier epoch queued, and none is taken from a request that was let in.
ContainerOwned == NoLeak /\ NoStaleDestroy /\ AdmittedContainerReady

\* The alarm is always set for the next timer or command, so an eviction at
\* any point leaves nothing stranded.
AlarmArmed == alarm = nextWake(rec)

\* A running lease always has an idle timer ahead of it: no deadline is
\* marked fired while it is still the one that would end the container.
IdleTimerPending == rec.state.tag = "running" => pendingTimers(rec) # {}

\* The end of an idle container is always ahead: a timer is pending and the alarm is set
\* for it, and for every command an eviction left behind.
TimersPending == AlarmArmed /\ IdleTimerPending

\* Once the session is deleted nothing starts a container again, also not a
\* boot that was queued before.
RetiredNeverStarts ==
  [][rec.state.tag = "retired" /\ ~containerRunning => ~containerRunning']_vars

\* The idle alarm ends only a container that no request holds and that none
\* used for the idle time, short by at most the interval of unwritten touches.
IdleMeansUnused ==
  [][rec.state.tag = "running" /\ rec'.state.tag = "stopped"
       /\ pc["wake"] = "out" /\ pc'["wake"] = "waiting"
     => Inside = {} /\ now + TouchInterval >= used + rec.state.idleMs]_vars

\* The lease neither ends a container in use nor starts one for a deleted session.
EndsRightly == RetiredNeverStarts /\ IdleMeansUnused
=============================================================================
