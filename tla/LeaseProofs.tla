----------------------------- MODULE LeaseProofs -----------------------------
(***************************************************************************)
(* Proofs about ContainerLease, for any number of requests, any clock and  *)
(* any bounds.                                                             *)
(*                                                                         *)
(* The lease, its outbox and the container change in different steps; what *)
(* keeps them together is the queue (QueueShape): a boot of the current    *)
(* epoch means that the lease runs, and a running lease boots again behind *)
(* every destroy that is still queued.  So a request that was let in with  *)
(* no boot queued has none of an earlier destroy either.  That its         *)
(* container is booted needs that a container which only starts has its    *)
(* boot in the queue (StartingShape), and that the row under way is the    *)
(* first one (HandlerShape); that the idle timer is pending needs that     *)
(* every marked deadline is in the past (Timed).                           *)
(***************************************************************************)
EXTENDS ContainerLease, SequenceTheorems, FiniteSetTheorems, WellFoundedInduction, TLAPS

-----------------------------------------------------------------------------
(* The record, and what one event of the table does to it.                  *)

\* What the stored record ranges over.
Tag == {"stopped", "running", "retired"}
LeaseState == [tag : Tag, lastActive : Nat, idleMs : Nat]
Entry == [command : {"boot", "destroy"}, epoch : Nat, release : BOOLEAN, attempts : Nat, due : Nat]
Timer == [event : {"idle"}, at : Nat]
Record == [state : LeaseState, epoch : Nat, fired : SUBSET Timer, outbox : Seq(Entry)]

Running(r) == r.state.tag = "running"
IsBoot(x, epoch) == x.command = "boot" /\ ~x.release /\ x.epoch = epoch
IsDestroy(x) == x.command = "destroy" /\ x.release

\* The fields of a stored record.
LEMMA RecordFields ==
  ASSUME NEW r \in Record
  PROVE  /\ r.state \in LeaseState /\ r.state.tag \in Tag
         /\ r.state.lastActive \in Nat /\ r.state.idleMs \in Nat
         /\ r.epoch \in Nat /\ r.fired \subseteq Timer /\ r.outbox \in Seq(Entry)
BY DEF Record, LeaseState

\* The states of the table are states.
LEMMA States ==
  /\ stopped \in LeaseState /\ stopped.tag = "stopped"
  /\ retired \in LeaseState /\ retired.tag = "retired"
  /\ \A a, i \in Nat : /\ running(a, i) \in LeaseState /\ running(a, i).tag = "running"
                       /\ running(a, i).lastActive = a /\ running(a, i).idleMs = i
BY DEF stopped, retired, running, LeaseState, Tag

\* The fields of an answer.
LEMMA Replies ==
  ASSUME NEW to, NEW cs
  PROVE  /\ Move(to, cs).kind = "move" /\ Move(to, cs).to = to /\ Move(to, cs).commands = cs
         /\ Ignore(to).kind = "ignore"
BY DEF Move, Ignore

\* The resources that a step releases.
LEMMA ReleasedNone == ordered({}) = <<>>
<1>1. {i \in 1..Len(Resources) : Resources[i] \in {}} = {}
  OBVIOUS
<1>2. Cardinality({}) = 0
  BY FS_EmptySet
<1>3. ordered({}) = [n \in 1..0 |->
        Resources[CHOOSE i \in {k \in 1..Len(Resources) : Resources[k] \in {}} :
          Cardinality({j \in {k \in 1..Len(Resources) : Resources[k] \in {}} : j <= i}) = n]]
  BY <1>1, <1>2 DEF ordered
<1>4. ordered({}) \in [1..0 -> {}]
  <2>1. DOMAIN ordered({}) = 1..0 /\ \A n \in 1..0 : FALSE
    BY <1>3
  <2> QED BY <1>3, <2>1
<1> QED BY <1>4

\* A step that leaves the holder of the container releases it, once.
LEMMA ReleasedOne == Len(ordered({"container"})) = 1 /\ ordered({"container"})[1] = "container"
<1> DEFINE at == {i \in 1..Len(Resources) : Resources[i] \in {"container"}}
<1>1. Len(Resources) = 1 /\ Resources[1] = "container"
  BY DEF Resources
<1>2. at = {1}
  BY <1>1
<1>3. Cardinality(at) = 1
  BY <1>2, FS_Singleton
<1>4. \A i \in at : i = 1
  BY <1>2
<1>5. {j \in at : j <= 1} = {1}
  BY <1>2
<1>6. Cardinality({j \in at : j <= 1}) = 1
  BY <1>5, FS_Singleton
<1>7. (CHOOSE i \in at : Cardinality({j \in at : j <= i}) = 1) = 1
  BY <1>2, <1>4, <1>6
<1>8. ordered({"container"}) = [n \in 1..1 |->
        Resources[CHOOSE i \in at : Cardinality({j \in at : j <= i}) = n]]
  BY <1>3 DEF ordered
<1>9. ordered({"container"})[1] = "container"
  <2>1. 1 \in 1..1
    OBVIOUS
  <2>2. ordered({"container"})[1] =
          Resources[CHOOSE i \in at : Cardinality({j \in at : j <= i}) = 1]
    <3> HIDE DEF at
    <3> QED BY ONLY <1>8, <2>1, Zenon
  <2> QED BY <1>1, <1>7, <2>2
<1>10. ordered({"container"}) \in Seq({"container"}) /\ Len(ordered({"container"})) = 1
  <2>1. \A n \in 1..1 : ordered({"container"})[n] \in {"container"}
    BY <1>9
  <2>2. ordered({"container"}) \in [1..1 -> {"container"}]
    <3>1. DOMAIN ordered({"container"}) = 1..1
      BY <1>8
    <3> HIDE DEF at
    <3>2. ordered({"container"}) = [n \in 1..1 |-> ordered({"container"})[n]]
      BY ONLY <1>8, Zenon
    <3> DEFINE o == ordered({"container"})
    <3>3. o = [n \in 1..1 |-> o[n]] /\ \A n \in 1..1 : o[n] \in {"container"}
      BY <2>1, <3>2
    <3> HIDE DEF o
    <3>4. o \in [1..1 -> {"container"}]
      BY ONLY <3>3
    <3> QED BY <3>4 DEF o
  <2>3. \A f \in [1..1 -> {"container"}] : f \in Seq({"container"}) /\ Len(f) = 1
    <3> SUFFICES ASSUME NEW f \in [1..1 -> {"container"}]
                 PROVE  f \in Seq({"container"}) /\ Len(f) = 1
      OBVIOUS
    <3>1. f \in Seq({"container"})
      BY SeqDef
    <3>2. Len(f) \in Nat /\ 1..Len(f) = 1..1
      BY <3>1, LenProperties
    <3>3. 1 \in 1..Len(f) /\ (Len(f) >= 1 => Len(f) \in 1..1)
      BY <3>2
    <3> QED BY <3>1, <3>2, <3>3
  <2> QED BY ONLY <2>2, <2>3
<1> QED BY <1>9, <1>10

\* The container is released when the running state is left for another.
LEMMA HeldResources ==
  ASSUME NEW p \in Tag, NEW q \in Tag
  PROVE  /\ p = "running" /\ q # "running" => holds(p) \ holds(q) = {"container"}
         /\ p # "running" \/ q = "running" => holds(p) \ holds(q) = {}
BY DEF holds, Tag

\* A function on no index or on one is a tuple.
LEMMA AsTuple ==
  ASSUME NEW f, f = [i \in DOMAIN f |-> f[i]]
  PROVE  /\ DOMAIN f = 1..0 => f = <<>>
         /\ DOMAIN f = 1..1 => f = <<f[1]>>
<1>1. ASSUME DOMAIN f = 1..0 PROVE f = <<>>
  <2>1. f \in [1..0 -> {}]
    BY <1>1
  <2> QED BY <2>1
<1>2. ASSUME DOMAIN f = 1..1 PROVE f = <<f[1]>>
  <2>1. f \in [1..1 -> {f[1]}]
    BY <1>2
  <2>2. ASSUME NEW x, NEW g \in [1..1 -> {x}] PROVE g \in Seq({x}) /\ Len(g) = 1 /\ g[1] = x
    <3>1. g \in Seq({x})
      BY SeqDef
    <3>2. Len(g) \in Nat /\ 1..Len(g) = 1..1
      BY <3>1, LenProperties
    <3>3. 1 \in 1..Len(g) /\ (Len(g) >= 1 => Len(g) \in 1..1)
      BY <3>2
    <3>4. g[1] = x
      OBVIOUS
    <3> QED BY <3>1, <3>2, <3>3, <3>4
  <2>3. f \in Seq({f[1]}) /\ Len(f) = 1
    BY <2>1, <2>2
  <2>6. <<f[1]>> \in Seq({f[1]}) /\ Len(<<f[1]>>) = 1 /\ <<f[1]>>[1] = f[1]
    OBVIOUS
  <2>7. \A i \in 1..1 : f[i] = <<f[1]>>[i]
    BY <2>6
  <2> QED BY <2>3, <2>6, <2>7, SeqEqual
<1> QED BY <1>1, <1>2

\* A step that plans nothing and releases nothing.
LEMMA PlannedNothing == Planned(<<>>, <<>>) = <<>>
<1> DEFINE a == [i \in 1..0 |-> [command |-> <<>>[i], release |-> FALSE]]
           b == [i \in 1..0 |-> [command |-> release(<<>>[i]), release |-> TRUE]]
<1>1. Len(<<>>) = 0
  OBVIOUS
<1>2. a = <<>> /\ b = <<>>
  <2>1. DOMAIN a = 1..0 /\ DOMAIN b = 1..0
    OBVIOUS
  <2>2. a = [i \in DOMAIN a |-> a[i]] /\ b = [i \in DOMAIN b |-> b[i]]
    OBVIOUS
  <2> HIDE DEF a, b
  <2> QED BY <2>1, <2>2, AsTuple
<1>3. Planned(<<>>, <<>>) = a \o b
  BY <1>1 DEF Planned
<1> HIDE DEF a, b
<1> QED BY <1>2, <1>3

\* A boot, and nothing to release.
LEMMA PlannedBoot ==
  Planned(<<"boot">>, <<>>) = <<[command |-> "boot", release |-> FALSE]>>
<1> DEFINE a == [i \in 1..1 |-> [command |-> <<"boot">>[i], release |-> FALSE]]
           b == [i \in 1..0 |-> [command |-> release(<<>>[i]), release |-> TRUE]]
<1>1. Len(<<>>) = 0 /\ Len(<<"boot">>) = 1
  OBVIOUS
<1>2. a = <<a[1]>> /\ b = <<>>
  <2>1. DOMAIN a = 1..1 /\ DOMAIN b = 1..0
    OBVIOUS
  <2>2. a = [i \in DOMAIN a |-> a[i]] /\ b = [i \in DOMAIN b |-> b[i]]
    OBVIOUS
  <2> HIDE DEF a, b
  <2> QED BY <2>1, <2>2, AsTuple
<1>3. Planned(<<"boot">>, <<>>) = a \o b
  BY <1>1 DEF Planned
<1>4. a[1] = [command |-> "boot", release |-> FALSE]
  <2>1. 1 \in 1..1 /\ <<"boot">>[1] = "boot"
    OBVIOUS
  <2>2. a[1] = [command |-> <<"boot">>[1], release |-> FALSE]
    BY <2>1
  <2> QED BY <2>1, <2>2
<1> HIDE DEF a, b
<1>5. a \o b = a
  BY <1>2
<1>6. a = <<[command |-> "boot", release |-> FALSE]>>
  BY <1>2, <1>4
<1> QED BY ONLY <1>3, <1>5, <1>6

\* The release alone.
LEMMA PlannedRelease ==
  Planned(<<>>, ordered({"container"})) = <<[command |-> "destroy", release |-> TRUE]>>
<1> DEFINE o == ordered({"container"})
           a == [i \in 1..0 |-> [command |-> <<>>[i], release |-> FALSE]]
           b == [i \in 1..1 |-> [command |-> release(o[i]), release |-> TRUE]]
<1>1. Len(<<>>) = 0 /\ Len(o) = 1 /\ o[1] = "container"
  BY ReleasedOne
<1>4. b[1] = [command |-> "destroy", release |-> TRUE]
  BY <1>1 DEF release
<1>3. Planned(<<>>, o) = a \o b
  BY <1>1 DEF Planned
<1> HIDE DEF o
<1>2. a = <<>> /\ b = <<b[1]>>
  <2>1. DOMAIN a = 1..0 /\ DOMAIN b = 1..1
    OBVIOUS
  <2>2. a = [i \in DOMAIN a |-> a[i]] /\ b = [i \in DOMAIN b |-> b[i]]
    OBVIOUS
  <2> HIDE DEF a, b
  <2> QED BY <2>1, <2>2, AsTuple
<1> HIDE DEF a, b
<1>5. a \o b = b
  BY <1>2
<1>6. b = <<[command |-> "destroy", release |-> TRUE]>>
  BY <1>2, <1>4
<1>7. Planned(<<>>, o) = <<[command |-> "destroy", release |-> TRUE]>>
  BY ONLY <1>3, <1>5, <1>6
<1> QED BY <1>7 DEF o

\* A transition that moves: the next state, and the rows it enqueues.
LEMMA Transition ==
  ASSUME NEW r \in Record, NEW e, NEW f, NEW t \in Nat, NEW to \in LeaseState, NEW cs,
         answer(r.state, e, f) = Move(to, cs), r.state.tag # "retired",
         cs = <<>> \/ (cs = <<"boot">> /\ to.tag = "running")
  PROVE  LET n == transition(r, e, f, t)
         IN /\ n \in Record /\ n.state = to
            /\ n.epoch = IF to.tag # r.state.tag THEN r.epoch + 1 ELSE r.epoch
            /\ n.fired = IF to.tag # r.state.tag THEN {} ELSE r.fired
            /\ cs = <<>> /\ (Running(r) => to.tag = "running") => n.outbox = r.outbox
            /\ cs = <<"boot">> =>
                 \E x \in Entry : IsBoot(x, n.epoch) /\ n.outbox = Append(r.outbox, x)
            /\ Running(r) /\ to.tag # "running" =>
                 \E x \in Entry : /\ IsDestroy(x) /\ x.epoch = n.epoch
                                  /\ n.outbox = Append(r.outbox, x)
<1> DEFINE released == ordered(holds(r.state.tag) \ holds(to.tag))
           plan == Planned(cs, released)
           s == step(r.state, e, f)
           epoch == IF to.tag # r.state.tag THEN r.epoch + 1 ELSE r.epoch
           fired == IF to.tag # r.state.tag THEN {} ELSE r.fired
           row(x) == [command |-> x.command, epoch |-> epoch, release |-> x.release,
                      attempts |-> 0, due |-> t + RecoveryDelay]
           rows == [i \in 1..Len(plan) |-> row(plan[i])]
           n == transition(r, e, f, t)
<1>0. /\ r.state \in LeaseState /\ r.state.tag \in Tag /\ to.tag \in Tag
      /\ r.epoch \in Nat /\ r.fired \subseteq Timer /\ r.outbox \in Seq(Entry)
  BY RecordFields DEF LeaseState
<1>1. s = [moved |-> TRUE, to |-> to, commands |-> plan]
  <2>1. ~isTerminal(r.state.tag)
    BY DEF isTerminal
  <2> DEFINE reply == answer(r.state, e, f)
  <2>2. reply = Move(to, cs)
    OBVIOUS
  <2> HIDE DEF reply
  <2>3. reply.kind = "move" /\ reply.to = to /\ reply.commands = cs
    BY <2>2, Replies
  <2>4. s = IF isTerminal(r.state.tag) \/ reply.kind # "move"
            THEN [moved |-> FALSE]
            ELSE [moved |-> TRUE, to |-> reply.to,
                  commands |-> Planned(reply.commands,
                                 ordered(holds(r.state.tag) \ holds(reply.to.tag)))]
    BY DEF step, reply, s
  <2> QED BY <2>1, <2>3, <2>4
<1>2. s.moved /\ s.to = to /\ s.commands = plan
  BY <1>1
<1> HIDE DEF s, plan, released
<1>3. n = [state |-> to, epoch |-> epoch, fired |-> fired, outbox |-> r.outbox \o rows]
  BY <1>2 DEF transition, s
<1>4. epoch \in Nat /\ fired \subseteq Timer
  BY <1>0
<1>5. CASE cs = <<>> /\ (Running(r) => to.tag = "running")
  <2>1. released = <<>>
    BY <1>0, <1>5, HeldResources, ReleasedNone DEF released, Running
  <2>2. plan = <<>>
    BY <1>5, <2>1, PlannedNothing DEF plan
  <2>3. rows = <<>>
    <3>1. Len(plan) = 0
      BY <2>2
    <3>2. DOMAIN rows = 1..0 /\ rows = [i \in DOMAIN rows |-> rows[i]]
      BY <3>1
    <3> HIDE DEF rows
    <3> QED BY <3>2, AsTuple
  <2>4. r.outbox \o rows = r.outbox
    BY <1>0, <2>3
  <2> HIDE DEF rows, epoch, fired
  <2>5. n = [state |-> to, epoch |-> epoch, fired |-> fired, outbox |-> r.outbox]
    BY <1>3, <2>4
  <2> HIDE DEF n
  <2>6. n \in Record /\ n.state = to /\ n.epoch = epoch /\ n.fired = fired /\ n.outbox = r.outbox
    BY ONLY <1>0, <1>4, <2>5, to \in LeaseState DEF Record
  <2> QED BY <1>5, <2>6 DEF n, epoch, fired
<1>6. ASSUME NEW x, plan = <<x>>, row(x) \in Entry
      PROVE  /\ n \in Record /\ n.state = to /\ n.epoch = epoch /\ n.fired = fired
             /\ n.outbox = Append(r.outbox, row(x))
  <2>1. rows = <<row(x)>>
    <3>1. Len(plan) = 1 /\ plan[1] = x
      BY <1>6
    <3>2. DOMAIN rows = 1..1 /\ rows[1] = row(x) /\ rows = [i \in DOMAIN rows |-> rows[i]]
      BY <3>1
    <3> HIDE DEF rows, row
    <3> QED BY <3>2, AsTuple
  <2> DEFINE w == row(x)
  <2>2. w \in Entry
    BY <1>6
  <2> HIDE DEF rows, epoch, fired, row, w
  <2>3. r.outbox \o rows = Append(r.outbox, w) /\ Append(r.outbox, w) \in Seq(Entry)
    BY <1>0, <2>1, <2>2, AppendProperties, AppendIsConcat DEF w
  <2>4. n = [state |-> to, epoch |-> epoch, fired |-> fired, outbox |-> Append(r.outbox, w)]
    BY <1>3, <2>3
  <2> HIDE DEF n
  <2>5. /\ n \in Record /\ n.state = to /\ n.epoch = epoch /\ n.fired = fired
        /\ n.outbox = Append(r.outbox, w)
    BY ONLY <1>4, <2>3, <2>4, to \in LeaseState DEF Record
  <2> QED BY <2>5 DEF w
<1>d. t + RecoveryDelay \in Nat
  BY LeaseAssumption
<1>7. CASE cs = <<"boot">> /\ to.tag = "running"
  <2>1. released = <<>>
    BY <1>0, <1>7, HeldResources, ReleasedNone DEF released, Running
  <2> DEFINE x == [command |-> "boot", release |-> FALSE]
  <2>2. plan = <<x>>
    BY <1>7, <2>1, PlannedBoot DEF plan
  <2>3. row(x) \in Entry /\ IsBoot(row(x), epoch)
    <3>1. row(x) = [command |-> "boot", epoch |-> epoch, release |-> FALSE, attempts |-> 0,
                    due |-> t + RecoveryDelay]
      OBVIOUS
    <3> HIDE DEF row, x, epoch
    <3> QED BY <1>4, <1>d, <3>1 DEF Entry, IsBoot
  <2>4. \E y \in Entry : /\ IsBoot(y, epoch)
                         /\ n \in Record /\ n.state = to /\ n.epoch = epoch /\ n.fired = fired
                         /\ n.outbox = Append(r.outbox, y)
    <3> HIDE DEF row, x, n, epoch, fired
    <3> QED BY <1>6, <2>2, <2>3
  <2>5. cs # <<>>
    BY <1>7
  <2> HIDE DEF n
  <2> QED BY <1>7, <2>4, <2>5 DEF n
<1>8. CASE cs = <<>> /\ Running(r) /\ to.tag # "running"
  <2>1. released = ordered({"container"})
    BY <1>0, <1>8, HeldResources DEF released, Running
  <2> DEFINE x == [command |-> "destroy", release |-> TRUE]
  <2>2. plan = <<x>>
    BY <1>8, <2>1, PlannedRelease DEF plan
  <2>3. row(x) \in Entry /\ IsDestroy(row(x)) /\ row(x).epoch = epoch
    <3>1. row(x) = [command |-> "destroy", epoch |-> epoch, release |-> TRUE, attempts |-> 0,
                    due |-> t + RecoveryDelay]
      OBVIOUS
    <3> HIDE DEF row, x, epoch
    <3> QED BY <1>4, <1>d, <3>1 DEF Entry, IsDestroy
  <2>4. \E y \in Entry : /\ IsDestroy(y) /\ y.epoch = epoch
                         /\ n \in Record /\ n.state = to /\ n.epoch = epoch /\ n.fired = fired
                         /\ n.outbox = Append(r.outbox, y)
    <3> HIDE DEF row, x, n, epoch, fired
    <3> QED BY <1>6, <2>2, <2>3
  <2>5. cs # <<"boot">>
    BY <1>8
  <2> HIDE DEF n
  <2> QED BY <1>8, <2>4, <2>5 DEF n
<1> QED BY <1>5, <1>7, <1>8

\* What the object observes, and the later of two times.
LEMMA FactsFields ==
  ASSUME NEW busy, NEW r
  PROVE  /\ facts(busy, r).now = now /\ facts(busy, r).busy = busy
         /\ facts(busy, r).containerRunning <=> containerRunning
         /\ facts(busy, r).bootPending <=> Queued(r, "boot")
BY DEF facts

\* The activity of a state is in the past, so the later time is now.
LEMMA LaterTime ==
  ASSUME NEW state \in LeaseState, NEW t \in Nat, state.lastActive <= t
  PROVE  Later(state, t) = t
<1> DEFINE a == state.lastActive
<1>1. a \in Nat /\ a <= t
  BY DEF LeaseState
<1>2. Later(state, t) = CHOOSE x \in {a, t} : \A y \in {a, t} : x >= y
  BY DEF Later, Max
<1> HIDE DEF a
<1>3. t \in {a, t} /\ \A y \in {a, t} : t >= y
  BY <1>1
<1>4. \A x \in {a, t} : (\A y \in {a, t} : x >= y) => x = t
  BY <1>1
<1> QED BY <1>2, <1>3, <1>4

\* How one event changes the record: it renews the lease, queues a boot of its epoch, ends the
\* lease and queues the destroy, or retires a stopped one.
Renewed(r, n, t) ==
  /\ Running(r) /\ Running(n) /\ n.state.lastActive = t /\ n.state.idleMs \in IdleMs
  /\ n.epoch = r.epoch /\ n.outbox = r.outbox /\ \A x \in n.fired : x.at <= t
Booted(r, n, t) ==
  /\ Running(n) /\ n.state.lastActive = t /\ n.state.idleMs \in IdleMs
  /\ \/ Running(r) /\ n.epoch = r.epoch
     \/ r.state.tag = "stopped" /\ n.epoch = r.epoch + 1
  /\ \A x \in n.fired : x.at <= t
  /\ \E x \in Entry : IsBoot(x, n.epoch) /\ n.outbox = Append(r.outbox, x)
Ended(r, n, to) ==
  /\ Running(r) /\ n.state.tag = to /\ n.epoch = r.epoch + 1
  /\ \E x \in Entry : IsDestroy(x) /\ x.epoch = n.epoch /\ n.outbox = Append(r.outbox, x)
Closed(r, n) ==
  /\ r.state.tag = "stopped" /\ n.state.tag = "retired"
  /\ n.epoch = r.epoch + 1 /\ n.outbox = r.outbox

\* A running record has been used up to now, and no deadline it marked is ahead.
Timed(r, t) ==
  Running(r) =>
    /\ r.state.lastActive <= t /\ r.state.idleMs \in IdleMs
    /\ \A x \in r.fired : x.at <= t /\ x.at < r.state.lastActive + r.state.idleMs

\* Idle times are positive.
Idles == \A i \in IdleMs : i \in Nat /\ i > 0
\* An idle time is a positive number.
LEMMA IdlesNat == Idles
BY LeaseAssumption DEF Idles

\* need: acquire and renew.
LEMMA NeedStopped ==
  ASSUME NEW r \in Record, NEW i \in IdleMs, NEW busy, now \in Nat, r.state.tag = "stopped"
  PROVE  LET n == transition(r, [type |-> "need", idleMs |-> i], facts(busy, r), now)
         IN n \in Record /\ Booted(r, n, now)
<1> DEFINE e == [type |-> "need", idleMs |-> i]
           n == transition(r, e, facts(busy, r), now)
           to == running(now, i)
<1>1. e.type = "need" /\ e.idleMs = i
  OBVIOUS
<1>2. answer(r.state, e, facts(busy, r)) = Move(to, <<"boot">>)
  <2> HIDE DEF e
  <2> QED BY <1>1, FactsFields DEF answer, whenStopped
<1>3. to \in LeaseState /\ to.tag = "running" /\ to.lastActive = now /\ to.idleMs = i
  BY IdlesNat, States DEF Idles
<1> HIDE DEF e, to
<1>4. /\ n \in Record /\ n.state = to /\ n.epoch = r.epoch + 1 /\ n.fired = {}
      /\ \E x \in Entry : IsBoot(x, n.epoch) /\ n.outbox = Append(r.outbox, x)
  BY <1>2, <1>3, Transition
<1> HIDE DEF n
<1> QED BY <1>3, <1>4 DEF Booted, Running, n, e

\* need of a running lease: a boot is queued unless the container runs or one waits.
LEMMA NeedRunning ==
  ASSUME NEW r \in Record, NEW i \in IdleMs, NEW busy, now \in Nat, Running(r), Timed(r, now)
  PROVE  LET n == transition(r, [type |-> "need", idleMs |-> i], facts(busy, r), now)
         IN /\ n \in Record
            /\ IF containerRunning \/ Queued(r, "boot") THEN Renewed(r, n, now)
               ELSE Booted(r, n, now)
<1> DEFINE e == [type |-> "need", idleMs |-> i]
           n == transition(r, e, facts(busy, r), now)
           to == running(now, i)
<1>1. e.type = "need" /\ e.idleMs = i
  OBVIOUS
<1>2. r.state \in LeaseState /\ r.state.tag = "running" /\ r.state.lastActive <= now
      /\ \A x \in r.fired : x.at <= now
  BY RecordFields DEF Running, Timed
<1>3. answer(r.state, e, facts(busy, r)) =
        IF containerRunning \/ Queued(r, "boot") THEN Move(to, <<>>) ELSE Move(to, <<"boot">>)
  <2>1. Later(r.state, now) = now
    BY <1>2, LaterTime
  <2> HIDE DEF e
  <2> QED BY <1>1, <1>2, <2>1, FactsFields DEF answer, whenRunning
<1>4. to \in LeaseState /\ to.tag = "running" /\ to.lastActive = now /\ to.idleMs = i
  BY IdlesNat, States DEF Idles
<1> HIDE DEF e, to
<1>5. CASE containerRunning \/ Queued(r, "boot")
  <2>1. answer(r.state, e, facts(busy, r)) = Move(to, <<>>)
    BY <1>3, <1>5
  <2>2. /\ n \in Record /\ n.state = to /\ n.epoch = r.epoch /\ n.fired = r.fired
        /\ n.outbox = r.outbox
    BY <1>2, <1>4, <2>1, Transition
  <2> HIDE DEF n
  <2> QED BY <1>2, <1>4, <1>5, <2>2 DEF Renewed, Running, n, e
<1>6. CASE ~(containerRunning \/ Queued(r, "boot"))
  <2>1. answer(r.state, e, facts(busy, r)) = Move(to, <<"boot">>)
    BY <1>3, <1>6
  <2>2. /\ n \in Record /\ n.state = to /\ n.epoch = r.epoch /\ n.fired = r.fired
        /\ \E x \in Entry : IsBoot(x, n.epoch) /\ n.outbox = Append(r.outbox, x)
    BY <1>2, <1>4, <2>1, Transition
  <2> HIDE DEF n
  <2> QED BY <1>2, <1>4, <1>6, <2>2 DEF Booted, Running, n, e
<1> QED BY <1>5, <1>6

\* A retired record answers nothing, and a stopped one only need and retire.
LEMMA Ignored ==
  ASSUME NEW r \in Record, NEW e, NEW f, NEW t,
         r.state.tag = "retired" \/ (r.state.tag = "stopped" /\ e.type \notin {"need", "retire"})
  PROVE  transition(r, e, f, t) = r
<1> DEFINE reply == answer(r.state, e, f)
<1>1. isTerminal(r.state.tag) \/ reply.kind # "move"
  <2>1. CASE r.state.tag = "retired"
    BY <2>1 DEF isTerminal
  <2>2. CASE r.state.tag = "stopped" /\ e.type \notin {"need", "retire"}
    <3>1. reply = Ignore(r.state)
      BY <2>2 DEF answer, whenStopped
    <3> HIDE DEF reply
    <3> QED BY <3>1, Replies
  <2> QED BY <2>1, <2>2
<1>2. step(r.state, e, f) = [moved |-> FALSE]
  <2> HIDE DEF reply
  <2>1. step(r.state, e, f) =
          IF isTerminal(r.state.tag) \/ reply.kind # "move" THEN [moved |-> FALSE]
          ELSE [moved |-> TRUE, to |-> reply.to,
                commands |-> Planned(reply.commands,
                               ordered(holds(r.state.tag) \ holds(reply.to.tag)))]
    BY DEF step, reply
  <2> QED BY ONLY <1>1, <2>1
<1> DEFINE s == step(r.state, e, f)
<1>3. ~s.moved
  BY <1>2
<1> HIDE DEF s
<1> QED BY <1>3 DEF transition, s

\* touch moves the idle deadline of a running lease.
LEMMA TouchRunning ==
  ASSUME NEW r \in Record, NEW busy, now \in Nat, Running(r), Timed(r, now)
  PROVE  LET n == transition(r, [type |-> "touch"], facts(busy, r), now)
         IN n \in Record /\ Renewed(r, n, now)
<1> DEFINE e == [type |-> "touch"]
           n == transition(r, e, facts(busy, r), now)
           i == r.state.idleMs
           to == running(now, i)
<1>1. e.type = "touch"
  OBVIOUS
<1>2. r.state \in LeaseState /\ r.state.tag = "running" /\ r.state.lastActive <= now /\ i \in IdleMs
      /\ \A x \in r.fired : x.at <= now
  BY RecordFields DEF Running, Timed
<1>3. answer(r.state, e, facts(busy, r)) = Move(to, <<>>)
  <2>1. Later(r.state, now) = now
    BY <1>2, LaterTime
  <2> HIDE DEF e
  <2> QED BY <1>1, <1>2, <2>1, FactsFields DEF answer, whenRunning
<1>4. to \in LeaseState /\ to.tag = "running" /\ to.lastActive = now /\ to.idleMs = i
  BY <1>2, IdlesNat, States DEF Idles
<1> HIDE DEF e, to
<1>5. /\ n \in Record /\ n.state = to /\ n.epoch = r.epoch /\ n.fired = r.fired
      /\ n.outbox = r.outbox
  BY <1>2, <1>3, <1>4, Transition
<1> HIDE DEF n
<1> QED BY <1>2, <1>4, <1>5 DEF Renewed, Running, n, e

\* stop, retire and bootFailed end a running lease.
LEMMA EndRunning ==
  ASSUME NEW r \in Record, NEW type \in {"stop", "bootFailed", "retire"}, NEW busy, NEW t \in Nat,
         Running(r), NEW f
  PROVE  LET n == transition(r, [type |-> type], f, t)
         IN n \in Record /\ Ended(r, n, IF type = "retire" THEN "retired" ELSE "stopped")
<1> DEFINE e == [type |-> type]
           n == transition(r, e, f, t)
           to == IF type = "retire" THEN retired ELSE stopped
<1>1. e.type = type
  OBVIOUS
<1>2. r.state \in LeaseState /\ r.state.tag = "running"
  BY RecordFields DEF Running
<1>3. answer(r.state, e, f) = Move(to, <<>>)
  <2>1. CASE type = "retire"
    <3> HIDE DEF e
    <3> QED BY <1>1, <1>2, <2>1 DEF answer, whenRunning
  <2>2. CASE type \in {"stop", "bootFailed"}
    <3> HIDE DEF e
    <3> QED BY <1>1, <1>2, <2>2 DEF answer, whenRunning
  <2> QED BY <2>1, <2>2
<1>4. to \in LeaseState /\ to.tag = IF type = "retire" THEN "retired" ELSE "stopped"
  BY States
<1> HIDE DEF e, to
<1>5. /\ n \in Record /\ n.state = to /\ n.epoch = r.epoch + 1 /\ n.fired = {}
      /\ \E x \in Entry : /\ IsDestroy(x) /\ x.epoch = n.epoch
                          /\ n.outbox = Append(r.outbox, x)
  BY <1>2, <1>3, <1>4, Transition DEF Running
<1> HIDE DEF n
<1> QED BY <1>4, <1>5 DEF Ended, n, e

\* retire of a stopped lease.
LEMMA RetireStopped ==
  ASSUME NEW r \in Record, NEW t \in Nat, NEW f, r.state.tag = "stopped"
  PROVE  LET n == transition(r, [type |-> "retire"], f, t)
         IN n \in Record /\ Closed(r, n)
<1> DEFINE e == [type |-> "retire"]
           n == transition(r, e, f, t)
<1>1. e.type = "retire"
  OBVIOUS
<1>3. answer(r.state, e, f) = Move(retired, <<>>)
  <2> HIDE DEF e
  <2> QED BY <1>1 DEF answer, whenStopped
<1>4. retired \in LeaseState /\ retired.tag = "retired"
  BY States
<1> HIDE DEF e
<1>5. /\ n \in Record /\ n.state = retired /\ n.epoch = r.epoch + 1 /\ n.fired = {}
      /\ n.outbox = r.outbox
  BY <1>3, <1>4, Transition DEF Running
<1> HIDE DEF n
<1> QED BY <1>4, <1>5 DEF Closed, n, e

\* idle, once the deadline has passed: a lease in use is renewed, an unused one ends.
LEMMA IdleRunning ==
  ASSUME NEW r \in Record, NEW busy \in Nat, now \in Nat, Running(r), NEW f,
         f.busy = busy, f.now = now, \A x \in r.fired : x.at <= now,
         r.state.idleMs \in IdleMs, now >= r.state.lastActive + r.state.idleMs
  PROVE  LET n == transition(r, [type |-> "idle"], f, now)
         IN /\ n \in Record
            /\ IF busy > 0 THEN Renewed(r, n, now) ELSE Ended(r, n, "stopped")
<1> DEFINE e == [type |-> "idle"]
           n == transition(r, e, f, now)
           i == r.state.idleMs
           to == IF busy > 0 THEN running(now, i) ELSE stopped
<1>1. e.type = "idle"
  OBVIOUS
<1>2. /\ r.state \in LeaseState /\ r.state.tag = "running" /\ i \in IdleMs /\ i \in Nat
      /\ r.state.lastActive \in Nat
  BY RecordFields DEF Running
<1>3. answer(r.state, e, f) = Move(to, <<>>)
  <2>1. answer(r.state, e, f) = idleAnswer(r.state, f)
    <3> HIDE DEF e
    <3> QED BY <1>1, <1>2 DEF answer, whenRunning
  <2>2. CASE busy > 0
    BY <2>1, <2>2 DEF idleAnswer
  <2>3. CASE ~(busy > 0)
    <3>1. ~(now < r.state.lastActive + i)
      BY <1>2
    <3> QED BY <2>1, <2>3, <3>1 DEF idleAnswer
  <2> QED BY <2>2, <2>3
<1>4. CASE busy > 0
  <2>1. to \in LeaseState /\ to.tag = "running" /\ to.lastActive = now /\ to.idleMs = i
    BY <1>2, <1>4, States
  <2> HIDE DEF e, to
  <2>2. /\ n \in Record /\ n.state = to /\ n.epoch = r.epoch /\ n.fired = r.fired
        /\ n.outbox = r.outbox
    BY <1>2, <1>3, <2>1, Transition
  <2> HIDE DEF n
  <2> QED BY <1>2, <1>4, <2>1, <2>2 DEF Renewed, Running, n, e
<1>5. CASE ~(busy > 0)
  <2>1. to \in LeaseState /\ to.tag = "stopped"
    BY <1>5, States
  <2> HIDE DEF e, to
  <2>2. /\ n \in Record /\ n.state = to /\ n.epoch = r.epoch + 1 /\ n.fired = {}
        /\ \E x \in Entry : /\ IsDestroy(x) /\ x.epoch = n.epoch
                            /\ n.outbox = Append(r.outbox, x)
    BY <1>2, <1>3, <2>1, Transition DEF Running
  <2> HIDE DEF n
  <2> QED BY <1>5, <2>1, <2>2 DEF Ended, n, e
<1> QED BY <1>4, <1>5

\* The timers that are due.
Due(r) == {x \in pendingTimers(r) : x.at <= now}

\* With no timer due a wake changes nothing.
LEMMA FireNothing == \A r, f : Due(r) = {} => fireTimer(r, f, now) = r
BY DEF fireTimer, Due

\* The only timer that can be due is the idle deadline, once it has passed.
LEMMA DueTimers ==
  ASSUME NEW r \in Record, now \in Nat, Timed(r, now)
  PROVE  Due(r) = IF Running(r) /\ r.state.lastActive + r.state.idleMs <= now
                  THEN {[event |-> "idle", at |-> r.state.lastActive + r.state.idleMs]} ELSE {}
<1> DEFINE x == [event |-> "idle", at |-> r.state.lastActive + r.state.idleMs]
<1>1. x.at = r.state.lastActive + r.state.idleMs
  OBVIOUS
<1>2. timers(r.state) = IF Running(r) THEN {x} ELSE {}
  BY DEF timers, Running
<1>3. r.state.lastActive \in Nat /\ r.state.idleMs \in Nat
  BY RecordFields
<1> HIDE DEF x
<1>4. Running(r) => x \notin r.fired
  <2>1. ASSUME Running(r), x \in r.fired PROVE FALSE
    <3>1. x.at < r.state.lastActive + r.state.idleMs
      BY <2>1 DEF Timed
    <3> QED BY <1>1, <1>3, <3>1
  <2> QED BY <2>1
<1>5. Due(r) = IF Running(r) /\ r.state.lastActive + r.state.idleMs <= now THEN {x} ELSE {}
  BY <1>1, <1>2, <1>3, <1>4 DEF Due, pendingTimers
<1> QED BY <1>5 DEF x

\* One timer: the deadline is marked, and renews a lease in use or ends an unused one.
LEMMA FireIdle ==
  ASSUME NEW r \in Record, now \in Nat, Timed(r, now), NEW busy \in Nat,
         Running(r), r.state.lastActive + r.state.idleMs <= now
  PROVE  LET n == fireTimer(r, facts(busy, r), now)
         IN /\ n \in Record
            /\ IF busy > 0 THEN Renewed(r, n, now) ELSE Ended(r, n, "stopped")
<1> DEFINE x == [event |-> "idle", at |-> r.state.lastActive + r.state.idleMs]
           timer == CHOOSE t \in Due(r) : \A u \in Due(r) : t.at <= u.at
           marked == [r EXCEPT !.fired = {t \in @ : t.event # timer.event} \cup {timer}]
           f == facts(busy, r)
           n == fireTimer(r, f, now)
<1>0. /\ r.state.lastActive \in Nat /\ r.state.idleMs \in Nat /\ r.state.idleMs \in IdleMs
      /\ r.fired \subseteq Timer
  BY RecordFields DEF Timed
<1>1. x \in Timer /\ x.at = r.state.lastActive + r.state.idleMs /\ x.event = "idle"
  BY <1>0 DEF Timer
<1>2. Due(r) = {x}
  BY DueTimers
<1> HIDE DEF x
<1>3. timer = x
  BY <1>0, <1>1, <1>2
<1>4. {t \in r.fired : t.event # timer.event} \cup {timer} = {x}
  BY <1>0, <1>1, <1>3 DEF Timer
<1>5. /\ marked \in Record /\ marked.state = r.state /\ marked.epoch = r.epoch
      /\ marked.outbox = r.outbox /\ marked.fired = {x}
  <2>1. marked = [r EXCEPT !.fired = {x}]
    BY <1>4
  <2> HIDE DEF marked, timer
  <2> QED BY ONLY <2>1, <1>1, r \in Record DEF Record
<1>6. n = transition(marked, [type |-> "idle"], f, now)
  <2>1. n = transition(marked, [type |-> timer.event], f, now)
    BY <1>2 DEF fireTimer, Due
  <2> HIDE DEF timer, marked
  <2> QED BY <1>1, <1>3, <2>1
<1> HIDE DEF n, marked, timer, f
<1>7. f.busy = busy /\ f.now = now
  BY FactsFields DEF f
<1>8. Running(marked) /\ now >= marked.state.lastActive + marked.state.idleMs
      /\ marked.state.idleMs \in IdleMs /\ \A u \in marked.fired : u.at <= now
  BY <1>0, <1>1, <1>5 DEF Running
<1>9. /\ n \in Record
      /\ IF busy > 0 THEN Renewed(marked, n, now) ELSE Ended(marked, n, "stopped")
  BY <1>5, <1>6, <1>7, <1>8, IdleRunning
<1>10. /\ n \in Record
       /\ IF busy > 0 THEN Renewed(r, n, now) ELSE Ended(r, n, "stopped")
  BY <1>5, <1>9 DEF Renewed, Ended, Running
<1> QED BY <1>10 DEF n, f

\* An event keeps the marks of the deadlines in the past.
LEMMA TimedAfter ==
  ASSUME NEW r, NEW n \in Record, now \in Nat
  PROVE  /\ Renewed(r, n, now) \/ Booted(r, n, now) => Timed(n, now)
         /\ ~Running(n) => Timed(n, now)
         /\ Renewed(r, n, now) => Due(n) = {}
         /\ ~Running(n) => Due(n) = {}
<1>1. Renewed(r, n, now) \/ Booted(r, n, now) => Timed(n, now)
  <2>1. ASSUME Renewed(r, n, now) \/ Booted(r, n, now) PROVE Timed(n, now)
    <3>1. n.state.lastActive = now /\ n.state.idleMs \in IdleMs /\ \A x \in n.fired : x.at <= now
      BY <2>1 DEF Renewed, Booted
    <3>2. n.state.idleMs > 0 /\ n.state.idleMs \in Nat /\ \A x \in n.fired : x.at \in Nat
      BY <3>1, IdlesNat, RecordFields DEF Idles, Timer
    <3> QED BY <3>1, <3>2 DEF Timed
  <2> QED BY <2>1
<1>2. ~Running(n) => Timed(n, now)
  BY DEF Timed
<1>3. Renewed(r, n, now) => Due(n) = {}
  <2>1. ASSUME Renewed(r, n, now) PROVE Due(n) = {}
    <3>1. n.state.lastActive = now /\ n.state.idleMs \in IdleMs
      BY <2>1 DEF Renewed
    <3>2. n.state.idleMs > 0 /\ n.state.idleMs \in Nat
      BY <3>1, IdlesNat DEF Idles
    <3>3. ~(n.state.lastActive + n.state.idleMs <= now)
      BY <3>1, <3>2
    <3> QED BY <1>1, <2>1, <3>3, DueTimers
  <2> QED BY <2>1
<1>4. ~Running(n) => Due(n) = {}
  BY <1>2, DueTimers
<1> QED BY <1>1, <1>2, <1>3, <1>4

\* All timers of a wake: the first one leaves none that is due.
LEMMA FireTimers ==
  ASSUME NEW r \in Record, now \in Nat, Timed(r, now), NEW busy \in Nat
  PROVE  LET n == fireTimers(r, LAMBDA s : facts(busy, s), now)
         IN /\ n \in Record
            /\ \/ n = r
               \/ /\ Running(r) /\ r.state.lastActive + r.state.idleMs <= now
                  /\ IF busy > 0 THEN Renewed(r, n, now) ELSE Ended(r, n, "stopped")
<1> DEFINE N == 0..MaxFirings
           Fire(s) == fireTimer(s, facts(busy, s), now)
           G(h) == [n \in N |-> IF n = 0 THEN r ELSE Fire(h[n-1])]
           q == Fire(r)
           w == [n \in N |-> IF n = 0 THEN r ELSE q]
           after == CHOOSE h : h = G(h)
<1>1. /\ q \in Record
      /\ \/ q = r
         \/ /\ Running(r) /\ r.state.lastActive + r.state.idleMs <= now
            /\ IF busy > 0 THEN Renewed(r, q, now) ELSE Ended(r, q, "stopped")
      /\ Due(q) = {}
  <2>1. CASE Running(r) /\ r.state.lastActive + r.state.idleMs <= now
    <3>1. q \in Record /\ IF busy > 0 THEN Renewed(r, q, now) ELSE Ended(r, q, "stopped")
      BY <2>1, FireIdle
    <3> HIDE DEF q
    <3>2. Ended(r, q, "stopped") => ~Running(q)
      BY DEF Ended, Running
    <3>3. Due(q) = {}
      BY <3>1, <3>2, TimedAfter
    <3> QED BY <2>1, <3>1, <3>3
  <2>2. CASE ~(Running(r) /\ r.state.lastActive + r.state.idleMs <= now)
    <3>1. Due(r) = {}
      BY <2>2, DueTimers
    <3>2. q = r
      BY <3>1, FireNothing
    <3> HIDE DEF q
    <3> QED BY <3>1, <3>2
  <2> QED BY <2>1, <2>2
<1>2. Fire(q) = q
  BY <1>1, FireNothing
<1>3. MaxFirings \in Nat /\ MaxFirings >= 1
  BY LeaseAssumption
<1>q. q = Fire(r)
  OBVIOUS
<1> HIDE DEF q, Fire
<1>4. w = G(w)
  <2>1. ASSUME NEW n \in N PROVE w[n] = IF n = 0 THEN r ELSE Fire(w[n-1])
    <3>1. CASE n = 0
      BY <3>1
    <3>2. CASE n # 0
      <4>1. n - 1 \in N
        BY <1>3, <3>2
      <4>2. w[n] = q /\ w[n-1] = IF n - 1 = 0 THEN r ELSE q
        BY <3>2, <4>1
      <4> HIDE DEF w
      <4> QED BY <3>2, <4>2, <1>2, <1>q
    <3> QED BY <3>1, <3>2
  <2> QED BY <2>1
<1>5. after = G(after)
  <2> HIDE DEF w
  <2> QED BY <1>4
<1>6. \A n \in N : after[n] = IF n = 0 THEN r ELSE Fire(after[n-1])
  <2> HIDE DEF after
  <2> QED BY <1>5
<1> HIDE DEF after
<1>7. \A n \in N : n # 0 => after[n] = q
  <2> SUFFICES ASSUME NEW k \in N, k # 0, after[k] # q PROVE FALSE
    OBVIOUS
  <2> DEFINE A == {n \in N : n # 0 /\ after[n] # q}
  <2>1. A \subseteq Nat /\ A # {}
    BY <1>3
  <2>2. PICK m \in A : \A n \in A : ~(<<n, m>> \in OpToRel(<, Nat))
    BY <2>1, NatLessThanWellFounded, WFMin
  <2>3. m \in N /\ m # 0 /\ after[m] # q /\ m \in Nat /\ m - 1 \in N /\ m - 1 \in Nat
    <3>1. m \in A
      BY <2>2
    <3>2. m \in N /\ m # 0 /\ after[m] # q
      BY <3>1
    <3> HIDE DEF A
    <3> QED BY <1>3, <3>2
  <2>4. <<m - 1, m>> \in OpToRel(<, Nat)
    BY <2>3 DEF OpToRel
  <2>5. m - 1 \notin A
    BY <2>2, <2>4
  <2>6. after[m-1] = r \/ after[m-1] = q
    BY <1>6, <2>3, <2>5
  <2>7. after[m] = Fire(after[m-1])
    BY <1>6, <2>3
  <2> QED BY <1>2, <1>q, <2>3, <2>6, <2>7
<1>8. after[MaxFirings] = q
  BY <1>3, <1>7
<1>9. fireTimers(r, LAMBDA s : facts(busy, s), now) = after[MaxFirings]
  BY DEF fireTimers, after, Fire
<1> QED BY <1>1, <1>8, <1>9

-----------------------------------------------------------------------------
(* The outbox.                                                              *)

\* Every row is a boot or a release of its epoch; a boot of the current epoch means that the
\* lease runs, and a running lease boots again behind every destroy that is still queued.
QueueShape(r) ==
  /\ \A i \in 1..Len(r.outbox) :
       /\ r.outbox[i].epoch <= r.epoch
       /\ IsBoot(r.outbox[i], r.outbox[i].epoch) \/ IsDestroy(r.outbox[i])
       /\ IsBoot(r.outbox[i], r.epoch) => Running(r)
  /\ Running(r) =>
       \A i \in 1..Len(r.outbox) : IsDestroy(r.outbox[i]) =>
         \E j \in 1..Len(r.outbox) : j > i /\ IsBoot(r.outbox[j], r.epoch)
\* A boot of the current epoch waits.
BootDue(r) == \E i \in 1..Len(r.outbox) : IsBoot(r.outbox[i], r.epoch)
\* The first command stays the first.
HeadKept(r, n) ==
  r.outbox # <<>> => n.outbox # <<>> /\ Head(n.outbox).command = Head(r.outbox).command

\* The fields of a row.
LEMMA EntryFields ==
  ASSUME NEW x \in Entry
  PROVE  /\ x.command \in {"boot", "destroy"} /\ x.epoch \in Nat /\ x.attempts \in Nat
         /\ x.due \in Nat /\ x.release \in BOOLEAN
BY DEF Entry

\* A row that is added to the queue.
LEMMA Appended ==
  ASSUME NEW s \in Seq(Entry), NEW x \in Entry
  PROVE  /\ Append(s, x) \in Seq(Entry) /\ Len(Append(s, x)) = Len(s) + 1 /\ Len(s) \in Nat
         /\ Append(s, x) # <<>> /\ Append(s, x)[Len(s) + 1] = x
         /\ \A i \in 1..Len(s) : Append(s, x)[i] = s[i]
         /\ s # <<>> => Head(Append(s, x)) = Head(s)
<1>1. /\ Append(s, x) \in Seq(Entry) /\ Len(Append(s, x)) = Len(s) + 1 /\ Len(s) \in Nat
      /\ Append(s, x)[Len(s) + 1] = x /\ \A i \in 1..Len(s) : Append(s, x)[i] = s[i]
  BY AppendProperties, LenProperties
<1>2. Append(s, x) # <<>>
  BY <1>1
<1>3. s # <<>> => Head(Append(s, x)) = Head(s)
  BY HeadTailAppend
<1> QED BY <1>1, <1>2, <1>3

\* An event that queues a row keeps the others, and their order.
LEMMA ShapeBooted ==
  ASSUME NEW r \in Record, NEW n \in Record, NEW t, QueueShape(r), Booted(r, n, t)
  PROVE  /\ QueueShape(n) /\ BootDue(n) /\ HeadKept(r, n)
         /\ Queued(r, "destroy") => Queued(n, "destroy")
<1>1. PICK x \in Entry : IsBoot(x, n.epoch) /\ n.outbox = Append(r.outbox, x)
  BY DEF Booted
<1> DEFINE l == Len(r.outbox)
<1>2. /\ r.outbox \in Seq(Entry) /\ r.epoch \in Nat /\ n.epoch \in Nat /\ l \in Nat
      /\ Len(n.outbox) = l + 1 /\ n.outbox[l + 1] = x /\ n.outbox # <<>>
      /\ \A i \in 1..l : n.outbox[i] = r.outbox[i]
      /\ r.outbox # <<>> => Head(n.outbox) = Head(r.outbox)
  BY <1>1, RecordFields, Appended
<1>3. Running(n) /\ (n.epoch = r.epoch \/ n.epoch = r.epoch + 1)
  BY DEF Booted
<1>4. \A i \in 1..l : r.outbox[i].epoch \in Nat /\ r.outbox[i].epoch <= r.epoch
                      /\ (IsBoot(r.outbox[i], r.outbox[i].epoch) \/ IsDestroy(r.outbox[i]))
  BY <1>2, ElementOfSeq, EntryFields DEF QueueShape
<1>5. x.epoch = n.epoch /\ IsBoot(x, x.epoch) /\ ~IsDestroy(x)
  BY <1>1 DEF IsBoot, IsDestroy
<1> HIDE DEF l
<1>6. QueueShape(n)
  <2>1. ASSUME NEW i \in 1..(l + 1)
        PROVE  /\ n.outbox[i].epoch <= n.epoch
               /\ IsBoot(n.outbox[i], n.outbox[i].epoch) \/ IsDestroy(n.outbox[i])
               /\ IsDestroy(n.outbox[i]) =>
                    \E j \in 1..(l + 1) : j > i /\ IsBoot(n.outbox[j], n.epoch)
    <3>1. CASE i = l + 1
      BY <1>2, <1>5, <3>1
    <3>2. CASE i \in 1..l
      <4>1. n.outbox[i] = r.outbox[i] /\ r.outbox[i].epoch <= n.epoch
        BY <1>2, <1>3, <1>4, <3>2
      <4>2. l + 1 \in 1..(l + 1) /\ l + 1 > i
        BY <1>2, <3>2
      <4> QED BY <1>1, <1>2, <1>4, <3>2, <4>1, <4>2
    <3> QED BY <1>2, <3>1, <3>2
  <2> QED BY <1>2, <1>3, <2>1 DEF QueueShape
<1>7. BootDue(n)
  <2>1. l + 1 \in 1..Len(n.outbox)
    BY <1>2
  <2> QED BY <1>1, <1>2, <2>1 DEF BootDue
<1>8. HeadKept(r, n)
  BY <1>2 DEF HeadKept
<1>9. Queued(r, "destroy") => Queued(n, "destroy")
  <2>1. \A i \in 1..l : i \in 1..Len(n.outbox)
    BY <1>2
  <2> QED BY <1>2, <2>1 DEF Queued, l
<1> QED BY <1>6, <1>7, <1>8, <1>9

\* The end of a lease: every boot in the queue is of an earlier epoch.
LEMMA ShapeEnded ==
  ASSUME NEW r \in Record, NEW n \in Record, NEW to \in {"stopped", "retired"},
         QueueShape(r), Ended(r, n, to)
  PROVE  QueueShape(n) /\ HeadKept(r, n) /\ Queued(n, "destroy") /\ ~Running(n)
<1>1. PICK x \in Entry : IsDestroy(x) /\ x.epoch = n.epoch /\ n.outbox = Append(r.outbox, x)
  BY DEF Ended
<1> DEFINE l == Len(r.outbox)
<1>2. /\ r.outbox \in Seq(Entry) /\ r.epoch \in Nat /\ n.epoch \in Nat /\ l \in Nat
      /\ Len(n.outbox) = l + 1 /\ n.outbox[l + 1] = x /\ n.outbox # <<>>
      /\ \A i \in 1..l : n.outbox[i] = r.outbox[i]
      /\ r.outbox # <<>> => Head(n.outbox) = Head(r.outbox)
  BY <1>1, RecordFields, Appended
<1>3. ~Running(n) /\ n.epoch = r.epoch + 1
  BY DEF Ended, Running
<1>4. \A i \in 1..l : r.outbox[i].epoch \in Nat /\ r.outbox[i].epoch <= r.epoch
                      /\ (IsBoot(r.outbox[i], r.outbox[i].epoch) \/ IsDestroy(r.outbox[i]))
  BY <1>2, ElementOfSeq, EntryFields DEF QueueShape
<1>5. x.epoch = n.epoch /\ \A e : ~IsBoot(x, e)
  BY <1>1 DEF IsBoot, IsDestroy
<1> HIDE DEF l
<1>6. QueueShape(n)
  <2>1. ASSUME NEW i \in 1..(l + 1)
        PROVE  /\ n.outbox[i].epoch <= n.epoch
               /\ IsBoot(n.outbox[i], n.outbox[i].epoch) \/ IsDestroy(n.outbox[i])
               /\ ~IsBoot(n.outbox[i], n.epoch)
    <3>1. CASE i = l + 1
      BY <1>1, <1>2, <1>5, <3>1
    <3>2. CASE i \in 1..l
      <4>0. /\ n.outbox[i] = r.outbox[i] /\ r.outbox[i].epoch \in Nat
            /\ r.outbox[i].epoch <= r.epoch
        BY <1>2, <1>4, <3>2
      <4>1. r.outbox[i].epoch <= n.epoch /\ r.outbox[i].epoch # n.epoch
        BY ONLY <4>0, <1>2, <1>3
      <4> QED BY <1>4, <3>2, <4>0, <4>1 DEF IsBoot
    <3> QED BY <1>2, <3>1, <3>2
  <2> QED BY <1>2, <1>3, <2>1 DEF QueueShape
<1>8. HeadKept(r, n)
  BY <1>2 DEF HeadKept
<1>9. Queued(n, "destroy")
  <2>1. l + 1 \in 1..Len(n.outbox)
    BY <1>2
  <2> QED BY <1>1, <1>2, <2>1 DEF Queued, IsDestroy
<1> QED BY <1>3, <1>6, <1>8, <1>9

\* An event that queues nothing.
LEMMA ShapeKept ==
  ASSUME NEW r \in Record, NEW n \in Record, QueueShape(r), n.outbox = r.outbox,
         \/ n.epoch = r.epoch /\ (Running(n) <=> Running(r))
         \/ n.epoch = r.epoch + 1 /\ ~Running(n)
  PROVE  /\ QueueShape(n) /\ HeadKept(r, n) /\ (n.epoch = r.epoch /\ BootDue(r) => BootDue(n))
         /\ \A c : Queued(n, c) <=> Queued(r, c)
<1>1. \A i \in 1..Len(r.outbox) : r.outbox[i].epoch \in Nat /\ r.outbox[i].epoch <= r.epoch
  BY RecordFields, ElementOfSeq, EntryFields DEF QueueShape
<1>2. QueueShape(n)
  <2>1. CASE n.epoch = r.epoch /\ (Running(n) <=> Running(r))
    BY <2>1 DEF QueueShape
  <2>2. CASE n.epoch = r.epoch + 1 /\ ~Running(n)
    <3>1. \A i \in 1..Len(r.outbox) : r.outbox[i].epoch <= n.epoch /\ r.outbox[i].epoch # n.epoch
      BY <1>1, <2>2, RecordFields
    <3> QED BY <2>2, <3>1 DEF QueueShape, IsBoot
  <2> QED BY <2>1, <2>2
<1>3. HeadKept(r, n) /\ (n.epoch = r.epoch /\ BootDue(r) => BootDue(n))
      /\ \A c : Queued(n, c) <=> Queued(r, c)
  BY DEF HeadKept, BootDue, Queued
<1> QED BY <1>2, <1>3

\* The first row leaves the queue.
LEMMA Removed ==
  ASSUME NEW r \in Record, r.outbox # <<>>, NEW n, n = removed(r)
  PROVE  /\ n \in Record /\ n.state = r.state /\ n.epoch = r.epoch /\ n.fired = r.fired
         /\ n.outbox = Tail(r.outbox) /\ Head(r.outbox) \in Entry /\ Head(r.outbox) = r.outbox[1]
         /\ Len(r.outbox) \in Nat /\ Len(r.outbox) >= 1 /\ Len(n.outbox) = Len(r.outbox) - 1
         /\ \A i \in 1..Len(n.outbox) : n.outbox[i] = r.outbox[i + 1]
<1>1. r.outbox \in Seq(Entry)
  BY RecordFields
<1>2. /\ Tail(r.outbox) \in Seq(Entry) /\ Head(r.outbox) \in Entry /\ Head(r.outbox) = r.outbox[1]
      /\ Len(r.outbox) \in Nat /\ Len(r.outbox) >= 1 /\ Len(Tail(r.outbox)) = Len(r.outbox) - 1
      /\ \A i \in 1..Len(Tail(r.outbox)) : Tail(r.outbox)[i] = r.outbox[i + 1]
  <2>1. /\ Head(r.outbox) \in Entry /\ Tail(r.outbox) \in Seq(Entry)
        /\ Len(Tail(r.outbox)) = Len(r.outbox) - 1
        /\ \A i \in 1..Len(Tail(r.outbox)) : Tail(r.outbox)[i] = r.outbox[i + 1]
    BY <1>1, HeadTailProperties
  <2>2. Len(r.outbox) \in Nat
    BY <1>1, LenProperties
  <2>3. Len(r.outbox) # 0
    BY <1>1, EmptySeq
  <2>4. Head(r.outbox) = r.outbox[1]
    BY <1>1
  <2> QED BY <2>1, <2>2, <2>3, <2>4
<1> DEFINE o == Tail(r.outbox)
<1>3. n = [r EXCEPT !.outbox = o]
  BY DEF removed
<1> HIDE DEF o
<1>4. n \in Record /\ n.state = r.state /\ n.epoch = r.epoch /\ n.fired = r.fired /\ n.outbox = o
  BY ONLY <1>2, <1>3, r \in Record DEF Record, o
<1> QED BY <1>2, <1>4 DEF o

\* The queue without its first row.
LEMMA ShapeRemoved ==
  ASSUME NEW r \in Record, r.outbox # <<>>, QueueShape(r), NEW n, n = removed(r)
  PROVE  /\ n \in Record /\ QueueShape(n)
         /\ \A c : Queued(n, c) => Queued(r, c)
         /\ \A c : Queued(r, c) /\ Head(r.outbox).command # c => Queued(n, c)
         /\ BootDue(r) => BootDue(n) \/ IsBoot(Head(r.outbox), r.epoch)
<1>1. /\ n \in Record /\ n.state = r.state /\ n.epoch = r.epoch
      /\ Head(r.outbox) = r.outbox[1] /\ Len(r.outbox) \in Nat /\ Len(r.outbox) >= 1
      /\ Len(n.outbox) = Len(r.outbox) - 1
      /\ \A i \in 1..Len(n.outbox) : n.outbox[i] = r.outbox[i + 1]
  BY Removed
<1>2. \A i \in 1..Len(n.outbox) : i + 1 \in 1..Len(r.outbox)
  BY <1>1
<1>3. \A i \in 1..Len(r.outbox) : i = 1 \/ (i - 1 \in 1..Len(n.outbox)
                                            /\ n.outbox[i - 1] = r.outbox[i])
  BY <1>1
<1>4. QueueShape(n)
  <2>1. ASSUME NEW i \in 1..Len(n.outbox)
        PROVE  /\ n.outbox[i].epoch <= n.epoch
               /\ IsBoot(n.outbox[i], n.outbox[i].epoch) \/ IsDestroy(n.outbox[i])
               /\ IsBoot(n.outbox[i], n.epoch) => Running(n)
    <3>1. n.outbox[i] = r.outbox[i + 1] /\ i + 1 \in 1..Len(r.outbox)
      BY <1>1, <1>2
    <3> QED BY <1>1, <3>1 DEF QueueShape, Running
  <2>2. ASSUME Running(n), NEW i \in 1..Len(n.outbox), IsDestroy(n.outbox[i])
        PROVE  \E j \in 1..Len(n.outbox) : j > i /\ IsBoot(n.outbox[j], n.epoch)
    <3>1. n.outbox[i] = r.outbox[i + 1] /\ i + 1 \in 1..Len(r.outbox)
      BY <1>1, <1>2
    <3>2. Running(r)
      BY <1>1, <2>2 DEF Running
    <3>3. PICK j \in 1..Len(r.outbox) : j > i + 1 /\ IsBoot(r.outbox[j], r.epoch)
      BY <2>2, <3>1, <3>2 DEF QueueShape
    <3>4. j # 1 /\ j - 1 > i
      BY <3>3
    <3> QED BY <1>1, <1>3, <3>3, <3>4
  <2> QED BY <2>1, <2>2 DEF QueueShape
<1>5. \A c : Queued(n, c) => Queued(r, c)
  BY <1>1, <1>2 DEF Queued
<1>6. \A c : Queued(r, c) /\ Head(r.outbox).command # c => Queued(n, c)
  BY <1>1, <1>3 DEF Queued
<1>7. BootDue(r) => BootDue(n) \/ IsBoot(Head(r.outbox), r.epoch)
  BY <1>1, <1>3 DEF BootDue
<1> QED BY <1>1, <1>4, <1>5, <1>6, <1>7

\* A failed command keeps its place: only its attempts and its due time change.
LEMMA ShapeFailed ==
  ASSUME NEW r \in Record, r.outbox # <<>>, QueueShape(r), NEW t \in Nat, NEW n, n = failed(r, t)
  PROVE  /\ n \in Record /\ n.state = r.state /\ n.epoch = r.epoch /\ n.fired = r.fired
         /\ QueueShape(n) /\ HeadKept(r, n)
         /\ \A c : Queued(n, c) <=> Queued(r, c)
         /\ BootDue(r) => BootDue(n)
<1> DEFINE h == Head(r.outbox)
           a == h.attempts + 1
           d == t + retryDelay(a)
           k == [h EXCEPT !.attempts = a, !.due = d]
           tl == Tail(r.outbox)
           o == <<k>> \o tl
<1>0. /\ h \in Entry /\ h = r.outbox[1] /\ Len(r.outbox) \in Nat /\ Len(r.outbox) >= 1
      /\ tl \in Seq(Entry) /\ Len(tl) = Len(r.outbox) - 1
      /\ \A i \in 1..Len(tl) : tl[i] = r.outbox[i + 1]
  <2> DEFINE m == removed(r)
  <2>1. /\ m \in Record /\ m.outbox = Tail(r.outbox) /\ Head(r.outbox) \in Entry
        /\ Head(r.outbox) = r.outbox[1] /\ Len(r.outbox) \in Nat /\ Len(r.outbox) >= 1
        /\ Len(m.outbox) = Len(r.outbox) - 1
        /\ \A i \in 1..Len(m.outbox) : m.outbox[i] = r.outbox[i + 1]
    BY Removed
  <2> HIDE DEF m
  <2> QED BY <2>1, RecordFields
<1>1. n = [r EXCEPT !.outbox = o]
  BY DEF failed
<1>2. a \in Nat /\ d \in Nat
  <2>1. h.attempts \in Nat
    BY <1>0, EntryFields
  <2>2. RetryDelay \in Nat
    BY LeaseAssumption
  <2> QED BY <2>1, <2>2 DEF retryDelay
<1> HIDE DEF a, d, h
<1>3. k \in Entry /\ k.command = h.command /\ k.epoch = h.epoch /\ (k.release <=> h.release)
  BY ONLY <1>0, <1>2 DEF Entry
<1> HIDE DEF k, tl
<1>4. /\ o \in Seq(Entry) /\ Len(o) = Len(r.outbox) /\ o[1] = k /\ o # <<>> /\ Head(o) = k
      /\ \A i \in 1..Len(r.outbox) : i # 1 => o[i] = r.outbox[i]
  <2>1. <<k>> \in Seq(Entry) /\ Len(<<k>>) = 1 /\ <<k>>[1] = k
    BY <1>3
  <2>2. /\ o \in Seq(Entry) /\ Len(o) = Len(<<k>>) + Len(tl)
        /\ \A i \in 1..(Len(<<k>>) + Len(tl)) :
             o[i] = IF i <= Len(<<k>>) THEN <<k>>[i] ELSE tl[i - Len(<<k>>)]
    BY <1>0, <2>1, ConcatProperties
  <2> HIDE DEF o
  <2>3. /\ Len(o) = Len(r.outbox)
        /\ \A i \in 1..Len(r.outbox) : o[i] = IF i <= 1 THEN <<k>>[i] ELSE tl[i - 1]
    BY <1>0, <2>1, <2>2
  <2>4. o[1] = k
    BY <1>0, <2>1, <2>3
  <2>5. \A i \in 1..Len(r.outbox) : i # 1 => o[i] = r.outbox[i]
    BY <1>0, <2>3
  <2>6. o # <<>>
    BY <1>0, <2>3
  <2>7. Head(o) = k
    BY <2>2, <2>4, <2>6
  <2> QED BY <2>2, <2>3, <2>4, <2>5, <2>6, <2>7
<1> HIDE DEF o
<1>5. n \in Record /\ n.state = r.state /\ n.epoch = r.epoch /\ n.fired = r.fired /\ n.outbox = o
  BY ONLY <1>1, <1>4, r \in Record DEF Record
<1>6. /\ Len(n.outbox) = Len(r.outbox)
      /\ \A i \in 1..Len(r.outbox) :
           /\ n.outbox[i].command = r.outbox[i].command /\ n.outbox[i].epoch = r.outbox[i].epoch
           /\ n.outbox[i].release <=> r.outbox[i].release
  BY <1>0, <1>3, <1>4, <1>5
<1>7. \A i \in 1..Len(r.outbox) :
        /\ \A e : IsBoot(n.outbox[i], e) <=> IsBoot(r.outbox[i], e)
        /\ IsDestroy(n.outbox[i]) <=> IsDestroy(r.outbox[i])
  BY <1>6 DEF IsBoot, IsDestroy
<1>8. QueueShape(n)
  BY <1>5, <1>6, <1>7 DEF QueueShape, Running
<1>9. HeadKept(r, n)
  BY <1>3, <1>4, <1>5 DEF HeadKept, h
<1>10. \A c : Queued(n, c) <=> Queued(r, c)
  BY <1>6 DEF Queued
<1>11. BootDue(r) => BootDue(n)
  BY <1>5, <1>6, <1>7 DEF BootDue
<1> QED BY <1>5, <1>8, <1>9, <1>10, <1>11

\* What a drain knows of the command it takes or skips.
LEMMA Taken ==
  ASSUME NEW r \in Record, NEW t, QueueShape(r)
  PROVE  /\ take(r, t) \in {"Run", "Skipped"} => r.outbox # <<>>
         /\ take(r, t) = "Run" /\ Head(r.outbox).command = "boot" =>
              IsBoot(Head(r.outbox), r.epoch) /\ Running(r) /\ BootDue(r)
         /\ take(r, t) = "Skipped" =>
              Head(r.outbox).command = "boot" /\ ~IsBoot(Head(r.outbox), r.epoch)
<1>1. take(r, t) \in {"Run", "Skipped"} => r.outbox # <<>>
  BY DEF take
<1>2. ASSUME r.outbox # <<>>
      PROVE  /\ take(r, t) = "Run" /\ Head(r.outbox).command = "boot" =>
                  IsBoot(Head(r.outbox), r.epoch) /\ Running(r) /\ BootDue(r)
             /\ take(r, t) = "Skipped" =>
                  Head(r.outbox).command = "boot" /\ ~IsBoot(Head(r.outbox), r.epoch)
  <2> DEFINE h == Head(r.outbox)
             m == removed(r)
  <2>1. h \in Entry /\ h = r.outbox[1] /\ Len(r.outbox) \in Nat /\ Len(r.outbox) >= 1
    <3>1. m = removed(r)
      OBVIOUS
    <3> HIDE DEF m
    <3> QED BY <1>2, <3>1, Removed
  <2>2. 1 \in 1..Len(r.outbox)
    BY <2>1
  <2>3. /\ take(r, t) = "Run" => (h.release \/ h.epoch = r.epoch)
        /\ take(r, t) = "Skipped" => ~h.release /\ h.epoch # r.epoch
    BY <1>2 DEF take
  <2>4. IsBoot(h, h.epoch) \/ IsDestroy(h)
    BY <2>1, <2>2 DEF QueueShape
  <2>5. IsBoot(h, r.epoch) => Running(r) /\ BootDue(r)
    BY <2>1, <2>2 DEF QueueShape, BootDue
  <2> HIDE DEF h
  <2>6. /\ take(r, t) = "Run" /\ h.command = "boot" => IsBoot(h, r.epoch)
        /\ take(r, t) = "Skipped" => h.command = "boot" /\ ~IsBoot(h, r.epoch)
    BY <2>3, <2>4 DEF IsBoot, IsDestroy
  <2> QED BY <2>5, <2>6 DEF h
<1> QED BY <1>1, <1>2

-----------------------------------------------------------------------------
(* The invariant.                                                           *)

LeaseType ==
  /\ rec \in Record /\ now \in Nat /\ used \in Nat
  /\ container \in {"off", "starting", "ready"} /\ lost \subseteq Request
  /\ pc \in [Caller -> {"out", "waiting", "using"}]
  /\ handler \in {"none", "boot", "destroy", "broken"}
  /\ drainer = {} \/ \E c \in Caller : drainer = {c} /\ pc[c] = "waiting"
\* A container that starts for a running lease has its boot in the queue.
StartingShape == container = "starting" /\ Running(rec) => BootDue(rec)
\* A command under way is the first of the queue.
HandlerShape ==
  handler \in {"boot", "destroy"} => rec.outbox # <<>> /\ Head(rec.outbox).command = handler
\* A request that was let in and lost nothing: no boot is queued, so no destroy is.
AdmittedShape ==
  \A q \in Request : pc[q] = "using" /\ q \notin lost =>
    Running(rec) /\ container = "ready" /\ ~bootPending
\* The deadline trails the last use by at most the touches that were not written.
UsedShape == used <= now /\ (Running(rec) => used <= rec.state.lastActive + TouchInterval)

LeaseInv ==
  /\ LeaseType /\ AlarmArmed /\ QueueShape(rec) /\ Timed(rec, now)
  /\ NoLeak /\ StartingShape /\ HandlerShape /\ AdmittedShape /\ UsedShape

\* A container is the running lease's or is to be destroyed, and nobody who was let in loses
\* it to a command.
LEMMA InvOwned == LeaseInv => ContainerOwned
<1> SUFFICES ASSUME LeaseInv PROVE ContainerOwned
  OBVIOUS
<1>1. NoLeak
  BY DEF LeaseInv
<1>2. NoStaleDestroy
  <2> SUFFICES ASSUME rec.state.tag = "running", ~bootPending, Queued(rec, "destroy") PROVE FALSE
    BY DEF NoStaleDestroy
  <2>1. PICK i \in 1..Len(rec.outbox) : rec.outbox[i].command = "destroy"
    BY DEF Queued
  <2>2. IsDestroy(rec.outbox[i])
    BY <2>1 DEF LeaseInv, QueueShape, IsBoot
  <2>3. PICK j \in 1..Len(rec.outbox) : IsBoot(rec.outbox[j], rec.epoch)
    BY <2>2 DEF LeaseInv, QueueShape, Running
  <2> QED BY <2>3 DEF bootPending, Queued, IsBoot
<1>3. AdmittedContainerReady
  BY DEF LeaseInv, AdmittedShape, AdmittedContainerReady, Running
<1> QED BY <1>1, <1>2, <1>3 DEF ContainerOwned

\* A running lease has an unmarked deadline.
LEMMA InvPending == LeaseInv => TimersPending
<1> SUFFICES ASSUME LeaseInv, Running(rec) PROVE pendingTimers(rec) # {}
  BY DEF TimersPending, IdleTimerPending, Running, LeaseInv
<1> DEFINE x == [event |-> "idle", at |-> rec.state.lastActive + rec.state.idleMs]
<1>1. timers(rec.state) = {x} /\ x.at = rec.state.lastActive + rec.state.idleMs
  BY DEF timers, Running
<1>2. x.at \in Nat
  <2>1. rec \in Record
    BY DEF LeaseInv, LeaseType
  <2> QED BY <1>1, <2>1, RecordFields
<1> HIDE DEF x
<1>3. x \notin rec.fired
  BY <1>1, <1>2 DEF LeaseInv, Timed
<1> QED BY <1>1, <1>3 DEF pendingTimers

-----------------------------------------------------------------------------
(* What one event does to the invariant.                                    *)

EventStep(r, n) ==
  \/ n = r \/ Renewed(r, n, now) \/ Booted(r, n, now) \/ Closed(r, n)
  \/ \E to \in {"stopped", "retired"} : Ended(r, n, to)
\* An event that neither starts nor ends anything.
Calm(r, n) == n = r \/ Renewed(r, n, now)

\* What every event keeps of the record.
LEMMA EventShape ==
  ASSUME NEW r \in Record, NEW n \in Record, now \in Nat, QueueShape(r), Timed(r, now),
         EventStep(r, n)
  PROVE  /\ QueueShape(n) /\ Timed(n, now) /\ HeadKept(r, n)
         /\ Queued(r, "destroy") => Queued(n, "destroy")
         /\ Running(r) => Running(n) \/ Queued(n, "destroy")
         /\ Running(n) => BootDue(n) \/ (Running(r) /\ (BootDue(r) => BootDue(n)))
         /\ Running(n) => n = r \/ n.state.lastActive = now
<1>1. CASE n = r
  BY <1>1 DEF HeadKept
<1>2. CASE Renewed(r, n, now)
  <2>1. n.outbox = r.outbox /\ n.epoch = r.epoch /\ Running(r) /\ Running(n)
        /\ n.state.lastActive = now
    BY <1>2 DEF Renewed
  <2>2. Timed(n, now)
    BY <1>2, TimedAfter
  <2>3. QueueShape(n) /\ HeadKept(r, n) /\ (BootDue(r) => BootDue(n))
        /\ \A c : Queued(n, c) <=> Queued(r, c)
    BY <2>1, ShapeKept
  <2> QED BY <2>1, <2>2, <2>3
<1>3. CASE Booted(r, n, now)
  <2>1. Running(n) /\ n.state.lastActive = now
    BY <1>3 DEF Booted
  <2>2. Timed(n, now)
    BY <1>3, TimedAfter
  <2>3. QueueShape(n) /\ BootDue(n) /\ HeadKept(r, n)
        /\ (Queued(r, "destroy") => Queued(n, "destroy"))
    BY <1>3, ShapeBooted
  <2> QED BY <2>1, <2>2, <2>3
<1>4. CASE Closed(r, n)
  <2>1. n.outbox = r.outbox /\ n.epoch = r.epoch + 1 /\ ~Running(r) /\ ~Running(n)
    BY <1>4 DEF Closed, Running
  <2>2. Timed(n, now)
    BY <2>1, TimedAfter
  <2>3. QueueShape(n) /\ HeadKept(r, n) /\ \A c : Queued(n, c) <=> Queued(r, c)
    BY <2>1, ShapeKept
  <2> QED BY <2>1, <2>2, <2>3
<1>5. ASSUME NEW to \in {"stopped", "retired"}, Ended(r, n, to)
      PROVE  QueueShape(n) /\ HeadKept(r, n) /\ Queued(n, "destroy") /\ ~Running(n) /\ Timed(n, now)
  BY <1>5, ShapeEnded, TimedAfter
<1> QED BY <1>1, <1>2, <1>3, <1>4, <1>5 DEF EventStep

\* A commit arms the alarm for the record it stores.
LEMMA Committed ==
  ASSUME NEW x, Commit(x) PROVE rec' = x /\ AlarmArmed'
BY DEF Commit, AlarmArmed

\* What the invariant says of the record.
LEMMA InvRec ==
  ASSUME LeaseInv
  PROVE  /\ rec \in Record /\ now \in Nat /\ QueueShape(rec) /\ Timed(rec, now) /\ AlarmArmed
         /\ rec.state.tag \in {"stopped", "running", "retired"}
<1>1. rec \in Record /\ now \in Nat /\ QueueShape(rec) /\ Timed(rec, now) /\ AlarmArmed
  BY DEF LeaseInv, LeaseType
<1> QED BY <1>1, RecordFields DEF Tag

\* touch
LEMMA TouchStep ==
  ASSUME LeaseInv, NEW busy, touch(busy)
  PROVE  /\ rec' \in Record /\ Calm(rec, rec') /\ AlarmArmed'
         /\ Running(rec) /\ rec' = rec => now <= rec.state.lastActive + TouchInterval
<1>0. rec.state.lastActive \in Nat /\ TouchInterval \in Nat /\ now \in Nat
  BY InvRec, RecordFields, LeaseAssumption
<1>1. CASE rec.state.tag # "running" \/ now < rec.state.lastActive + TouchInterval
  <2>1. rec' = rec /\ alarm' = alarm
    BY <1>1 DEF touch
  <2>2. AlarmArmed'
    BY <2>1, InvRec DEF AlarmArmed
  <2> QED BY <1>0, <1>1, <2>1, <2>2, InvRec DEF Calm, Running
<1>2. CASE ~(rec.state.tag # "running" \/ now < rec.state.lastActive + TouchInterval)
  <2>1. Commit(transition(rec, [type |-> "touch"], facts(busy, rec), now))
    BY <1>2 DEF touch, Applied
  <2>2. rec' \in Record /\ Renewed(rec, rec', now)
    BY <1>2, <2>1, Committed, InvRec, TouchRunning DEF Running
  <2>3. rec'.state.lastActive = now
    BY <2>2 DEF Renewed
  <2> QED BY <1>0, <2>1, <2>2, <2>3, Committed DEF Calm
<1> QED BY <1>1, <1>2

\* need
LEMMA NeedStep ==
  ASSUME LeaseInv, NEW busy, NEW i \in IdleMs,
         Commit(Applied([type |-> "need", idleMs |-> i], busy))
  PROVE  /\ rec' \in Record /\ EventStep(rec, rec') /\ AlarmArmed'
         /\ Running(rec) /\ containerRunning => Calm(rec, rec')
<1> DEFINE n == transition(rec, [type |-> "need", idleMs |-> i], facts(busy, rec), now)
<1>1. rec' = n /\ AlarmArmed'
  BY Committed DEF Applied
<1>2. CASE rec.state.tag = "stopped"
  <2>1. n \in Record /\ Booted(rec, n, now)
    BY <1>2, InvRec, NeedStopped
  <2> HIDE DEF n
  <2> QED BY <1>1, <1>2, <2>1 DEF EventStep, Running
<1>3. CASE Running(rec)
  <2>1. n \in Record /\ IF containerRunning \/ Queued(rec, "boot") THEN Renewed(rec, n, now)
                        ELSE Booted(rec, n, now)
    BY <1>3, InvRec, NeedRunning
  <2> HIDE DEF n
  <2> QED BY <1>1, <2>1 DEF EventStep, Calm
<1>4. CASE rec.state.tag = "retired"
  <2>1. n = rec
    BY <1>4, InvRec, Ignored
  <2> HIDE DEF n
  <2> QED BY <1>1, <2>1, InvRec DEF EventStep, Calm
<1> QED BY <1>2, <1>3, <1>4, InvRec DEF Running

\* acquire: need, or only a touch of a lease whose container runs.
LEMMA AcquireStep ==
  ASSUME LeaseInv, NEW busy, acquire(busy)
  PROVE  /\ rec' \in Record /\ EventStep(rec, rec') /\ AlarmArmed'
         /\ Running(rec) /\ containerRunning => Calm(rec, rec')
<1>1. CASE rec.state.tag = "running" /\ containerRunning
  <2>1. touch(busy)
    BY <1>1 DEF acquire
  <2> QED BY <2>1, TouchStep DEF EventStep, Calm
<1>2. CASE ~(rec.state.tag = "running" /\ containerRunning)
  BY <1>2, NeedStep DEF acquire
<1> QED BY <1>1, <1>2

\* stop and retire
LEMMA EndStep ==
  ASSUME LeaseInv, NEW busy, NEW type \in {"stop", "retire"}, Commit(Applied([type |-> type], busy))
  PROVE  rec' \in Record /\ EventStep(rec, rec') /\ AlarmArmed'
<1> DEFINE n == transition(rec, [type |-> type], facts(busy, rec), now)
<1>1. rec' = n /\ AlarmArmed'
  BY Committed DEF Applied
<1>2. CASE Running(rec)
  <2>1. n \in Record /\ Ended(rec, n, IF type = "retire" THEN "retired" ELSE "stopped")
    BY <1>2, InvRec, EndRunning
  <2> HIDE DEF n
  <2> QED BY <1>1, <2>1 DEF EventStep
<1>3. CASE rec.state.tag = "stopped" /\ type = "retire"
  <2>1. n \in Record /\ Closed(rec, n)
    BY <1>3, InvRec, RetireStopped
  <2> HIDE DEF n
  <2> QED BY <1>1, <2>1 DEF EventStep
<1>4. CASE rec.state.tag = "retired" \/ (rec.state.tag = "stopped" /\ type = "stop")
  <2> DEFINE e == [type |-> type]
  <2>0. e.type = type
    OBVIOUS
  <2> HIDE DEF e
  <2>1. transition(rec, e, facts(busy, rec), now) = rec
    BY <1>4, <2>0, InvRec, Ignored
  <2> QED BY <1>1, <2>1, InvRec DEF EventStep, e
<1> QED BY <1>2, <1>3, <1>4, InvRec DEF Running

\* wake
LEMMA FireStep ==
  ASSUME LeaseInv, NEW busy \in Nat, Commit(fireTimers(rec, LAMBDA r : facts(busy, r), now))
  PROVE  /\ rec' \in Record /\ EventStep(rec, rec') /\ AlarmArmed'
         /\ \/ Calm(rec, rec')
            \/ busy = 0 /\ Running(rec) /\ rec.state.lastActive + rec.state.idleMs <= now
<1>1. rec' = fireTimers(rec, LAMBDA r : facts(busy, r), now) /\ AlarmArmed'
  BY Committed
<1>2. /\ rec' \in Record
      /\ \/ rec' = rec
         \/ /\ Running(rec) /\ rec.state.lastActive + rec.state.idleMs <= now
            /\ IF busy > 0 THEN Renewed(rec, rec', now) ELSE Ended(rec, rec', "stopped")
  BY <1>1, InvRec, FireTimers
<1> QED BY <1>1, <1>2 DEF EventStep, Calm

-----------------------------------------------------------------------------
(* Each action keeps the invariant.                                         *)

\* The parts of the invariant that one event touches.
LEMMA RecordStep ==
  ASSUME LeaseInv, rec' \in Record, EventStep(rec, rec'), UNCHANGED <<now, container, handler>>
  PROVE  /\ (QueueShape(rec) /\ Timed(rec, now) /\ NoLeak /\ StartingShape /\ HandlerShape)'
         /\ Running(rec') => rec' = rec \/ rec'.state.lastActive = now
<1>1. /\ QueueShape(rec') /\ Timed(rec', now) /\ HeadKept(rec, rec')
      /\ Queued(rec, "destroy") => Queued(rec', "destroy")
      /\ Running(rec) => Running(rec') \/ Queued(rec', "destroy")
      /\ Running(rec') => BootDue(rec') \/ (Running(rec) /\ (BootDue(rec) => BootDue(rec')))
      /\ Running(rec') => rec' = rec \/ rec'.state.lastActive = now
  BY InvRec, EventShape
<1>2. NoLeak'
  BY <1>1 DEF LeaseInv, NoLeak, containerRunning, Running
<1>3. StartingShape'
  BY <1>1 DEF LeaseInv, StartingShape
<1>4. HandlerShape'
  BY <1>1 DEF LeaseInv, HandlerShape, HeadKept
<1> QED BY <1>1, <1>2, <1>3, <1>4

\* An event that is not the end of a use.
LEMMA UsedKept ==
  ASSUME LeaseInv, rec' \in Record, EventStep(rec, rec'),
         UNCHANGED <<now, container, handler, used>>
  PROVE  UsedShape'
<1>1. Running(rec') => rec' = rec \/ rec'.state.lastActive = now
  BY RecordStep
<1>2. now \in Nat /\ used \in Nat /\ TouchInterval \in Nat /\ UsedShape
  BY LeaseAssumption DEF LeaseInv, LeaseType
<1> QED BY <1>1, <1>2 DEF UsedShape

\* A request keeps what it was given over an event that starts and ends nothing.
LEMMA AdmittedKept ==
  ASSUME LeaseInv, container' = container,
         \A q \in Request : pc'[q] = "using" /\ q \notin lost' =>
           pc[q] = "using" /\ q \notin lost /\ (Running(rec) /\ containerRunning => Calm(rec, rec'))
  PROVE  AdmittedShape'
<1> SUFFICES ASSUME NEW q \in Request, pc'[q] = "using", q \notin lost'
             PROVE  Running(rec') /\ container' = "ready" /\ ~Queued(rec', "boot")
  BY DEF AdmittedShape, bootPending
<1>1. Running(rec) /\ container = "ready" /\ ~Queued(rec, "boot")
  BY DEF LeaseInv, AdmittedShape, bootPending
<1>2. Calm(rec, rec')
  BY <1>1 DEF containerRunning
<1> QED BY <1>1, <1>2 DEF Calm, Renewed, Queued

\* The callers are the requests, the owner and the alarm.
LEMMA Callers == /\ \A q \in Request : q \in Caller /\ q # "owner" /\ q # "wake"
                 /\ "owner" \in Caller /\ "wake" \in Caller
BY LeaseAssumption DEF Caller

\* The types of what an event leaves alone, when one caller moves.
LEMMA TypeMoved ==
  ASSUME LeaseInv, NEW c \in Caller, NEW p \in {"out", "waiting", "using"},
         pc' = [pc EXCEPT ![c] = p], pc[c] # "waiting", rec' \in Record,
         UNCHANGED <<now, container, handler, drainer>>, lost' \subseteq Request, used' \in Nat
  PROVE  LeaseType'
<1>1. LeaseType
  BY DEF LeaseInv
<1>2. pc' \in [Caller -> {"out", "waiting", "using"}]
  BY <1>1 DEF LeaseType
<1>3. drainer = {} \/ \E d \in Caller : drainer = {d} /\ pc'[d] = "waiting"
  BY <1>1 DEF LeaseType
<1> QED BY <1>1, <1>2, <1>3 DEF LeaseType

\* A request enters hold.
LEMMA EnterStep ==
  ASSUME LeaseInv, NEW q \in Request, Enter(q)
  PROVE  LeaseInv'
<1>1. /\ rec' \in Record /\ EventStep(rec, rec') /\ AlarmArmed'
      /\ Running(rec) /\ containerRunning => Calm(rec, rec')
  BY AcquireStep DEF Enter
<1>2. /\ pc[q] = "out" /\ pc' = [pc EXCEPT ![q] = "waiting"] /\ lost' = lost \ {q}
      /\ UNCHANGED <<now, container, handler, drainer, used>>
  BY DEF Enter, World, Memory
<1>3. (QueueShape(rec) /\ Timed(rec, now) /\ NoLeak /\ StartingShape /\ HandlerShape)'
  BY <1>1, <1>2, RecordStep
<1>4. UsedShape'
  BY <1>1, <1>2, UsedKept
<1>5. AdmittedShape'
  <2>1. pc \in [Caller -> {"out", "waiting", "using"}]
    BY DEF LeaseInv, LeaseType
  <2>2. \A x \in Request : pc'[x] = "using" => pc[x] = "using" /\ x # q
    BY <1>2, <2>1, Callers
  <2> QED BY <1>1, <1>2, <2>2, AdmittedKept
<1>6. LeaseType'
  BY <1>1, <1>2, TypeMoved, Callers DEF LeaseInv, LeaseType
<1> QED BY <1>1, <1>3, <1>4, <1>5, <1>6 DEF LeaseInv

\* A request acquires again in its hold.
LEMMA AcquireAgainStep ==
  ASSUME LeaseInv, NEW q \in Request, AcquireAgain(q)
  PROVE  LeaseInv'
<1>1. /\ rec' \in Record /\ EventStep(rec, rec') /\ AlarmArmed'
      /\ Running(rec) /\ containerRunning => Calm(rec, rec')
  BY AcquireStep DEF AcquireAgain
<1>2. /\ pc[q] = "using" /\ pc' = [pc EXCEPT ![q] = "waiting"]
      /\ UNCHANGED <<now, container, handler, drainer, used, lost>>
  BY DEF AcquireAgain, World, Memory
<1>3. (QueueShape(rec) /\ Timed(rec, now) /\ NoLeak /\ StartingShape /\ HandlerShape)'
  BY <1>1, <1>2, RecordStep
<1>4. UsedShape'
  BY <1>1, <1>2, UsedKept
<1>5. AdmittedShape'
  <2>1. pc \in [Caller -> {"out", "waiting", "using"}]
    BY DEF LeaseInv, LeaseType
  <2>2. \A x \in Request : pc'[x] = "using" => pc[x] = "using" /\ x # q
    BY <1>2, <2>1, Callers
  <2> QED BY <1>1, <1>2, <2>2, AdmittedKept
<1>6. LeaseType'
  BY <1>1, <1>2, TypeMoved, Callers DEF LeaseInv, LeaseType
<1> QED BY <1>1, <1>3, <1>4, <1>5, <1>6 DEF LeaseInv

\* The end of a use writes the time of it, or is close to the last one that was written.
LEMMA UsedNow ==
  ASSUME LeaseInv, NEW busy, touch(busy), used' = now, now' = now
  PROVE  UsedShape'
<1>1. /\ rec' \in Record /\ Calm(rec, rec')
      /\ Running(rec) /\ rec' = rec => now <= rec.state.lastActive + TouchInterval
  BY TouchStep
<1>2. now \in Nat /\ TouchInterval \in Nat
  BY InvRec, LeaseAssumption
<1>3. Renewed(rec, rec', now) => rec'.state.lastActive = now
  BY DEF Renewed
<1> QED BY <1>1, <1>2, <1>3 DEF UsedShape, Calm

\* A request ends its use.
LEMMA EndUseStep ==
  ASSUME LeaseInv, NEW q \in Request, EndUse(q)
  PROVE  LeaseInv'
<1>1. /\ pc[q] = "using" /\ pc' = [pc EXCEPT ![q] = "out"] /\ used' = now
      /\ UNCHANGED <<now, container, handler, drainer, lost>> /\ touch(Cardinality(Inside) - 1)
  BY DEF EndUse, Leave, World, Memory
<1>2. rec' \in Record /\ EventStep(rec, rec') /\ Calm(rec, rec') /\ AlarmArmed'
  BY <1>1, TouchStep DEF EventStep, Calm
<1>3. (QueueShape(rec) /\ Timed(rec, now) /\ NoLeak /\ StartingShape /\ HandlerShape)'
  BY <1>1, <1>2, RecordStep
<1>4. UsedShape'
  BY <1>1, UsedNow
<1>5. AdmittedShape'
  <2>1. pc \in [Caller -> {"out", "waiting", "using"}]
    BY DEF LeaseInv, LeaseType
  <2>2. \A x \in Request : pc'[x] = "using" => pc[x] = "using" /\ x # q
    BY <1>1, <2>1, Callers
  <2> QED BY <1>1, <1>2, <2>2, AdmittedKept
<1>6. LeaseType'
  BY <1>1, <1>2, TypeMoved, Callers DEF LeaseInv, LeaseType
<1> QED BY <1>2, <1>3, <1>4, <1>5, <1>6 DEF LeaseInv

\* The owner renews the lease.
LEMMA RenewStep ==
  ASSUME LeaseInv, Renew
  PROVE  LeaseInv'
<1>1. /\ pc["owner"] = "out" /\ pc' = [pc EXCEPT !["owner"] = "waiting"]
      /\ UNCHANGED <<now, container, handler, drainer, used, lost>>
  BY DEF Renew, World, Memory
<1>2. /\ rec' \in Record /\ EventStep(rec, rec') /\ AlarmArmed'
      /\ Running(rec) /\ containerRunning => Calm(rec, rec')
  BY NeedStep DEF Renew
<1>3. (QueueShape(rec) /\ Timed(rec, now) /\ NoLeak /\ StartingShape /\ HandlerShape)'
  BY <1>1, <1>2, RecordStep
<1>4. UsedShape'
  BY <1>1, <1>2, UsedKept
<1>5. AdmittedShape'
  <2>1. \A x \in Request : pc'[x] = pc[x]
    BY <1>1, Callers DEF LeaseInv, LeaseType
  <2> QED BY <1>1, <1>2, <2>1, AdmittedKept
<1>6. LeaseType'
  BY <1>1, <1>2, TypeMoved, Callers DEF LeaseInv, LeaseType
<1> QED BY <1>2, <1>3, <1>4, <1>5, <1>6 DEF LeaseInv

\* The owner stops or retires the lease, under whoever uses it.
LEMMA StopStep ==
  ASSUME LeaseInv, NEW event \in {"stop", "retire"}, End(event)
  PROVE  LeaseInv'
<1>1. /\ pc["owner"] = "out" /\ pc' = [pc EXCEPT !["owner"] = "waiting"] /\ lost' = Inside
      /\ UNCHANGED <<now, container, handler, drainer, used>>
  BY DEF End, World, Memory
<1>2. rec' \in Record /\ EventStep(rec, rec') /\ AlarmArmed'
  BY EndStep DEF End
<1>3. (QueueShape(rec) /\ Timed(rec, now) /\ NoLeak /\ StartingShape /\ HandlerShape)'
  BY <1>1, <1>2, RecordStep
<1>4. UsedShape'
  BY <1>1, <1>2, UsedKept
<1>5. AdmittedShape'
  <2>1. \A x \in Request : pc'[x] = pc[x]
    BY <1>1, Callers DEF LeaseInv, LeaseType
  <2> QED BY <1>1, <2>1 DEF AdmittedShape, Inside
<1>6. LeaseType'
  BY <1>1, <1>2, TypeMoved, Callers DEF LeaseInv, LeaseType, Inside
<1> QED BY <1>2, <1>3, <1>4, <1>5, <1>6 DEF LeaseInv

\* A touch from another object.
LEMMA TouchActionStep ==
  ASSUME LeaseInv, Touch
  PROVE  LeaseInv'
<1>1. /\ touch(Cardinality(Inside))
      /\ UNCHANGED <<now, container, handler, drainer, used, lost, pc>>
  BY DEF Touch, World, Memory
<1>2. rec' \in Record /\ EventStep(rec, rec') /\ Calm(rec, rec') /\ AlarmArmed'
  BY <1>1, TouchStep DEF EventStep, Calm
<1>3. (QueueShape(rec) /\ Timed(rec, now) /\ NoLeak /\ StartingShape /\ HandlerShape)'
  BY <1>1, <1>2, RecordStep
<1>4. UsedShape'
  BY <1>1, <1>2, UsedKept
<1>5. AdmittedShape'
  BY <1>1, <1>2, AdmittedKept
<1>6. LeaseType'
  BY <1>1, <1>2 DEF LeaseInv, LeaseType
<1> QED BY <1>2, <1>3, <1>4, <1>5, <1>6 DEF LeaseInv

\* The number of requests in hold.
LEMMA Busy ==
  ASSUME LeaseInv
  PROVE  /\ Cardinality(Inside) \in Nat
         /\ \A q \in Request : pc[q] # "out" => Cardinality(Inside) # 0
<1>1. IsFiniteSet(Inside)
  BY LeaseAssumption, FS_Subset DEF Inside
<1> QED BY <1>1, FS_CardinalityType, FS_EmptySet DEF Inside

\* The alarm: a request in hold keeps its lease.
LEMMA WakeStep ==
  ASSUME LeaseInv, Wake
  PROVE  LeaseInv'
<1> DEFINE busy == Cardinality(Inside)
<1>1. /\ pc["wake"] = "out" /\ pc' = [pc EXCEPT !["wake"] = "waiting"]
      /\ UNCHANGED <<now, container, handler, drainer, used, lost>>
      /\ Commit(fireTimers(rec, LAMBDA r : facts(busy, r), now))
  BY DEF Wake, World, Memory
<1>2. busy \in Nat /\ \A q \in Request : pc[q] # "out" => busy # 0
  BY Busy
<1> HIDE DEF busy
<1>3. /\ rec' \in Record /\ EventStep(rec, rec') /\ AlarmArmed'
      /\ Calm(rec, rec') \/ busy = 0
  BY <1>1, <1>2, FireStep
<1>4. (QueueShape(rec) /\ Timed(rec, now) /\ NoLeak /\ StartingShape /\ HandlerShape)'
  BY <1>1, <1>3, RecordStep
<1>5. UsedShape'
  BY <1>1, <1>3, UsedKept
<1>6. AdmittedShape'
  <2>1. \A x \in Request : pc'[x] = pc[x]
    BY <1>1, Callers DEF LeaseInv, LeaseType
  <2> QED BY <1>1, <1>2, <1>3, <2>1, AdmittedKept
<1>7. LeaseType'
  BY <1>1, <1>3, TypeMoved, Callers DEF LeaseInv, LeaseType
<1> QED BY <1>3, <1>4, <1>5, <1>6, <1>7 DEF LeaseInv

\* The drain.
LEMMA DrainBeginsStep ==
  ASSUME LeaseInv, NEW c \in Caller, DrainBegins(c)
  PROVE  LeaseInv'
<1>1. /\ pc[c] = "waiting" /\ drainer' = {c}
      /\ UNCHANGED <<rec, alarm, now, container, handler, used, lost, pc>>
  BY DEF DrainBegins, World
<1>2. LeaseType'
  BY <1>1 DEF LeaseInv, LeaseType
<1> QED
  BY <1>1, <1>2 DEF LeaseInv, AlarmArmed, NoLeak, containerRunning, StartingShape, HandlerShape,
     AdmittedShape, bootPending, UsedShape

\* The row that is taken leaves the queue, and nothing else happens.
LEMMA RemovedStep ==
  ASSUME LeaseInv, rec.outbox # <<>>, Commit(removed(rec)),
         UNCHANGED <<now, pc, drainer, lost, used>>,
         container' \in {"off", "starting", "ready"}, handler' = "none",
         Head(rec.outbox).command = "destroy" => container' = "off",
         containerRunning' => containerRunning,
         container' = "starting" => container = "starting" /\ ~IsBoot(Head(rec.outbox), rec.epoch),
         container' # "ready" => container # "ready" \/ Head(rec.outbox).command = "destroy"
  PROVE  LeaseInv'
<1>1. rec' = removed(rec) /\ AlarmArmed'
  BY Committed
<1>2. /\ rec' \in Record /\ rec'.state = rec.state /\ rec'.epoch = rec.epoch
      /\ rec'.fired = rec.fired
  BY <1>1, InvRec, Removed
<1>3. /\ QueueShape(rec')
      /\ \A c : Queued(rec', c) => Queued(rec, c)
      /\ \A c : Queued(rec, c) /\ Head(rec.outbox).command # c => Queued(rec', c)
      /\ BootDue(rec) => BootDue(rec') \/ IsBoot(Head(rec.outbox), rec.epoch)
  BY <1>1, InvRec, ShapeRemoved
<1>4. Running(rec') <=> Running(rec)
  BY <1>2 DEF Running
<1>5. Timed(rec', now')
  BY <1>2, <1>4, InvRec DEF Timed
<1>6. NoLeak'
  <2>1. NoLeak
    BY DEF LeaseInv
  <2>2. CASE Head(rec.outbox).command = "destroy"
    BY <2>2 DEF NoLeak, containerRunning
  <2>3. CASE Head(rec.outbox).command # "destroy"
    BY <1>3, <1>4, <2>1, <2>3 DEF NoLeak, Running
  <2> QED BY <2>2, <2>3
<1>7. StartingShape'
  BY <1>3, <1>4 DEF LeaseInv, StartingShape
<1>8. HandlerShape'
  BY DEF HandlerShape
<1>9. AdmittedShape'
  <2> SUFFICES ASSUME NEW q \in Request, pc'[q] = "using", q \notin lost'
               PROVE  Running(rec') /\ container' = "ready" /\ ~Queued(rec', "boot")
    BY DEF AdmittedShape, bootPending
  <2>1. Running(rec) /\ container = "ready" /\ ~Queued(rec, "boot")
    BY DEF LeaseInv, AdmittedShape, bootPending
  <2>2. ~Queued(rec, "destroy")
    <3>1. NoStaleDestroy
      BY InvOwned DEF ContainerOwned
    <3> QED BY <2>1, <3>1 DEF NoStaleDestroy, bootPending, Running
  <2>3. Head(rec.outbox).command # "destroy"
    <3>1. Head(rec.outbox) = rec.outbox[1] /\ Len(rec.outbox) \in Nat /\ Len(rec.outbox) >= 1
      BY <1>1, InvRec, Removed
    <3>2. 1 \in 1..Len(rec.outbox)
      BY <3>1
    <3> QED BY <2>2, <3>1, <3>2 DEF Queued
  <2> QED BY <1>3, <1>4, <2>1, <2>3
<1>10. UsedShape'
  BY <1>2, <1>4 DEF LeaseInv, UsedShape
<1>11. LeaseType'
  BY <1>2 DEF LeaseInv, LeaseType
<1> QED BY <1>1, <1>3, <1>5, <1>6, <1>7, <1>8, <1>9, <1>10, <1>11 DEF LeaseInv

\* A boot of an earlier epoch is dropped.
LEMMA TakeSkippedStep ==
  ASSUME LeaseInv, TakeSkipped
  PROVE  LeaseInv'
<1>1. /\ take(rec, now) = "Skipped" /\ handler = "none" /\ Commit(removed(rec))
      /\ UNCHANGED <<now, pc, drainer, lost, used, container, handler>>
  BY DEF TakeSkipped, Taking, World, Memory
<1>2. /\ rec.outbox # <<>> /\ Head(rec.outbox).command = "boot"
      /\ ~IsBoot(Head(rec.outbox), rec.epoch)
  BY <1>1, InvRec, Taken
<1>3. container' \in {"off", "starting", "ready"} /\ (containerRunning' => containerRunning)
  BY <1>1 DEF LeaseInv, LeaseType, containerRunning
<1> QED BY <1>1, <1>2, <1>3, RemovedStep

\* A boot is done.
LEMMA BootReadyStep ==
  ASSUME LeaseInv, BootReady
  PROVE  LeaseInv'
<1>1. /\ handler = "boot" /\ containerRunning /\ container' = "ready" /\ handler' = "none"
      /\ Commit(removed(rec)) /\ UNCHANGED <<now, pc, drainer, lost, used>>
  BY DEF BootReady, succeeded
<1>2. rec.outbox # <<>> /\ Head(rec.outbox).command = "boot"
  BY <1>1 DEF LeaseInv, HandlerShape
<1> QED BY <1>1, <1>2, RemovedStep

\* A destroy is done, or finds nothing.
LEMMA DestroyedStep ==
  ASSUME LeaseInv, DestroyNothing \/ DestroyDone
  PROVE  LeaseInv'
<1>1. /\ container' = "off" /\ handler' = "none" /\ Commit(removed(rec))
      /\ UNCHANGED <<now, pc, drainer, lost, used>>
  BY DEF DestroyNothing, DestroyDone, TakesCommand, Taking, containerRunning, World, Memory,
     succeeded
<1>2. rec.outbox # <<>> /\ Head(rec.outbox).command = "destroy"
  <2>1. CASE DestroyNothing
    BY <2>1, InvRec, Taken DEF DestroyNothing, TakesCommand, Taking
  <2>2. CASE DestroyDone
    BY <2>2 DEF LeaseInv, HandlerShape, DestroyDone
  <2> QED BY <2>1, <2>2
<1>3. containerRunning' => containerRunning
  BY <1>1 DEF containerRunning
<1> QED BY <1>1, <1>2, <1>3, RemovedStep

\* A boot starts the container of a running lease.
LEMMA BootStartsStep ==
  ASSUME LeaseInv, BootStarts
  PROVE  LeaseInv'
<1>1. /\ take(rec, now) = "Run" /\ Head(rec.outbox).command = "boot" /\ handler' = "boot"
      /\ container' = IF containerRunning THEN container ELSE "starting"
      /\ UNCHANGED <<rec, alarm, now, pc, drainer, lost, used>>
  BY DEF BootStarts, TakesCommand, Taking
<1>2. rec.outbox # <<>> /\ Running(rec) /\ BootDue(rec)
  BY <1>1, InvRec, Taken
<1>3. LeaseType'
  BY <1>1 DEF LeaseInv, LeaseType, containerRunning
<1>4. AdmittedShape'
  BY <1>1 DEF LeaseInv, AdmittedShape, bootPending, containerRunning
<1>5. NoLeak' /\ StartingShape' /\ HandlerShape' /\ UsedShape' /\ AlarmArmed'
  BY <1>1, <1>2 DEF LeaseInv, NoLeak, Running, StartingShape, HandlerShape, UsedShape, AlarmArmed
<1> QED BY <1>1, <1>3, <1>4, <1>5 DEF LeaseInv

\* A boot that fails ends the lease of its epoch.
LEMMA FailedBoot ==
  ASSUME LeaseInv, rec.outbox # <<>>, Head(rec.outbox).command = "boot", handler' = "none",
         Commit(succeededWith(rec, [type |-> "bootFailed"],
                              facts(Cardinality(Inside), removed(rec)), now)),
         UNCHANGED <<now, container, pc, drainer, lost, used>>
  PROVE  LeaseInv'
<1> DEFINE m == removed(rec)
           f == facts(Cardinality(Inside), m)
           n == transition(m, [type |-> "bootFailed"], f, now)
           h == Head(rec.outbox)
<1>1. rec' = (IF rec.epoch # h.epoch THEN m ELSE n) /\ AlarmArmed'
  BY Committed DEF succeededWith
<1>2. /\ m \in Record /\ m.state = rec.state /\ m.epoch = rec.epoch /\ m.fired = rec.fired
      /\ h = rec.outbox[1] /\ 1 \in 1..Len(rec.outbox)
  BY InvRec, Removed
<1>3. /\ QueueShape(m)
      /\ \A c : Queued(m, c) => Queued(rec, c)
      /\ \A c : Queued(rec, c) /\ h.command # c => Queued(m, c)
      /\ BootDue(rec) => BootDue(m) \/ IsBoot(h, rec.epoch)
  BY InvRec, ShapeRemoved
<1>4. IsBoot(h, h.epoch) /\ (h.epoch = rec.epoch => Running(rec))
  BY <1>2, InvRec DEF QueueShape, IsBoot, IsDestroy
<1>f. n = transition(m, [type |-> "bootFailed"], f, now)
  OBVIOUS
<1> HIDE DEF m, f, n, h
<1>5. Running(m) <=> Running(rec)
  BY <1>2 DEF Running
<1>6. Timed(m, now)
  BY <1>2, <1>5, InvRec DEF Timed
<1>7. \A q \in Request : ~(pc'[q] = "using" /\ q \notin lost')
  <2>1. Queued(rec, "boot")
    BY <1>2 DEF Queued, h
  <2> QED BY <2>1 DEF LeaseInv, AdmittedShape, bootPending
<1>8. CASE rec.epoch # h.epoch
  <2>1. rec' = m
    BY <1>1, <1>8
  <2>2. ~IsBoot(h, rec.epoch)
    BY <1>8 DEF IsBoot
  <2>3. NoLeak'
    <3>1. h.command # "destroy"
      BY DEF h
    <3> QED BY <1>3, <1>5, <2>1, <3>1 DEF LeaseInv, NoLeak, containerRunning, Running
  <2>4. StartingShape'
    BY <1>3, <1>5, <2>1, <2>2 DEF LeaseInv, StartingShape
  <2>5. UsedShape'
    BY <1>2, <1>5, <2>1 DEF LeaseInv, UsedShape
  <2>6. HandlerShape' /\ AdmittedShape'
    BY <1>7 DEF HandlerShape, AdmittedShape
  <2>7. LeaseType'
    BY <1>2, <2>1 DEF LeaseInv, LeaseType
  <2> QED BY <1>1, <1>3, <1>6, <2>1, <2>3, <2>4, <2>5, <2>6, <2>7 DEF LeaseInv
<1>9. CASE rec.epoch = h.epoch
  <2>1. rec' = n
    BY <1>1, <1>9
  <2>2. n \in Record /\ Ended(m, n, "stopped")
    BY <1>2, <1>4, <1>5, <1>9, <1>f, InvRec, EndRunning
  <2>3. QueueShape(n) /\ Queued(n, "destroy") /\ ~Running(n) /\ Timed(n, now)
    BY <1>2, <1>3, <2>2, ShapeEnded, InvRec, TimedAfter
  <2>4. NoLeak' /\ StartingShape' /\ HandlerShape' /\ AdmittedShape' /\ UsedShape'
    BY <1>7, <2>1, <2>3 DEF LeaseInv, NoLeak, StartingShape, HandlerShape, AdmittedShape, UsedShape
  <2>7. LeaseType'
    BY <2>1, <2>2 DEF LeaseInv, LeaseType
  <2> QED BY <1>1, <2>1, <2>3, <2>4, <2>7 DEF LeaseInv
<1> QED BY <1>8, <1>9

\* Both ways a boot fails.
LEMMA BootFailsStep ==
  ASSUME LeaseInv, BootFails \/ BootMisconfigured
  PROVE  LeaseInv'
<1>1. CASE BootFails
  <2>1. rec.outbox # <<>> /\ Head(rec.outbox).command = "boot"
    BY <1>1 DEF LeaseInv, HandlerShape, BootFails
  <2> QED BY <1>1, <2>1, FailedBoot DEF BootFails, World
<1>2. CASE BootMisconfigured
  <2>1. rec.outbox # <<>> /\ Head(rec.outbox).command = "boot" /\ handler' = "none"
    BY <1>2, InvRec, Taken DEF BootMisconfigured, TakesCommand, Taking
  <2> QED BY <1>2, <2>1, FailedBoot DEF BootMisconfigured, World
<1> QED BY <1>1, <1>2

\* A destroy begins.
LEMMA DestroyStartsStep ==
  ASSUME LeaseInv, DestroyStarts
  PROVE  LeaseInv'
<1>1. /\ take(rec, now) = "Run" /\ Head(rec.outbox).command = "destroy" /\ handler' = "destroy"
      /\ UNCHANGED <<rec, alarm, now, container, pc, drainer, lost, used>>
  BY DEF DestroyStarts, TakesCommand, Taking, World
<1>2. rec.outbox # <<>>
  BY <1>1, InvRec, Taken
<1>3. LeaseType'
  BY <1>1 DEF LeaseInv, LeaseType
<1> QED
  BY <1>1, <1>2, <1>3 DEF LeaseInv, AlarmArmed, NoLeak, containerRunning, StartingShape,
     HandlerShape, AdmittedShape, bootPending, UsedShape

\* A destroy fails and stays first.
LEMMA DestroyFailsStep ==
  ASSUME LeaseInv, DestroyFails
  PROVE  LeaseInv'
<1>1. /\ handler = "destroy" /\ handler' = "broken" /\ container' \in {container, "off"}
      /\ Commit(failed(rec, now)) /\ UNCHANGED <<now, pc, drainer, lost, used>>
  BY DEF DestroyFails
<1>2. rec.outbox # <<>> /\ Head(rec.outbox).command = "destroy"
  BY <1>1 DEF LeaseInv, HandlerShape
<1>3. rec' = failed(rec, now) /\ AlarmArmed'
  BY <1>1, Committed
<1>4. /\ rec' \in Record /\ rec'.state = rec.state /\ rec'.epoch = rec.epoch
      /\ rec'.fired = rec.fired /\ QueueShape(rec')
      /\ \A c : Queued(rec', c) <=> Queued(rec, c)
      /\ BootDue(rec) => BootDue(rec')
  BY <1>2, <1>3, InvRec, ShapeFailed
<1>5. Running(rec') <=> Running(rec)
  BY <1>4 DEF Running
<1>6. Timed(rec', now')
  BY <1>1, <1>4, <1>5, InvRec DEF Timed
<1>7. NoLeak' /\ StartingShape' /\ HandlerShape' /\ UsedShape'
  BY <1>1, <1>4, <1>5
     DEF LeaseInv, NoLeak, containerRunning, Running, StartingShape, HandlerShape, UsedShape
<1>8. AdmittedShape'
  <2> SUFFICES ASSUME NEW q \in Request, pc'[q] = "using", q \notin lost' PROVE FALSE
    BY DEF AdmittedShape
  <2>1. Running(rec) /\ ~Queued(rec, "boot")
    BY <1>1 DEF LeaseInv, AdmittedShape, bootPending
  <2>2. ~Queued(rec, "destroy")
    <3>1. NoStaleDestroy
      BY InvOwned DEF ContainerOwned
    <3> QED BY <2>1, <3>1 DEF NoStaleDestroy, bootPending, Running
  <2>3. Head(rec.outbox) = rec.outbox[1] /\ 1 \in 1..Len(rec.outbox)
    <3> DEFINE m == removed(rec)
    <3>1. m = removed(rec)
      OBVIOUS
    <3> HIDE DEF m
    <3> QED BY <1>2, <3>1, InvRec, Removed
  <2> QED BY <1>2, <2>2, <2>3 DEF Queued
<1>9. LeaseType'
  BY <1>1, <1>4 DEF LeaseInv, LeaseType
<1> QED BY <1>3, <1>4, <1>6, <1>7, <1>8, <1>9 DEF LeaseInv

\* The end of a drain: a request is let in, or leaves.
LEMMA DrainEndsStep ==
  ASSUME LeaseInv, DrainEnds
  PROVE  LeaseInv'
<1>1. PICK c \in drainer : DrainedBy(c) /\ lost' = IF Held(c) THEN lost \ {c} ELSE lost
  BY DEF DrainEnds
<1>2. /\ drainer' = {} /\ handler' = "none" /\ UNCHANGED <<now, container>>
  BY DEF DrainEnds, World
<1>3. c \in Caller /\ pc[c] = "waiting" /\ pc \in [Caller -> {"out", "waiting", "using"}]
      /\ lost' \subseteq Request
  BY <1>1 DEF LeaseInv, LeaseType
<1>4. CASE c \in Request /\ ~Held(c)
  <2>1. /\ touch(Cardinality(Inside) - 1) /\ pc' = [pc EXCEPT ![c] = "out"] /\ used' = now
        /\ lost' = lost
    BY <1>1, <1>4 DEF DrainedBy, Leave
  <2>2. rec' \in Record /\ EventStep(rec, rec') /\ Calm(rec, rec') /\ AlarmArmed'
    BY <2>1, TouchStep DEF EventStep, Calm
  <2>3. /\ QueueShape(rec') /\ Timed(rec', now)
        /\ Queued(rec, "destroy") => Queued(rec', "destroy")
        /\ Running(rec) => Running(rec') \/ Queued(rec', "destroy")
        /\ Running(rec') => BootDue(rec') \/ (Running(rec) /\ (BootDue(rec) => BootDue(rec')))
    BY <2>2, InvRec, EventShape
  <2>4. NoLeak' /\ StartingShape' /\ HandlerShape'
    BY <1>2, <2>3
       DEF LeaseInv, NoLeak, containerRunning, Running, StartingShape, HandlerShape
  <2>5. UsedShape'
    BY <1>2, <2>1, UsedNow
  <2>6. \A x \in Request : pc'[x] = "using" => pc[x] = "using"
    BY <1>3, <2>1
  <2>7. AdmittedShape'
    BY <1>2, <2>1, <2>2, <2>6, AdmittedKept
  <2>8. LeaseType'
    <3>1. pc' \in [Caller -> {"out", "waiting", "using"}]
      BY <1>3, <2>1
    <3> QED BY <1>2, <2>1, <2>2, <3>1 DEF LeaseInv, LeaseType
  <2> QED BY <1>2, <2>2, <2>3, <2>4, <2>5, <2>7, <2>8 DEF LeaseInv
<1>5. CASE ~(c \in Request /\ ~Held(c))
  <2>1. /\ UNCHANGED <<rec, alarm, used>>
        /\ pc' = [pc EXCEPT ![c] = IF c \in Request THEN "using" ELSE "out"]
    BY <1>1, <1>5 DEF DrainedBy
  <2>2. NoLeak' /\ StartingShape' /\ HandlerShape' /\ UsedShape' /\ AlarmArmed'
    BY <1>2, <2>1 DEF LeaseInv, NoLeak, containerRunning, StartingShape, HandlerShape, UsedShape,
                      AlarmArmed
  <2>3. AdmittedShape'
    <3> SUFFICES ASSUME NEW q \in Request, pc'[q] = "using", q \notin lost'
                 PROVE  Running(rec) /\ container = "ready" /\ ~bootPending
      BY <1>2, <2>1 DEF AdmittedShape, bootPending
    <3>1. CASE q = c
      <4>1. Running(rec) /\ containerRunning /\ ~bootPending
        BY <1>5, <3>1 DEF Held, Running
      <4>2. ~BootDue(rec)
        BY <4>1 DEF BootDue, IsBoot, bootPending, Queued
      <4>3. container # "starting"
        BY <4>1, <4>2 DEF LeaseInv, StartingShape
      <4> QED BY <4>1, <4>3 DEF LeaseInv, LeaseType, containerRunning
    <3>2. CASE q # c
      <4>1. pc[q] = "using" /\ q \notin lost
        BY <1>1, <1>3, <2>1, <3>2, Callers
      <4> QED BY <4>1 DEF LeaseInv, AdmittedShape
    <3> QED BY <3>1, <3>2
  <2>4. LeaseType'
    <3>1. pc' \in [Caller -> {"out", "waiting", "using"}]
      BY <1>3, <2>1
    <3> QED BY <1>2, <1>3, <2>1, <3>1 DEF LeaseInv, LeaseType
  <2> QED BY <1>2, <2>1, <2>2, <2>3, <2>4 DEF LeaseInv
<1> QED BY <1>4, <1>5

\* The world.
LEMMA WorldStep ==
  ASSUME LeaseInv, Tick \/ Crash \/ Evict \/ UNCHANGED vars
  PROVE  LeaseInv'
<1>0. now \in Nat
  BY InvRec
<1>1. CASE Tick
  <2>1. now' = now + 1 /\ UNCHANGED <<rec, alarm, container, handler, drainer, pc, lost, used>>
    BY <1>1 DEF Tick, Memory
  <2>2. Timed(rec, now')
    <3>1. rec.state.lastActive \in Nat /\ \A x \in rec.fired : x.at \in Nat
      BY InvRec, RecordFields DEF Timer
    <3> QED BY <1>0, <2>1, <3>1, InvRec DEF Timed
  <2>3. LeaseType' /\ UsedShape'
    BY <1>0, <2>1 DEF LeaseInv, LeaseType, UsedShape
  <2> QED BY <2>1, <2>2, <2>3 DEF LeaseInv, AlarmArmed, NoLeak, containerRunning, StartingShape,
             HandlerShape, AdmittedShape, bootPending
<1>2. CASE Crash
  <2>1. /\ container' = "off" /\ lost' = Inside
        /\ UNCHANGED <<rec, alarm, now, handler, drainer, pc, used>>
    BY <1>2 DEF Crash, Memory
  <2>2. LeaseType' /\ AdmittedShape'
    BY <2>1 DEF LeaseInv, LeaseType, AdmittedShape, Inside
  <2> QED BY <2>1, <2>2 DEF LeaseInv, AlarmArmed, NoLeak, containerRunning, StartingShape,
             HandlerShape, UsedShape
<1>3. CASE Evict
  <2>1. /\ pc' = [c \in Caller |-> "out"] /\ drainer' = {} /\ handler' = "none" /\ lost' = {}
        /\ UNCHANGED <<rec, alarm, now, container, used>>
    BY <1>3 DEF Evict
  <2>2. LeaseType' /\ AdmittedShape'
    BY <2>1, Callers DEF LeaseInv, LeaseType, AdmittedShape
  <2> QED BY <2>1, <2>2 DEF LeaseInv, AlarmArmed, NoLeak, containerRunning, StartingShape,
             HandlerShape, UsedShape
<1>4. CASE UNCHANGED vars
  BY <1>4 DEF vars, LeaseInv, LeaseType, AlarmArmed, NoLeak, containerRunning, StartingShape,
     HandlerShape, AdmittedShape, bootPending, UsedShape
<1> QED BY <1>1, <1>2, <1>3, <1>4

\* A new object satisfies the invariant.
LEMMA LeaseInit == Init => LeaseInv
<1> SUFFICES ASSUME Init PROVE LeaseInv
  OBVIOUS
<1> DEFINE r == [state |-> stopped, epoch |-> 0, fired |-> {}, outbox |-> <<>>]
<1>1. rec = r /\ alarm = {} /\ container = "off" /\ now = 0
      /\ pc = [c \in Caller |-> "out"] /\ drainer = {} /\ handler = "none" /\ lost = {} /\ used = 0
  BY DEF Init
<1>2. /\ r \in Record /\ r.state = stopped /\ r.outbox = <<>> /\ r.fired = {}
  BY States DEF Record
<1> HIDE DEF r
<1>3. ~Running(rec) /\ Len(rec.outbox) = 0
  BY <1>1, <1>2, States DEF Running
<1>4. QueueShape(rec) /\ Timed(rec, now)
  BY <1>3 DEF QueueShape, Timed
<1>5. AlarmArmed
  <2>1. timers(rec.state) = {}
    BY <1>3 DEF timers, Running
  <2>2. pendingTimers(rec) = {}
    BY <2>1 DEF pendingTimers
  <2>3. nextWake(rec) = {}
    BY <1>1, <1>2, <2>2 DEF nextWake
  <2> QED BY <1>1, <2>3 DEF AlarmArmed
<1>6. LeaseType
  BY <1>1, <1>2 DEF LeaseType
<1> QED BY <1>1, <1>3, <1>4, <1>5, <1>6, Callers DEF LeaseInv, NoLeak, containerRunning,
           StartingShape, HandlerShape, AdmittedShape, UsedShape

\* Every step keeps the invariant.
LEMMA LeaseStep == LeaseInv /\ [Next]_vars => LeaseInv'
<1> SUFFICES ASSUME LeaseInv, [Next]_vars PROVE LeaseInv'
  OBVIOUS
<1>1. CASE \E q \in Request : Enter(q) \/ AcquireAgain(q) \/ EndUse(q)
  BY <1>1, EnterStep, AcquireAgainStep, EndUseStep
<1>2. CASE Renew \/ Stop \/ Retire \/ Touch \/ Wake
  BY <1>2, RenewStep, StopStep, TouchActionStep, WakeStep DEF Stop, Retire
<1>3. CASE \E c \in Caller : DrainBegins(c)
  BY <1>3, DrainBeginsStep
<1>4. CASE TakeSkipped \/ BootStarts \/ BootReady \/ BootFails \/ BootMisconfigured
           \/ DestroyNothing \/ DestroyStarts \/ DestroyDone \/ DestroyFails \/ DrainEnds
  BY <1>4, TakeSkippedStep, BootStartsStep, BootReadyStep, BootFailsStep, DestroyedStep,
     DestroyStartsStep, DestroyFailsStep, DrainEndsStep
<1>5. CASE Tick \/ Crash \/ Evict \/ UNCHANGED vars
  BY <1>5, WorldStep
<1> QED BY <1>1, <1>2, <1>3, <1>4, <1>5 DEF Next

\* The record, its alarm and the container agree in every state: for any number of requests,
\* epochs, crashes and evictions, and any clock.
THEOREM LeaseInvariant == Spec => []LeaseInv
BY LeaseInit, LeaseStep, PTL DEF Spec

\* No container leaks, no destroy of an earlier epoch ends a later container, and no request
\* that was let in loses its container to a command.
THEOREM ContainerIsOwned == Spec => []ContainerOwned
BY LeaseInvariant, InvOwned, PTL

\* The alarm is set for the next timer or command, and a running lease has a timer ahead.
THEOREM TimersStayPending == Spec => []TimersPending
BY LeaseInvariant, InvPending, PTL

-----------------------------------------------------------------------------
(* What a step may never do.                                                *)

\* Only the first boot of a running lease starts a container.
LEMMA StartsForLease ==
  ASSUME LeaseInv, Next, rec.state.tag = "retired", ~containerRunning
  PROVE  ~containerRunning'
<1>1. CASE BootStarts
  <2>1. Running(rec)
    BY <1>1, InvRec, Taken DEF BootStarts, TakesCommand, Taking
  <2> QED BY <2>1 DEF Running
<1>2. CASE \E q \in Request : Enter(q) \/ AcquireAgain(q) \/ EndUse(q)
  BY <1>2 DEF Enter, AcquireAgain, EndUse, World, containerRunning
<1>3. CASE Renew \/ Stop \/ Retire \/ Touch \/ Wake \/ \E c \in Caller : DrainBegins(c)
  BY <1>3 DEF Renew, Stop, Retire, End, Touch, Wake, DrainBegins, World, containerRunning
<1>4. CASE TakeSkipped \/ BootReady \/ BootFails \/ BootMisconfigured
           \/ DestroyNothing \/ DestroyStarts \/ DestroyDone \/ DestroyFails \/ DrainEnds
  BY <1>4 DEF TakeSkipped, BootReady, BootFails, BootMisconfigured, DestroyNothing, DestroyStarts,
     DestroyDone, DestroyFails, DrainEnds, World, containerRunning
<1>5. CASE Tick \/ Crash \/ Evict
  BY <1>5 DEF Tick, Crash, Evict, containerRunning
<1> QED BY <1>1, <1>2, <1>3, <1>4, <1>5 DEF Next

\* Only the alarm moves the caller "wake" to its drain.
LEMMA OnlyWakeWakes ==
  ASSUME LeaseInv, Next, pc["wake"] = "out", pc'["wake"] = "waiting"
  PROVE  Wake
<1>0. pc \in [Caller -> {"out", "waiting", "using"}]
  BY DEF LeaseInv, LeaseType
<1>1. CASE \E q \in Request : Enter(q) \/ AcquireAgain(q) \/ EndUse(q)
  <2>1. PICK q \in Request : Enter(q) \/ AcquireAgain(q) \/ EndUse(q)
    BY <1>1
  <2>2. \E p : pc' = [pc EXCEPT ![q] = p]
    BY <2>1 DEF Enter, AcquireAgain, EndUse, Leave
  <2> QED BY <1>0, <2>2, Callers
<1>2. CASE Renew \/ Stop \/ Retire \/ Touch \/ \E c \in Caller : DrainBegins(c)
  BY <1>0, <1>2, Callers DEF Renew, Stop, Retire, End, Touch, DrainBegins
<1>3. CASE TakeSkipped \/ BootStarts \/ BootReady \/ BootFails \/ BootMisconfigured
           \/ DestroyNothing \/ DestroyStarts \/ DestroyDone \/ DestroyFails
  BY <1>3 DEF TakeSkipped, BootStarts, BootReady, BootFails, BootMisconfigured, DestroyNothing,
     DestroyStarts, DestroyDone, DestroyFails
<1>4. CASE DrainEnds
  <2>1. PICK c \in drainer : DrainedBy(c)
    BY <1>4 DEF DrainEnds
  <2>2. \E p \in {"out", "using"} : pc' = [pc EXCEPT ![c] = p]
    BY <2>1 DEF DrainedBy, Leave
  <2>3. c \in Caller /\ pc[c] = "waiting"
    BY <2>1 DEF LeaseInv, LeaseType
  <2> QED BY <1>0, <2>2, <2>3, Callers
<1>5. CASE Tick \/ Crash \/ Evict
  BY <1>5, Callers DEF Tick, Crash, Evict
<1> QED BY <1>1, <1>2, <1>3, <1>4, <1>5 DEF Next

\* What the alarm ends, no request holds, and none used for the idle time.
LEMMA EndsUnused ==
  ASSUME LeaseInv, Next, rec.state.tag = "running", rec'.state.tag = "stopped",
         pc["wake"] = "out", pc'["wake"] = "waiting"
  PROVE  Inside = {} /\ now + TouchInterval >= used + rec.state.idleMs
<1> DEFINE busy == Cardinality(Inside)
<1>1. Commit(fireTimers(rec, LAMBDA r : facts(busy, r), now))
  BY OnlyWakeWakes DEF Wake
<1>2. busy \in Nat /\ \A q \in Request : pc[q] # "out" => busy # 0
  BY Busy
<1> HIDE DEF busy
<1>3. Calm(rec, rec') \/ (busy = 0 /\ rec.state.lastActive + rec.state.idleMs <= now)
  BY <1>1, <1>2, FireStep
<1>4. ~Calm(rec, rec')
  BY DEF Calm, Renewed, Running
<1>5. Inside = {}
  BY <1>2, <1>3, <1>4 DEF Inside
<1>6. /\ rec.state.lastActive \in Nat /\ rec.state.idleMs \in Nat /\ now \in Nat
      /\ used \in Nat /\ TouchInterval \in Nat /\ used <= rec.state.lastActive + TouchInterval
  BY InvRec, RecordFields, LeaseAssumption DEF LeaseInv, LeaseType, UsedShape, Running
<1> QED BY <1>3, <1>4, <1>5, <1>6

\* Nothing starts a container for a deleted session, and the idle alarm ends one only that no
\* request holds or used for the idle time, less the touches that are not written.
THEOREM EndsAreRight == Spec => EndsRightly
<1>1. LeaseInv /\ [Next]_vars =>
        [rec.state.tag = "retired" /\ ~containerRunning => ~containerRunning']_vars
  BY StartsForLease
<1>2. LeaseInv /\ [Next]_vars =>
        [rec.state.tag = "running" /\ rec'.state.tag = "stopped"
           /\ pc["wake"] = "out" /\ pc'["wake"] = "waiting"
         => Inside = {} /\ now + TouchInterval >= used + rec.state.idleMs]_vars
  BY EndsUnused
<1> QED BY <1>1, <1>2, LeaseInvariant, PTL
        DEF Spec, EndsRightly, RetiredNeverStarts, IdleMeansUnused
==============================================================================
