---------------------------- MODULE SessionProofs ----------------------------
(***************************************************************************)
(* Proofs about Session, for every value of its constants.                 *)
(*                                                                         *)
(* SessionInv is inductive.  The argument has two layers.  The first is    *)
(* about the record alone: each operator of session-state.ts takes a good  *)
(* record (well typed, at most one open turn, queues of that turn only) to *)
(* a good one, and either leaves the turn open (Stays) or closes it and    *)
(* may begin the next (Moves).  The second is about steps: a running tick  *)
(* owns the active turn (Running), so each of its steps is one of the two  *)
(* (InsideTick, LastOfTick), and no other step touches an active turn's    *)
(* identity.                                                               *)
(*                                                                         *)
(* A second invariant, Told, is about what a client reads: it relates the  *)
(* record to the jobs behind it (Rec) and the locals of a running tick to   *)
(* both (TickTells), because a status, an item or an event is right only   *)
(* against what the runtime did.  It holds under SessionInv, and is proved  *)
(* in the same two layers: one lemma for each operator on a record (...Keeps), *)
(* one for each way a job or a tick moves on (RecLater, RecStarts, ...Tells), *)
(* then the steps.                                                         *)
(***************************************************************************)
EXTENDS Session, SequenceTheorems, FiniteSetTheorems, TLAPS

\* A record between transactions.
Good(d) == d \in StoreType /\ OpenTurn(d) /\ Current(d)
\* No published outcome changes.
Kept(d, r) == \A g \in Turn : d.turns[g] \in Terminal => r.turns[g] = d.turns[g]

\* Setting the status of one turn keeps the other turns (tx.putTurn).
LEMMA SetTurn ==
  ASSUME NEW t \in [Turn -> TurnStatus], NEW g \in Turn, NEW s \in TurnStatus
  PROVE  /\ [t EXCEPT ![g] = s] \in [Turn -> TurnStatus]
         /\ \A h \in Turn : [t EXCEPT ![g] = s][h] = IF h = g THEN s ELSE t[h]
OBVIOUS

\* What Append adds to the elements of a queue.
LEMMA ElementsAppend ==
  ASSUME NEW S, NEW s \in Seq(S), NEW x \in S
  PROVE  Append(s, x) \in Seq(S) /\ Elements(Append(s, x)) = Elements(s) \cup {x}
<1>1. /\ Append(s, x) \in Seq(S) /\ Len(Append(s, x)) = Len(s) + 1
      /\ Append(s, x)[Len(s) + 1] = x
      /\ \A n \in 1..Len(s) : Append(s, x)[n] = s[n]
  BY AppendProperties
<1>2. Len(s) \in Nat
  BY LenProperties
<1> QED BY <1>1, <1>2 DEF Elements

\* A part of a queue holds only elements of the queue.
LEMMA ElementsSubSeq ==
  ASSUME NEW S, NEW s \in Seq(S), NEW m \in Int, NEW n \in Int, m >= 1, n <= Len(s)
  PROVE  SubSeq(s, m, n) \in Seq(S) /\ Elements(SubSeq(s, m, n)) \subseteq Elements(s)
<1>1. Len(s) \in Nat
  BY LenProperties
<1>2. CASE m <= n
  <2>1. m \in 1..Len(s) /\ n \in m..Len(s) /\ m \in 1 .. n+1
    BY <1>1, <1>2
  <2>2. /\ SubSeq(s, m, n) \in Seq(S) /\ Len(SubSeq(s, m, n)) = n - m + 1
        /\ \A k \in 1..(n - m + 1) : SubSeq(s, m, n)[k] = s[m + k - 1]
    BY <1>1, <1>2, SubSeqProperties
  <2> QED BY <1>1, <1>2, <2>2 DEF Elements
<1>3. CASE ~(m <= n)
  BY <1>3 DEF Elements
<1> QED BY <1>2, <1>3

\* A concatenation holds only elements of its parts.
LEMMA ElementsConcat ==
  ASSUME NEW S, NEW a \in Seq(S), NEW b \in Seq(S)
  PROVE  a \o b \in Seq(S) /\ Elements(a \o b) \subseteq Elements(a) \cup Elements(b)
<1>1. /\ a \o b \in Seq(S) /\ Len(a \o b) = Len(a) + Len(b)
      /\ \A n \in 1..Len(a) + Len(b) :
           (a \o b)[n] = IF n <= Len(a) THEN a[n] ELSE b[n - Len(a)]
  BY ConcatProperties
<1>2. Len(a) \in Nat /\ Len(b) \in Nat
  BY LenProperties
<1>3. ASSUME NEW n \in 1..Len(a \o b)
      PROVE  (a \o b)[n] \in Elements(a) \cup Elements(b)
  <2>1. CASE n <= Len(a)
    BY <1>1, <1>2, <2>1 DEF Elements
  <2>2. CASE ~(n <= Len(a))
    <3>1. n - Len(a) \in 1..Len(b) /\ (a \o b)[n] = b[n - Len(a)]
      BY <1>1, <1>2, <2>2
    <3> QED BY <3>1 DEF Elements
  <2> QED BY <2>1, <2>2
<1> QED BY <1>1, <1>3 DEF Elements

\* Removing a command from the queue adds none (discard).
LEMMA WithoutFields ==
  ASSUME NEW S, NEW s \in Seq(S), NEW x
  PROVE  Without(s, x) \in Seq(S) /\ Elements(Without(s, x)) \subseteq Elements(s)
<1>1. CASE x \in Elements(s)
  <2>1. PICK n \in 1..Len(s) :
          Without(s, x) = SubSeq(s, 1, n - 1) \o SubSeq(s, n + 1, Len(s))
    BY <1>1 DEF Without, Elements
  <2>2. n \in Int /\ n - 1 \in Int /\ n + 1 \in Int /\ Len(s) \in Int
        /\ n + 1 >= 1 /\ n - 1 <= Len(s) /\ 1 >= 1 /\ Len(s) <= Len(s)
    BY LenProperties
  <2>3. /\ SubSeq(s, 1, n - 1) \in Seq(S)
        /\ Elements(SubSeq(s, 1, n - 1)) \subseteq Elements(s)
    BY <2>2, ElementsSubSeq
  <2>4. /\ SubSeq(s, n + 1, Len(s)) \in Seq(S)
        /\ Elements(SubSeq(s, n + 1, Len(s))) \subseteq Elements(s)
    BY <2>2, ElementsSubSeq
  <2> DEFINE a == SubSeq(s, 1, n - 1)
             b == SubSeq(s, n + 1, Len(s))
  <2>5. a \in Seq(S) /\ b \in Seq(S) /\ Without(s, x) = a \o b
        /\ Elements(a) \subseteq Elements(s) /\ Elements(b) \subseteq Elements(s)
    BY <2>1, <2>3, <2>4
  <2> HIDE DEF a, b
  <2>6. a \o b \in Seq(S) /\ Elements(a \o b) \subseteq Elements(a) \cup Elements(b)
    BY <2>5, ElementsConcat
  <2> QED BY <2>5, <2>6
<1>2. CASE x \notin Elements(s)
  BY <1>2 DEF Without
<1> QED BY <1>1, <1>2

\* A record without an execution has empty queues and no required action.
LEMMA Closed ==
  ASSUME NEW d, Good(d), ~Active(d)
  PROVE  /\ d.execution = 0 /\ d.actions = {} /\ d.cancellation = {}
         /\ d.commands = <<>> /\ d.queued = <<>>
         /\ d.phase \in {"idle", "failed"}
<1>1. /\ d.execution = 0
      /\ d.phase \in Phase
      /\ d.actions \in SUBSET [turn : Turn, call : Call]
      /\ d.cancellation \in SUBSET Turn
  BY DEF Good, StoreType, Active
<1>2. d.commands = <<>> /\ d.queued = <<>> /\ d.phase \notin ActivePhase
  BY DEF Good, Current, OpenTurn
<1>3. d.actions = {} /\ d.cancellation = {}
  BY <1>1 DEF Good, Current, Turn
<1> QED BY <1>1, <1>2, <1>3 DEF Phase

\* begin keeps the record well typed; what it sets and what it leaves alone.
LEMMA BeginFields ==
  ASSUME NEW d \in StoreType, d.generation < MaxTurn, NEW i \in SUBSET Input
  PROVE  /\ begin(d, i) \in StoreType
         /\ begin(d, i).execution = d.generation + 1
         /\ begin(d, i).generation = d.generation + 1
         /\ begin(d, i).phase = "starting"
         /\ begin(d, i).life = d.life
         /\ \A h \in Turn : begin(d, i).turns[h] =
              IF h = d.generation + 1 THEN "queued" ELSE d.turns[h]
         /\ begin(d, i).commands = d.commands
         /\ begin(d, i).actions = d.actions
         /\ begin(d, i).cancellation = d.cancellation
         /\ begin(d, i).queued = d.queued
<1>1. PICK g \in 0..MaxTurn : g = d.generation + 1 /\ g \in Turn
  BY SessionAssumption DEF StoreType, Turn
<1> DEFINE t == [d.turns EXCEPT ![g] = "queued"]
<1>2. /\ t \in [Turn -> TurnStatus]
      /\ \A h \in Turn : t[h] = IF h = g THEN "queued" ELSE d.turns[h]
  <2>1. d.turns \in [Turn -> TurnStatus] /\ "queued" \in TurnStatus
    BY DEF StoreType, TurnStatus
  <2> QED BY <1>1, <2>1, SetTurn
<1>t. begin(d, i) = [d EXCEPT !.generation = g, !.execution = g, !.input = i,
                       !.cursor = 0, !.phase = "starting",
                       !.status = "in_progress", !.turns = t]
  BY <1>1 DEF begin
<1> HIDE DEF t
<1> DEFINE r == [d EXCEPT !.generation = g, !.execution = g, !.input = i,
                       !.cursor = 0, !.phase = "starting",
                       !.status = "in_progress", !.turns = t]
<1>3. begin(d, i) = r
  BY <1>t
<1>4. r \in StoreType
  BY <1>2 DEF StoreType, Phase, ActivePhase
<1>5. /\ r.execution = g /\ r.generation = g /\ r.phase = "starting"
      /\ r.life = d.life /\ r.turns = t /\ r.commands = d.commands
      /\ r.actions = d.actions /\ r.cancellation = d.cancellation
      /\ r.queued = d.queued
  BY DEF StoreType
<1> HIDE DEF r
<1> QED BY <1>1, <1>2, <1>3, <1>4, <1>5

\* begin opens the next generation over a record without an execution.
LEMMA BeginGood ==
  ASSUME NEW d, Good(d), ~Active(d), d.life = "live", d.generation < MaxTurn,
         NEW i \in SUBSET Input
  PROVE  /\ Good(begin(d, i))
         /\ Kept(d, begin(d, i))
         /\ begin(d, i).execution = d.generation + 1
         /\ begin(d, i).generation = d.generation + 1
         /\ begin(d, i).phase = "starting"
         /\ begin(d, i).life = "live"
<1> DEFINE r == begin(d, i)
<1>1. d \in StoreType /\ d.generation \in 0..MaxTurn BY DEF Good, StoreType
<1>2. /\ r \in StoreType
      /\ r.execution = d.generation + 1
      /\ r.generation = d.generation + 1
      /\ r.phase = "starting"
      /\ r.life = d.life
      /\ \A h \in Turn : r.turns[h] = IF h = d.generation + 1 THEN "queued" ELSE d.turns[h]
      /\ r.commands = d.commands
      /\ r.actions = d.actions
      /\ r.cancellation = d.cancellation
      /\ r.queued = d.queued
  BY <1>1, BeginFields
<1> HIDE DEF r
<1>3. /\ d.execution = 0 /\ d.actions = {} /\ d.cancellation = {}
      /\ d.commands = <<>> /\ d.queued = <<>>
  BY Closed
<1>4. \A g \in Turn :
        /\ d.turns[g] \in {"queued", "in_progress", "waiting"} <=> g = d.execution
        /\ d.turns[g] # "none" => g <= d.generation
  BY DEF Good, OpenTurn
<1>5. Active(r) /\ r.phase \in ActivePhase /\ r.execution = r.generation /\ r.life = "live"
  BY <1>1, <1>2 DEF Active, ActivePhase
<1>6. ASSUME NEW g \in Turn
      PROVE  /\ r.turns[g] \in {"queued", "in_progress", "waiting"} <=> g = r.execution
             /\ r.turns[g] # "none" => g <= r.generation
  BY <1>1, <1>2, <1>3, <1>4 DEF Turn
<1>7. Current(r)
  BY <1>2, <1>3 DEF Current, Elements, Active
<1>8. Kept(d, r)
  BY <1>1, <1>2, <1>4 DEF Kept, Turn, Terminal
<1> QED BY <1>2, <1>5, <1>6, <1>7, <1>8 DEF Good, OpenTurn, r

\* The statuses of a turn that is not over.
Open == {"queued", "in_progress", "waiting"}

\* A transition that leaves the turn open.
Stays(d, r) ==
  /\ r \in StoreType
  /\ r.execution = d.execution /\ r.generation = d.generation
  /\ r.life = d.life /\ r.phase \in ActivePhase
  /\ \A h \in Turn : IF h = d.execution THEN r.turns[h] \in Open ELSE r.turns[h] = d.turns[h]
  /\ Current(r)

\* A transition that leaves the turn open keeps the record good.
LEMMA StaysGood ==
  ASSUME NEW d, NEW r, Good(d), Active(d), Stays(d, r)
  PROVE  Good(r) /\ Kept(d, r)
<1>1. /\ d.execution = d.generation /\ d.life = "live" /\ d.execution # 0
      /\ \A g \in Turn :
           /\ d.turns[g] \in Open <=> g = d.execution
           /\ d.turns[g] # "none" => g <= d.generation
      /\ d.generation \in 0..MaxTurn
  BY DEF Good, OpenTurn, Active, Open, StoreType
<1>2. OpenTurn(r)
  <2>1. Active(r) /\ r.phase \in ActivePhase /\ r.execution = r.generation /\ r.life = "live"
    BY <1>1 DEF Active, Stays
  <2>2. ASSUME NEW g \in Turn
        PROVE  /\ r.turns[g] \in Open <=> g = r.execution
               /\ r.turns[g] # "none" => g <= r.generation
    BY <1>1 DEF Stays, Turn
  <2> QED BY <2>1, <2>2 DEF OpenTurn, Open
<1>3. Kept(d, r)
  BY <1>1 DEF Kept, Stays, Open, Terminal
<1> QED BY <1>2, <1>3 DEF Good, Stays

\* markRunning leaves the turn open.
LEMMA MarkRunningStays ==
  ASSUME NEW d, Good(d), Active(d)
  PROVE  Stays(d, markRunning(d))
<1>1. d \in StoreType /\ d.execution \in Turn /\ d.turns \in [Turn -> TurnStatus]
  BY DEF Good, StoreType, Active, Turn
<1> DEFINE t == [d.turns EXCEPT ![d.execution] = "in_progress"]
           r == [d EXCEPT !.phase = "running", !.turns = t]
<1>2. /\ t \in [Turn -> TurnStatus]
      /\ \A h \in Turn : t[h] = IF h = d.execution THEN "in_progress" ELSE d.turns[h]
  <2>1. "in_progress" \in TurnStatus
    BY DEF TurnStatus
  <2> QED BY <1>1, <2>1, SetTurn
<1>3. markRunning(d) = r
  BY DEF markRunning
<1> HIDE DEF t
<1>4. r \in StoreType
  BY <1>1, <1>2 DEF StoreType, Phase, ActivePhase
<1>5. /\ r.execution = d.execution /\ r.generation = d.generation /\ r.life = d.life
      /\ r.phase = "running" /\ r.turns = t /\ r.commands = d.commands
      /\ r.actions = d.actions /\ r.cancellation = d.cancellation /\ r.queued = d.queued
  BY <1>1 DEF StoreType
<1> HIDE DEF r
<1>6. Current(r)
  BY <1>5 DEF Good, Current, Active
<1> QED BY <1>2, <1>3, <1>4, <1>5, <1>6 DEF Stays, ActivePhase, Open

\* addInput leaves the turn open.
LEMMA AddInputStays ==
  ASSUME NEW d, Good(d), Active(d), NEW i \in SUBSET Input
  PROVE  Stays(d, addInput(d, i))
<1>1. d \in StoreType /\ d.execution \in Turn /\ d.items \in [Turn -> SUBSET Input]
      /\ d.turns \in [Turn -> TurnStatus]
  BY DEF Good, StoreType, Active, Turn
<1> DEFINE t == [d.items EXCEPT ![d.execution] = @ \cup i]
           r == [d EXCEPT !.items = t]
<1>2. t \in [Turn -> SUBSET Input]
  BY <1>1
<1>3. addInput(d, i) = r
  BY DEF addInput
<1> HIDE DEF t
<1>4. r \in StoreType
  BY <1>1, <1>2 DEF StoreType
<1>5. /\ r.execution = d.execution /\ r.generation = d.generation /\ r.life = d.life
      /\ r.phase = d.phase /\ r.turns = d.turns /\ r.commands = d.commands
      /\ r.actions = d.actions /\ r.cancellation = d.cancellation /\ r.queued = d.queued
  BY <1>1 DEF StoreType
<1> HIDE DEF r
<1>6. Current(r)
  BY <1>5 DEF Good, Current, Active
<1> QED BY <1>3, <1>4, <1>5, <1>6 DEF Stays, Good, OpenTurn, Open

\* discard leaves the turn open.
LEMMA DiscardStays ==
  ASSUME NEW d, Good(d), Active(d), NEW c
  PROVE  Stays(d, discard(d, c))
<1>1. d \in StoreType /\ d.commands \in Seq(Command)
  BY DEF Good, StoreType
<1> DEFINE q == Without(d.commands, c)
           r == [d EXCEPT !.commands = q]
<1>2. q \in Seq(Command) /\ Elements(q) \subseteq Elements(d.commands)
  BY <1>1, WithoutFields
<1>3. discard(d, c) = r
  BY DEF discard
<1> HIDE DEF q
<1>4. r \in StoreType
  BY <1>1, <1>2 DEF StoreType
<1>5. /\ r.execution = d.execution /\ r.generation = d.generation /\ r.life = d.life
      /\ r.phase = d.phase /\ r.turns = d.turns /\ r.commands = q
      /\ r.actions = d.actions /\ r.cancellation = d.cancellation /\ r.queued = d.queued
  BY <1>1 DEF StoreType
<1> HIDE DEF r
<1>6. Current(r)
  BY <1>2, <1>5 DEF Good, Current, Active
<1> QED BY <1>3, <1>4, <1>5, <1>6 DEF Stays, Good, OpenTurn, Open

\* Two transitions that leave the turn open leave it open.
LEMMA StaysTwice ==
  ASSUME NEW d, NEW q, NEW r, Stays(d, q), Stays(q, r)
  PROVE  Stays(d, r)
BY DEF Stays

\* enqueue of a command for the active turn leaves the turn open.
LEMMA EnqueueStays ==
  ASSUME NEW d, Good(d), Active(d), NEW c \in Command, c.turn = d.execution
  PROVE  Stays(d, enqueue(d, c))
<1>1. d \in StoreType /\ d.commands \in Seq(Command)
  BY DEF Good, StoreType
<1> DEFINE q == Append(d.commands, c)
           r == [d EXCEPT !.commands = q]
<1>2. q \in Seq(Command) /\ Elements(q) = Elements(d.commands) \cup {c}
  BY <1>1, ElementsAppend
<1>3. enqueue(d, c) = r
  BY DEF enqueue
<1> HIDE DEF q
<1>4. r \in StoreType
  BY <1>1, <1>2 DEF StoreType
<1>5. /\ r.execution = d.execution /\ r.generation = d.generation /\ r.life = d.life
      /\ r.phase = d.phase /\ r.turns = d.turns /\ r.commands = q
      /\ r.actions = d.actions /\ r.cancellation = d.cancellation /\ r.queued = d.queued
  BY <1>1 DEF StoreType
<1> HIDE DEF r
<1>6. Current(r)
  BY <1>2, <1>5 DEF Good, Current, Active
<1> QED BY <1>3, <1>4, <1>5, <1>6 DEF Stays, Good, OpenTurn, Open

\* reject leaves the turn open.
LEMMA RejectStays ==
  ASSUME NEW d, Good(d), Active(d), NEW c \in Command
  PROVE  Stays(d, reject(d, c))
<1>1. d \in StoreType /\ d.items \in [Turn -> SUBSET Input] /\ d.queued \in Seq(Input)
  BY DEF Good, StoreType
<1> DEFINE p == discard(d, c)
<1>2. Stays(d, p)
  BY DiscardStays
<1>3. CASE c.type = "steer"
  <2>1. c.turn \in Turn /\ c.arg \in Input
    BY <1>3 DEF Command, Steer, ToolResult
  <2> DEFINE t == [d.items EXCEPT ![c.turn] = @ \ {c.arg}]
             q == Append(p.queued, c.arg)
             r == [p EXCEPT !.items = t, !.queued = q]
  <2>2. t \in [Turn -> SUBSET Input]
    BY <1>1, <2>1
  <2>3. p \in StoreType /\ p.queued \in Seq(Input)
    BY <1>2 DEF Stays, StoreType
  <2>4. q \in Seq(Input)
    BY <2>1, <2>3
  <2>5. reject(d, c) = r
    BY <1>3 DEF reject
  <2> HIDE DEF t, q, p
  <2>6. r \in StoreType
    BY <2>2, <2>3, <2>4 DEF StoreType
  <2>7. /\ r.execution = p.execution /\ r.generation = p.generation /\ r.life = p.life
        /\ r.phase = p.phase /\ r.turns = p.turns /\ r.commands = p.commands
        /\ r.actions = p.actions /\ r.cancellation = p.cancellation
    BY <2>3 DEF StoreType
  <2> HIDE DEF r
  <2>8. Current(r)
    BY <1>2, <2>7 DEF Stays, Current, Active
  <2> QED BY <1>2, <2>5, <2>6, <2>7, <2>8 DEF Stays
<1>4. CASE c.type # "steer"
  BY <1>2, <1>4 DEF reject
<1> QED BY <1>3, <1>4

\* A cancellation of the active turn leaves it open.
LEMMA AcceptCancelStays ==
  ASSUME NEW d, Good(d), Active(d)
  PROVE  Stays(d, acceptCancel(d))
<1>1. d \in StoreType /\ d.cancellation \in SUBSET Turn /\ d.execution \in Turn
  BY DEF Good, StoreType, Active, Turn
<1> DEFINE q == d.cancellation \cup {d.execution}
           r == [d EXCEPT !.cancellation = q]
<1>2. q \in SUBSET Turn /\ q \subseteq {d.execution}
  BY <1>1 DEF Good, Current
<1>3. acceptCancel(d) = r
  BY DEF acceptCancel
<1> HIDE DEF q
<1>4. r \in StoreType
  BY <1>1, <1>2 DEF StoreType
<1>5. /\ r.execution = d.execution /\ r.generation = d.generation /\ r.life = d.life
      /\ r.phase = d.phase /\ r.turns = d.turns /\ r.commands = d.commands
      /\ r.actions = d.actions /\ r.cancellation = q /\ r.queued = d.queued
  BY <1>1 DEF StoreType
<1> HIDE DEF r
<1>6. Current(r)
  BY <1>2, <1>5 DEF Good, Current, Active
<1> QED BY <1>3, <1>4, <1>5, <1>6 DEF Stays, Good, OpenTurn, Open

\* An answer to a required action leaves the turn open.
LEMMA AcceptToolResultStays ==
  ASSUME NEW d, Good(d), Active(d), NEW g \in Turn, NEW c \in Call,
         [turn |-> g, call |-> c] \in d.actions
  PROVE  Stays(d, acceptToolResult(d, g, c))
<1>1. g = d.execution
  BY DEF Good, Current
<1> DEFINE p == enqueue(d, ToolResult(d.execution, c))
           rest == d.actions \ {[turn |-> g, call |-> c]}
           s == IF rest = {} THEN "in_progress" ELSE "requires_action"
           t == IF rest = {} THEN [d.turns EXCEPT ![g] = "in_progress"] ELSE d.turns
           r == [p EXCEPT !.actions = rest, !.status = s, !.turns = t]
<1>2. Stays(d, p)
  <2>1. ToolResult(d.execution, c) \in Command /\ ToolResult(d.execution, c).turn = d.execution
    BY <1>1 DEF Command, ToolResult
  <2> QED BY <2>1, EnqueueStays
<1>3. d.turns \in [Turn -> TurnStatus] /\ d.actions \in SUBSET [turn : Turn, call : Call]
      /\ \A h \in Turn : d.turns[h] \in Open <=> h = d.execution
  BY DEF Good, StoreType, OpenTurn, Open
<1>4. /\ t \in [Turn -> TurnStatus]
      /\ \A h \in Turn : IF h = d.execution THEN t[h] \in Open ELSE t[h] = d.turns[h]
  <2>1. "in_progress" \in TurnStatus /\ "in_progress" \in Open
    BY DEF TurnStatus, Open
  <2>2. CASE rest = {}
    BY <1>1, <1>3, <2>1, <2>2, SetTurn
  <2>3. CASE rest # {}
    BY <1>3, <2>3
  <2> QED BY <2>2, <2>3
<1>5. rest \in SUBSET [turn : Turn, call : Call] /\ \A a \in rest : a.turn = d.execution
  BY <1>3 DEF Good, Current
<1>6. s \in {"in_progress", "requires_action"}
  OBVIOUS
<1>7. acceptToolResult(d, g, c) = r
  BY DEF acceptToolResult
<1>8. p \in StoreType
  BY <1>2 DEF Stays
<1> HIDE DEF t, p, rest, s
<1>9. r \in StoreType
  BY <1>4, <1>5, <1>6, <1>8 DEF StoreType
<1>10. /\ r.execution = p.execution /\ r.generation = p.generation /\ r.life = p.life
       /\ r.phase = p.phase /\ r.turns = t /\ r.commands = p.commands
       /\ r.actions = rest /\ r.cancellation = p.cancellation /\ r.queued = p.queued
  BY <1>8 DEF StoreType
<1> HIDE DEF r
<1>11. Current(r)
  BY <1>2, <1>5, <1>10 DEF Stays, Current, Active
<1> QED BY <1>2, <1>4, <1>7, <1>9, <1>10, <1>11 DEF Stays

\* The events acceptBatch applies when there is no gap are events.
LEMMA FreshEvents ==
  ASSUME NEW d \in StoreType, NEW b \in Batch, ~Gap(d, b)
  PROVE  Fresh(d, b) \in Seq(Event)
<1>1. d.cursor \in Nat /\ b.from \in Nat /\ b.events \in Seq(Event)
  BY DEF StoreType, Batch
<1>2. CASE b.events = <<>>
  BY <1>2 DEF Fresh
<1>3. CASE b.events # <<>>
  <2>1. d.cursor - b.from + 1 \in Int /\ d.cursor - b.from + 1 >= 1
        /\ Len(b.events) \in Int /\ Len(b.events) <= Len(b.events)
    BY <1>1, <1>3, LenProperties DEF Gap
  <2>2. SubSeq(b.events, d.cursor - b.from + 1, Len(b.events)) \in Seq(Event)
    BY <1>1, <2>1, ElementsSubSeq
  <2> QED BY <1>3, <2>2 DEF Fresh
<1> QED BY <1>2, <1>3

\* Applying runtime events leaves the turn open, parked or not.
LEMMA AcceptRuntimeEventsStays ==
  ASSUME NEW d, Good(d), Active(d), NEW e \in Seq(Event)
  PROVE  Stays(d, acceptRuntimeEvents(d, e))
<1> DEFINE calls == Elements(e) \cap Call
           n == d.cursor + Len(e)
           w == [d.shown EXCEPT ![d.execution] = @ \o e]
           a == d.actions \cup {[turn |-> d.execution, call |-> c] : c \in calls}
           s == IF calls # {} THEN "requires_action" ELSE d.status
           t == IF calls # {} THEN [d.turns EXCEPT ![d.execution] = "waiting"] ELSE d.turns
           r == [d EXCEPT !.cursor = n, !.shown = w, !.actions = a, !.status = s, !.turns = t]
<1>1. d \in StoreType /\ d.execution \in Turn /\ d.cursor \in Nat
      /\ d.shown \in [Turn -> Seq(Event)] /\ d.turns \in [Turn -> TurnStatus]
      /\ d.actions \in SUBSET [turn : Turn, call : Call]
      /\ d.status \in {"idle", "in_progress", "requires_action", "failed"}
  BY DEF Good, StoreType, Active, Turn
<1>2. \A h \in Turn : d.turns[h] \in Open <=> h = d.execution
  BY DEF Good, OpenTurn, Open
<1>3. n \in Nat
  BY <1>1, LenProperties
<1>4. w \in [Turn -> Seq(Event)]
  BY <1>1, ConcatProperties
<1>5. a \in SUBSET [turn : Turn, call : Call] /\ \A x \in a : x.turn = d.execution
  BY <1>1 DEF Good, Current
<1>6. s \in {"idle", "in_progress", "requires_action", "failed"}
  BY <1>1
<1>7. /\ t \in [Turn -> TurnStatus]
      /\ \A h \in Turn : IF h = d.execution THEN t[h] \in Open ELSE t[h] = d.turns[h]
  <2>1. "waiting" \in TurnStatus /\ "waiting" \in Open
    BY DEF TurnStatus, Open
  <2>2. CASE calls # {}
    BY <1>1, <2>1, <2>2, SetTurn
  <2>3. CASE calls = {}
    BY <1>1, <1>2, <2>3
  <2> QED BY <2>2, <2>3
<1>8. acceptRuntimeEvents(d, e) = r
  BY DEF acceptRuntimeEvents
<1> HIDE DEF n, w, a, s, t
<1>9. r \in StoreType
  BY <1>1, <1>3, <1>4, <1>5, <1>6, <1>7 DEF StoreType
<1>10. /\ r.execution = d.execution /\ r.generation = d.generation /\ r.life = d.life
       /\ r.phase = d.phase /\ r.turns = t /\ r.commands = d.commands
       /\ r.actions = a /\ r.cancellation = d.cancellation /\ r.queued = d.queued
  BY <1>1 DEF StoreType
<1> HIDE DEF r
<1>11. Current(r)
  BY <1>5, <1>10 DEF Good, Current, Active
<1> QED BY <1>7, <1>8, <1>9, <1>10, <1>11 DEF Stays, Good, OpenTurn

\* acceptBatch leaves the turn open, also when it moves to checkpointing.
LEMMA AcceptBatchStays ==
  ASSUME NEW d, Good(d), Active(d), NEW b \in Batch, ~Gap(d, b), NEW x
  PROVE  Stays(d, acceptBatch(d, b, x))
<1> DEFINE p == acceptRuntimeEvents(d, Fresh(d, b))
           r == [p EXCEPT !.phase = "checkpointing"]
<1>1. Stays(d, p)
  <2>1. d \in StoreType
    BY DEF Good
  <2> QED BY <2>1, FreshEvents, AcceptRuntimeEventsStays
<1>2. acceptBatch(d, b, x) \in {p, r}
  BY DEF acceptBatch
<1>3. p \in StoreType
  BY <1>1 DEF Stays
<1> HIDE DEF p
<1>4. r \in StoreType
  BY <1>3 DEF StoreType, Phase, ActivePhase
<1>5. /\ r.execution = p.execution /\ r.generation = p.generation /\ r.life = p.life
      /\ r.phase = "checkpointing" /\ r.turns = p.turns /\ r.commands = p.commands
      /\ r.actions = p.actions /\ r.cancellation = p.cancellation /\ r.queued = p.queued
  BY <1>3 DEF StoreType
<1> HIDE DEF r
<1>6. Current(r)
  BY <1>1, <1>5 DEF Stays, Current, Active
<1>7. Stays(d, r)
  BY <1>1, <1>4, <1>5, <1>6 DEF Stays, ActivePhase
<1> QED BY <1>1, <1>2, <1>7

\* A transition that leaves the turn to the next one, or to nobody.
Moves(d, r) == Good(r) /\ Kept(d, r) /\ r.life = "live"

\* sealTurn closes the turn, empties its queues and changes no other outcome.
LEMMA SealedFields ==
  ASSUME NEW d, Good(d), Active(d), NEW status \in Terminal, NEW error \in Error
  PROVE  /\ Moves(d, sealTurn(d, status, error))
         /\ ~Active(sealTurn(d, status, error))
         /\ sealTurn(d, status, error).generation = d.generation
<1> DEFINE phase == IF status = "failed" /\ isIndeterminate(error) THEN "failed" ELSE "idle"
           t == [d.turns EXCEPT ![d.execution] = status]
           r == [d EXCEPT !.turns = t, !.commands = <<>>, !.cancellation = {}, !.queued = <<>>,
                          !.execution = 0, !.input = {}, !.phase = phase,
                          !.status = phase, !.error = error, !.actions = {}]
<1>0. phase \in {"idle", "failed"} /\ sealTurn(d, status, error) = r
  BY DEF sealTurn
<1> HIDE DEF phase
<1>1. /\ d \in StoreType /\ d.execution \in Turn /\ d.turns \in [Turn -> TurnStatus]
      /\ 0 \in 0..MaxTurn
  <2>1. 0 \in 0..MaxTurn
    BY SessionAssumption
  <2>2. d \in StoreType /\ d.execution \in Turn /\ d.turns \in [Turn -> TurnStatus]
    BY DEF Good, StoreType, Active, Turn
  <2> QED BY <2>1, <2>2
<1>2. /\ d.life = "live"
      /\ \A g \in Turn :
           /\ d.turns[g] \in Open <=> g = d.execution
           /\ d.turns[g] # "none" => g <= d.generation
  BY DEF Good, OpenTurn, Open
<1>3. /\ t \in [Turn -> TurnStatus]
      /\ \A h \in Turn : t[h] = IF h = d.execution THEN status ELSE d.turns[h]
  <2>1. status \in TurnStatus
    BY DEF TurnStatus
  <2> QED BY <1>1, <2>1, SetTurn
<1> HIDE DEF t
<1>4. r \in StoreType
  <2>1. /\ phase \in Phase
        /\ phase \in {"idle", "in_progress", "requires_action", "failed"}
        /\ error \in Error \cup {"environment_setup_failed"}
    BY <1>0 DEF Phase
  <2> DEFINE noCommands == <<>>
             noInput == <<>>
             none == 0
             nothing == {}
             r0 == [d EXCEPT !.turns = t, !.commands = noCommands, !.cancellation = nothing,
                             !.queued = noInput, !.execution = none, !.input = nothing,
                             !.phase = phase, !.status = phase, !.error = error,
                             !.actions = nothing]
  <2>2. /\ noCommands \in Seq(Command) /\ noInput \in Seq(Input) /\ none \in 0..MaxTurn
        /\ nothing \in SUBSET Input /\ nothing \in SUBSET Turn
        /\ nothing \in SUBSET [turn : Turn, call : Call]
    BY <1>1
  <2>3. r = r0
    OBVIOUS
  <2> HIDE DEF noCommands, noInput, none, nothing
  <2>4. r0 \in StoreType
    BY <1>1, <1>3, <2>1, <2>2 DEF StoreType
  <2> QED BY <2>3, <2>4
<1>5. /\ r.execution = 0 /\ r.generation = d.generation /\ r.life = d.life
      /\ r.phase = phase /\ r.turns = t /\ r.commands = <<>>
      /\ r.actions = {} /\ r.cancellation = {} /\ r.queued = <<>>
  BY <1>1 DEF StoreType
<1> HIDE DEF r
<1>6. Current(r)
  BY <1>5 DEF Current, Elements
<1>7. OpenTurn(r)
  <2>1. ~Active(r) /\ r.phase \notin ActivePhase
    BY <1>0, <1>5 DEF Active, ActivePhase
  <2>2. ASSUME NEW g \in Turn
        PROVE  /\ r.turns[g] \notin Open /\ g # r.execution
               /\ r.turns[g] # "none" => g <= r.generation
    BY <1>1, <1>2, <1>3, <1>5, <2>2 DEF Open, Terminal, Turn
  <2> QED BY <2>1, <2>2 DEF OpenTurn, Open
<1>8. Kept(d, r)
  BY <1>2, <1>3, <1>5 DEF Kept, Open, Terminal
<1> QED BY <1>0, <1>2, <1>4, <1>5, <1>6, <1>7, <1>8 DEF Moves, Good, Active

\* A page of a queue holds only elements of the queue.
LEMMA FirstPageElements ==
  ASSUME NEW S, NEW s \in Seq(S)
  PROVE  FirstPage(s) \in Seq(S) /\ Elements(FirstPage(s)) \subseteq Elements(s)
<1> DEFINE n == IF Len(s) < Page THEN Len(s) ELSE Page
<1>1. n \in Int /\ n <= Len(s) /\ 1 \in Int /\ 1 >= 1
  BY SessionAssumption, LenProperties
<1>2. FirstPage(s) = SubSeq(s, 1, n)
  BY DEF FirstPage
<1> HIDE DEF n
<1> QED BY <1>1, <1>2, ElementsSubSeq

\* A new turn over a closed record, with its input shown in it.
LEMMA BeginWithInput ==
  ASSUME NEW d, Good(d), ~Active(d), d.life = "live", d.generation < MaxTurn,
         NEW i \in SUBSET Input
  PROVE  /\ Moves(d, addInput(begin(d, i), i))
         /\ Active(addInput(begin(d, i), i))
<1> DEFINE q == begin(d, i)
           r == addInput(q, i)
<1>1. Good(q) /\ Kept(d, q) /\ q.execution = d.generation + 1 /\ q.life = "live"
  BY BeginGood
<1>2. Active(q)
  BY <1>1 DEF Good, StoreType, Active
<1> HIDE DEF q
<1>3. Stays(q, r)
  BY <1>1, <1>2, AddInputStays
<1>4. Good(r) /\ Kept(q, r)
  BY <1>1, <1>2, <1>3, StaysGood
<1> HIDE DEF r
<1>5. Kept(d, r)
  BY <1>1, <1>4 DEF Kept
<1>6. r.life = "live" /\ Active(r)
  BY <1>1, <1>2, <1>3 DEF Stays, Active
<1> QED BY <1>4, <1>5, <1>6 DEF Moves, r, q

\* complete closes the turn and may begin the next one.
LEMMA CompleteMoves ==
  ASSUME NEW d, Good(d), Active(d), NEW status \in Terminal, NEW error \in Error,
         d.queued # <<>> => d.generation < MaxTurn
  PROVE  Moves(d, complete(d, status, error))
<1> DEFINE sealed == sealTurn(d, status, error)
           input == Elements(FirstPage(d.queued))
           next == addInput(begin(sealed, input), input)
           runs == ~(d.queued = <<>> \/ status = "cancelled" \/ sealed.phase = "failed")
<1>1. complete(d, status, error) = IF runs THEN next ELSE sealed
  BY DEF complete
<1>2. runs => d.queued # <<>>
  OBVIOUS
<1> HIDE DEF runs
<1>4. Moves(d, sealed) /\ ~Active(sealed) /\ sealed.generation = d.generation
  BY SealedFields
<1> HIDE DEF sealed
<1>5. input \in SUBSET Input
  <2>1. d.queued \in Seq(Input)
    BY DEF Good, StoreType
  <2>2. FirstPage(d.queued) \in Seq(Input)
    BY <2>1, FirstPageElements
  <2> HIDE DEF input
  <2> QED BY <2>2 DEF input, Elements
<1> HIDE DEF input
<1>6. CASE runs
  <2>1. Moves(sealed, next)
    BY <1>2, <1>4, <1>5, <1>6, BeginWithInput DEF Moves
  <2> HIDE DEF next
  <2> QED BY <1>1, <1>4, <1>6, <2>1 DEF Moves, Kept
<1>7. CASE ~runs
  BY <1>1, <1>4, <1>7
<1> QED BY <1>6, <1>7

\* commitCheckpoint closes the turn like complete does.
LEMMA CommitCheckpointMoves ==
  ASSUME NEW d, Good(d), Active(d), d.queued # <<>> => d.generation < MaxTurn
  PROVE  Moves(d, commitCheckpoint(d))
<1> DEFINE p == [d EXCEPT !.checkpoint = d.execution]
<1>1. d \in StoreType /\ d.execution \in 0..MaxTurn
  BY DEF Good, StoreType
<1>2. p \in StoreType
  BY <1>1 DEF StoreType
<1>3. /\ p.execution = d.execution /\ p.generation = d.generation /\ p.life = d.life
      /\ p.phase = d.phase /\ p.turns = d.turns /\ p.commands = d.commands
      /\ p.actions = d.actions /\ p.cancellation = d.cancellation /\ p.queued = d.queued
  BY <1>1 DEF StoreType
<1>4. commitCheckpoint(d) = complete(p, "completed", "none")
  BY DEF commitCheckpoint
<1> HIDE DEF p
<1>5. Good(p) /\ Active(p) /\ Kept(d, p)
  BY <1>2, <1>3 DEF Good, OpenTurn, Current, Active, Kept
<1>6. Moves(p, complete(p, "completed", "none"))
  BY <1>3, <1>5, CompleteMoves DEF Terminal, Error
<1> QED BY <1>3, <1>4, <1>6 DEF Moves, Kept

\* A message steers the active turn or begins one.
LEMMA AcceptMessageMoves ==
  ASSUME NEW d, Good(d), d.life = "live", NEW i \in Input,
         Active(d) \/ d.generation < MaxTurn
  PROVE  /\ Moves(d, acceptMessage(d, i)) /\ Active(acceptMessage(d, i))
         /\ Active(d) => acceptMessage(d, i).execution = d.execution
<1>1. CASE Active(d)
  <2> DEFINE q == addInput(d, {i})
             r == enqueue(q, Steer(d.execution, i))
  <2>1. Stays(d, q)
    BY <1>1, AddInputStays
  <2> HIDE DEF q
  <2>2. Good(q) /\ q.execution = d.execution /\ Active(q)
    BY <1>1, <2>1, StaysGood DEF Stays, Active
  <2>3. d.execution \in Turn
    BY <1>1 DEF Good, StoreType, Active, Turn
  <2>4. Steer(d.execution, i) \in Command /\ Steer(d.execution, i).turn = d.execution
    BY <2>3 DEF Command, Steer
  <2>5. Stays(q, r)
    BY <2>2, <2>4, EnqueueStays
  <2>6. acceptMessage(d, i) = r
    BY <1>1 DEF acceptMessage, q
  <2> HIDE DEF r
  <2>7. Stays(d, r)
    BY <2>1, <2>5, StaysTwice
  <2>8. Good(r) /\ Kept(d, r) /\ r.life = "live" /\ Active(r) /\ r.execution = d.execution
    BY <1>1, <2>7, StaysGood DEF Stays, Active
  <2> QED BY <2>6, <2>8 DEF Moves
<1>2. CASE ~Active(d)
  <2>1. acceptMessage(d, i) = addInput(begin(d, {i}), {i})
    BY <1>2 DEF acceptMessage
  <2> QED BY <1>2, <2>1, BeginWithInput
<1> QED BY <1>1, <1>2

\* An event that does not throw keeps the record good.
LEMMA AcceptEventMoves ==
  ASSUME NEW d, Good(d), d.life = "live", NEW e \in InputEvent, ~Throws(d, e),
         Active(d) \/ d.generation < MaxTurn
  PROVE  /\ Moves(d, acceptEvent(d, e))
         /\ Active(acceptEvent(d, e)) \/ acceptEvent(d, e).generation < MaxTurn
         /\ Active(d) => acceptEvent(d, e).execution = d.execution
<1>1. CASE e.type = "message"
  <2>1. e.arg \in Input
    BY <1>1 DEF InputEvent, Message, CancelInput, Answer
  <2> QED BY <1>1, <2>1, AcceptMessageMoves DEF acceptEvent
<1>2. CASE e.type = "cancel"
  <2>1. acceptEvent(d, e) = acceptCancel(d)
    BY <1>2 DEF acceptEvent
  <2>2. CASE Active(d)
    <3>1. Stays(d, acceptCancel(d))
      BY <2>2, AcceptCancelStays
    <3> QED BY <2>1, <2>2, <3>1, StaysGood DEF Moves, Stays, Active
  <2>3. CASE ~Active(d)
    <3>1. acceptCancel(d) = d
      BY <2>3 DEF acceptCancel
    <3> QED BY <2>1, <2>3, <3>1 DEF Moves, Kept
  <2> QED BY <2>2, <2>3
<1>3. CASE e.type \notin {"message", "cancel"}
  <2>1. e.type = "tool_result" /\ e.turn \in Turn /\ e.arg \in Call
    BY <1>3 DEF InputEvent, Message, CancelInput, Answer
  <2>2. Active(d) /\ [turn |-> e.turn, call |-> e.arg] \in d.actions
    BY <2>1 DEF Throws
  <2>3. acceptEvent(d, e) = acceptToolResult(d, e.turn, e.arg)
    BY <1>3 DEF acceptEvent
  <2>4. Stays(d, acceptToolResult(d, e.turn, e.arg))
    BY <2>1, <2>2, AcceptToolResultStays
  <2> QED BY <2>2, <2>3, <2>4, StaysGood DEF Moves, Stays, Active
<1> QED BY <1>1, <1>2, <1>3

\* So does an accepted request, and it never replaces an active turn.
LEMMA AcceptInputMoves ==
  ASSUME NEW d, Good(d), d.life = "live", NEW r \in Request, ~Refused(d, r.events),
         Active(d) \/ d.generation < MaxTurn
  PROVE  /\ Moves(d, acceptInput(d, r))
         /\ Active(d) => acceptInput(d, r).execution = d.execution
<1> DEFINE q == acceptEvents(d, r.events)
           a == q.accepted \cup {r}
           s == [q EXCEPT !.accepted = a]
<1>1. Moves(d, q) /\ (Active(d) => q.execution = d.execution)
  <2>1. CASE \E e \in InputEvent : r.events = <<e>>
    <3>1. PICK e \in InputEvent : r.events = <<e>>
      BY <2>1
    <3>2. q = acceptEvent(d, e) /\ ~Throws(d, e)
      BY <3>1 DEF acceptEvents, Refused
    <3> QED BY <3>2, AcceptEventMoves
  <2>2. CASE \E e, f \in InputEvent : r.events = <<e, f>>
    <3>1. PICK e \in InputEvent, f \in InputEvent : r.events = <<e, f>>
      BY <2>2
    <3> DEFINE p == acceptEvent(d, e)
    <3>2. q = acceptEvent(p, f) /\ ~Throws(d, e) /\ ~Throws(p, f)
      BY <3>1 DEF acceptEvents, Refused
    <3>3. /\ Moves(d, p) /\ (Active(p) \/ p.generation < MaxTurn)
          /\ Active(d) => p.execution = d.execution
      BY <3>2, AcceptEventMoves
    <3> HIDE DEF p
    <3>4. /\ Moves(p, acceptEvent(p, f))
          /\ Active(p) => acceptEvent(p, f).execution = p.execution
      BY <3>2, <3>3, AcceptEventMoves DEF Moves
    <3> QED BY <3>2, <3>3, <3>4 DEF Moves, Kept, Active
  <2> QED BY <2>1, <2>2, SessionAssumption
<1> HIDE DEF q
<1>2. q \in StoreType /\ a \in SUBSET Request
  BY <1>1 DEF Moves, Good, StoreType
<1>3. acceptInput(d, r) = s
  BY DEF acceptInput, q
<1> HIDE DEF a
<1>4. s \in StoreType
  BY <1>2 DEF StoreType
<1>5. /\ s.execution = q.execution /\ s.generation = q.generation /\ s.life = q.life
      /\ s.phase = q.phase /\ s.turns = q.turns /\ s.commands = q.commands
      /\ s.actions = q.actions /\ s.cancellation = q.cancellation /\ s.queued = q.queued
  BY <1>2 DEF StoreType
<1> HIDE DEF s
<1>6. Good(s) /\ Kept(q, s) /\ s.life = "live"
  BY <1>1, <1>4, <1>5 DEF Moves, Good, OpenTurn, Current, Active, Kept
<1> QED BY <1>1, <1>3, <1>5, <1>6 DEF Moves, Kept

\* An environment report changes no turn, and fails only an idle session.
LEMMA EnvironmentGood ==
  ASSUME NEW d, Good(d), NEW status \in EnvStatus
  PROVE  LET r == applyEnvironmentStatus(d, status) IN
         /\ Good(r) /\ Kept(d, r)
         /\ r.life = d.life /\ r.execution = d.execution /\ r.generation = d.generation
         /\ d.phase = "failed" => r.phase = "failed"
<1> DEFINE r == [d EXCEPT !.environment = status]
           f == [d EXCEPT !.environment = status, !.phase = "failed",
                          !.status = "failed", !.error = "environment_setup_failed"]
<1>1. d \in StoreType
  BY DEF Good
<1>2. r \in StoreType
  BY <1>1 DEF StoreType
<1>3. f \in StoreType
  BY <1>1 DEF StoreType, Phase
<1>4. /\ r.execution = d.execution /\ r.generation = d.generation /\ r.life = d.life
      /\ r.phase = d.phase /\ r.turns = d.turns /\ r.commands = d.commands
      /\ r.actions = d.actions /\ r.cancellation = d.cancellation /\ r.queued = d.queued
  BY <1>1 DEF StoreType
<1>5. /\ f.execution = d.execution /\ f.generation = d.generation /\ f.life = d.life
      /\ f.phase = "failed" /\ f.turns = d.turns /\ f.commands = d.commands
      /\ f.actions = d.actions /\ f.cancellation = d.cancellation /\ f.queued = d.queued
  BY <1>1 DEF StoreType
<1>6. CASE status = "failed" /\ ~Active(d)
  <2>1. applyEnvironmentStatus(d, status) = f
    BY <1>6 DEF applyEnvironmentStatus
  <2> HIDE DEF f
  <2>2. Good(f) /\ Kept(d, f)
    BY <1>3, <1>5, <1>6 DEF Good, OpenTurn, Current, Active, Kept, ActivePhase
  <2> QED BY <1>5, <2>1, <2>2
<1>7. CASE ~(status = "failed" /\ ~Active(d))
  <2>1. applyEnvironmentStatus(d, status) = r
    BY <1>7 DEF applyEnvironmentStatus
  <2> HIDE DEF r
  <2>2. Good(r) /\ Kept(d, r)
    BY <1>2, <1>4 DEF Good, OpenTurn, Current, Active, Kept
  <2> QED BY <1>4, <2>1, <2>2
<1> QED BY <1>6, <1>7

\* Deleting an idle session keeps its outcomes.
LEMMA DeletedGood ==
  ASSUME NEW d, Good(d), ~Active(d)
  PROVE  LET r == markDeleted(d) IN
         /\ Good(r) /\ Kept(d, r) /\ ~Active(r)
         /\ r.phase = d.phase /\ r.generation = d.generation
<1> DEFINE r == [d EXCEPT !.life = "deleted"]
<1>1. d \in StoreType
  BY DEF Good
<1>2. r \in StoreType
  BY <1>1 DEF StoreType
<1>3. /\ r.execution = d.execution /\ r.generation = d.generation /\ r.life = "deleted"
      /\ r.phase = d.phase /\ r.turns = d.turns /\ r.commands = d.commands
      /\ r.actions = d.actions /\ r.cancellation = d.cancellation /\ r.queued = d.queued
  BY <1>1 DEF StoreType
<1>4. markDeleted(d) = r
  BY DEF markDeleted
<1> HIDE DEF r
<1>5. Good(r) /\ Kept(d, r) /\ ~Active(r)
  BY <1>2, <1>3 DEF Good, OpenTurn, Current, Active, Kept
<1> QED BY <1>3, <1>4, <1>5

\* A new or a purged store.
LEMMA EmptyGood ==
  /\ Good(NewStore) /\ ~Active(NewStore)
  /\ Good(purgeRecords) /\ ~Active(purgeRecords) /\ purgeRecords.life = "purged"
<1>1. 0 \in 0..MaxTurn /\ 0 \in Nat
  BY SessionAssumption
<1> DEFINE t == [g \in Turn |-> "none"]
           i == [g \in Turn |-> {}]
           w == [g \in Turn |-> <<>>]
<1>2. t \in [Turn -> TurnStatus] /\ i \in [Turn -> SUBSET Input] /\ w \in [Turn -> Seq(Event)]
  BY DEF TurnStatus
<1>3. \A g \in Turn : t[g] = "none" /\ g # 0
  BY DEF Turn
<1>4. ASSUME NEW l \in {"live", "purged"}
      PROVE  Good(EmptyStore(l)) /\ ~Active(EmptyStore(l)) /\ EmptyStore(l).life = l
  <2>1. EmptyStore(l) =
          [ life |-> l, phase |-> "idle", generation |-> 0, execution |-> 0,
            input |-> {}, cursor |-> 0, checkpoint |-> 0, status |-> "idle",
            error |-> "none", actions |-> {}, turns |-> t, items |-> i, shown |-> w,
            commands |-> <<>>, cancellation |-> {}, queued |-> <<>>, accepted |-> {},
            environment |-> "none" ]
    BY DEF EmptyStore
  <2> HIDE DEF t, i, w
  <2>2. EmptyStore(l) \in StoreType
    BY <1>1, <1>2, <2>1 DEF StoreType, Phase, Error
  <2>3. OpenTurn(EmptyStore(l)) /\ Current(EmptyStore(l)) /\ ~Active(EmptyStore(l))
    BY <1>3, <2>1 DEF OpenTurn, Current, Active, ActivePhase, Elements
  <2> QED BY <2>1, <2>2, <2>3 DEF Good
<1> QED BY <1>4 DEF NewStore, purgeRecords

-----------------------------------------------------------------------------
\* TickShape, of any tick.
Shape(t) ==
  /\ t.pc # "idle" => t.turn \in Turn
  /\ t.pc \in {"stop", "finish"} => t.outcome \in {"failed", "cancelled"}
  /\ ~t.cancel => t.commands \in Seq(Command)
  /\ t.pc \in {"discard", "reject"} => ~t.cancel /\ t.commands # <<>>

TickGood(t) == t \in TickType /\ Shape(t)

\* The tick of an object that has just been loaded.
LEMMA NoTickGood == TickGood(NoTick) /\ NoTick.pc = "idle"
<1>1. NoTick \in TickType
  <2>1. [from |-> 0, events |-> <<>>, status |-> "none"] \in Batch
    BY DEF Batch
  <2>2. "none" \in Error /\ 0 \in 0..MaxTurn
    BY SessionAssumption DEF Error
  <2> QED BY <2>1, <2>2 DEF NoTick, TickType
<1> QED BY <1>1 DEF NoTick, TickGood, Shape

\* The tick an alarm starts.
LEMMA TurnTickGood ==
  ASSUME NEW g \in Turn
  PROVE  /\ TickGood([NoTick EXCEPT !.pc = "turn", !.turn = g])
         /\ [NoTick EXCEPT !.pc = "turn", !.turn = g].turn = g
<1> DEFINE t == [NoTick EXCEPT !.pc = "turn", !.turn = g]
<1>1. NoTick \in TickType /\ g \in 0..MaxTurn
  BY NoTickGood DEF TickGood, Turn
<1>2. t \in TickType
  BY <1>1 DEF TickType
<1>3. t.pc = "turn" /\ t.turn = g /\ t.commands = <<>>
  BY DEF NoTick
<1> HIDE DEF t
<1>4. Shape(t)
  BY <1>3 DEF Shape
<1> QED BY <1>2, <1>3, <1>4 DEF TickGood, t

\* The awaits that carry no locals.
Stages == {"start", "started", "round", "deliver", "checkpoint", "commit"}

\* The tick at an await that carries no locals.
LEMMA StageGood ==
  ASSUME tick.turn \in Turn, NEW pc \in Stages
  PROVE  TickGood(Stage(pc)) /\ Stage(pc).turn = tick.turn
<1> DEFINE t == [NoTick EXCEPT !.pc = pc, !.turn = tick.turn]
<1>1. NoTick \in TickType /\ tick.turn \in 0..MaxTurn
  BY NoTickGood DEF TickGood, Turn
<1>2. t \in TickType
  BY <1>1 DEF TickType, Stages
<1>3. t.pc = pc /\ t.turn = tick.turn /\ t.commands = <<>>
  BY DEF NoTick
<1>4. Stage(pc) = t
  BY DEF Stage
<1> HIDE DEF t
<1>5. Shape(t)
  BY <1>3 DEF Shape, Stages
<1> QED BY <1>2, <1>3, <1>4, <1>5 DEF TickGood

\* The tick that stops the runtime to seal the turn.
LEMMA StopGood ==
  ASSUME tick.turn \in Turn, NEW outcome \in {"failed", "cancelled"}, NEW error \in Error
  PROVE  TickGood(StopWith(outcome, error)) /\ StopWith(outcome, error).turn = tick.turn
<1> DEFINE t == [NoTick EXCEPT !.pc = "stop", !.turn = tick.turn, !.outcome = outcome, !.error = error]
<1>1. NoTick \in TickType /\ tick.turn \in 0..MaxTurn
  BY NoTickGood DEF TickGood, Turn
<1>2. t \in TickType
  BY <1>1 DEF TickType
<1>3. t.pc = "stop" /\ t.turn = tick.turn /\ t.commands = <<>> /\ t.outcome = outcome
  BY DEF NoTick
<1>4. StopWith(outcome, error) = t
  BY <1>1 DEF StopWith, Stage, NoTick
<1> HIDE DEF t
<1>5. Shape(t)
  BY <1>3 DEF Shape
<1> QED BY <1>2, <1>3, <1>4, <1>5 DEF TickGood

-----------------------------------------------------------------------------
\* What a driver call or the runtime does to a job keeps its type.
LEMMA JobTypes ==
  ASSUME NEW j \in JobType
  PROVE  /\ NoJob \in JobType
         /\ \A i \in SUBSET Input : Started(j, i) \in JobType
         /\ \A c \in Command \cup {Cancel(g) : g \in Turn} : Apply(j, c) \in JobType
         /\ Stopped(j) \in JobType
         /\ \A x \in BOOLEAN : [j EXCEPT !.saved = x] \in JobType
         /\ \A st \in {"completed", "cancelled", "failed", "gone"} :
              [j EXCEPT !.state = st] \in JobType
         /\ \A e \in Event : [j EXCEPT !.log = Append(@, e)] \in JobType
<1>1. NoJob \in JobType
  BY DEF NoJob, JobType
<1>2. ASSUME NEW i \in SUBSET Input PROVE Started(j, i) \in JobType
  BY DEF Started, JobType
<1>3. ASSUME NEW c \in Command \cup {Cancel(g) : g \in Turn} PROVE Apply(j, c) \in JobType
  <2>1. CASE c.type = "steer"
    <3>1. c.arg \in Input
      BY <2>1 DEF Command, Steer, ToolResult, Cancel
    <3>2. j.got \cup {c.arg} \in SUBSET Input
      BY <3>1 DEF JobType
    <3> QED BY <2>1, <3>2 DEF Apply, JobType
  <2>2. CASE c.type = "tool_result"
    <3>1. c.arg \in Call
      BY <2>2 DEF Command, Steer, ToolResult, Cancel
    <3>2. j.answered \cup {c.arg} \in SUBSET Call
      BY <3>1 DEF JobType
    <3> QED BY <2>2, <3>2 DEF Apply, JobType
  <2>3. CASE c.type \notin {"steer", "tool_result"}
    BY <2>3 DEF Apply, JobType
  <2> QED BY <2>1, <2>2, <2>3
<1>4. Stopped(j) \in JobType
  BY DEF Stopped, JobType
<1>5. ASSUME NEW x \in BOOLEAN PROVE [j EXCEPT !.saved = x] \in JobType
  BY DEF JobType
<1>6. ASSUME NEW st \in {"completed", "cancelled", "failed", "gone"}
      PROVE  [j EXCEPT !.state = st] \in JobType
  BY DEF JobType
<1>7. ASSUME NEW e \in Event PROVE [j EXCEPT !.log = Append(@, e)] \in JobType
  <2>1. Append(j.log, e) \in Seq(Event)
    BY DEF JobType
  <2> QED BY <2>1 DEF JobType
<1> QED BY <1>1, <1>2, <1>3, <1>4, <1>5, <1>6, <1>7

\* Every answer of a poll is a batch.
LEMMA BatchTypes ==
  ASSUME NEW j \in JobType, NEW b \in Batches(j)
  PROVE  b \in Batch
<1>1. CASE j.state \in {"none", "gone"}
  <2>1. b = [from |-> 0, events |-> <<>>, status |-> "missing"]
    BY <1>1 DEF Batches
  <2> QED BY <2>1 DEF Batch
<1>2. CASE j.state \notin {"none", "gone"}
  <2>1. PICK m \in 0..Len(j.log), n \in 0..Len(j.log) :
          b = [from |-> m, events |-> SubSeq(j.log, m + 1, n),
               status |-> IF n = Len(j.log) THEN BatchStatus(j) ELSE "running"]
    BY <1>2 DEF Batches
  <2>2. j.log \in Seq(Event) /\ j.state \in {"live", "completed", "cancelled", "failed"}
    BY <1>2 DEF JobType
  <2>3. BatchStatus(j) \in {"running", "completed", "cancelled", "failed"}
    BY <2>2 DEF BatchStatus
  <2>4. m \in Nat /\ m + 1 \in Int /\ n \in Int /\ m + 1 >= 1 /\ n <= Len(j.log)
    BY <2>2, LenProperties
  <2>5. SubSeq(j.log, m + 1, n) \in Seq(Event)
    BY <2>2, <2>4, ElementsSubSeq
  <2> QED BY <2>1, <2>3, <2>4, <2>5 DEF Batch
<1> QED BY <1>1, <1>2

-----------------------------------------------------------------------------
\* What a step may do to the record.
StoreStep ==
  db'.life # "purged" =>
    /\ Kept(db, db')
    /\ db.phase = "failed" => db'.phase = "failed" /\ db'.generation = db.generation

\* What the invariant gives a running tick: it owns the active turn.
LEMMA Running ==
  ASSUME SessionInv, ~At("idle")
  PROVE  /\ Good(db) /\ Active(db) /\ alarm = TRUE
         /\ Fenced /\ db.life = "live" /\ db.execution = tick.turn /\ tick.turn \in Turn
         /\ db.phase \in ActivePhase
         /\ tick \in TickType /\ job \in [Turn -> JobType] /\ job[tick.turn] \in JobType
         /\ late \in BOOLEAN /\ deployed \in {"same", "other", "missing"}
         /\ evictions \in 0..MaxEviction
<1>1. /\ Good(db) /\ tick.turn \in Turn /\ Fenced
      /\ tick \in TickType /\ job \in [Turn -> JobType]
      /\ late \in BOOLEAN /\ deployed \in {"same", "other", "missing"}
      /\ evictions \in 0..MaxEviction
  BY DEF SessionInv, TypeOK, OneOpenTurn, QueuesCurrent, FenceHolds, TickShape, Good
<1>2. db.life = "live" /\ db.execution = tick.turn /\ Active(db)
  BY <1>1 DEF Fenced, Active, Turn
<1>3. alarm = TRUE /\ db.phase \in ActivePhase
  BY <1>1, <1>2 DEF SessionInv, WakeupPersists, TypeOK, Good, OpenTurn
<1> QED BY <1>1, <1>2, <1>3

\* A step inside a tick that leaves the turn open.
LEMMA InsideTick ==
  ASSUME SessionInv, ~At("idle"),
         TickGood(tick'), tick'.turn = tick.turn,
         db' = db \/ Stays(db, db'),
         job' \in [Turn -> JobType],
         UNCHANGED <<alarm, late, deployed, evictions>>
  PROVE  SessionInv' /\ StoreStep
<1>1. Good(db') /\ Kept(db, db') /\ db'.life = "live" /\ db'.execution = db.execution
  <2>1. CASE db' = db
    BY <2>1, Running DEF Kept
  <2>2. CASE Stays(db, db')
    BY <2>2, Running, StaysGood DEF Stays
  <2> QED BY <2>1, <2>2
<1>2. TypeOK' /\ OneOpenTurn' /\ QueuesCurrent'
  BY <1>1, Running DEF TypeOK, OneOpenTurn, QueuesCurrent, Good, TickGood
<1>3. FenceHolds' /\ WakeupPersists'
  BY <1>1, Running DEF FenceHolds, WakeupPersists, Fenced
<1>4. TickShape'
  BY DEF TickShape, TickGood, Shape, At
<1>5. StoreStep
  BY <1>1, Running DEF StoreStep, ActivePhase
<1> QED BY <1>2, <1>3, <1>4, <1>5 DEF SessionInv

\* The step that ends a tick.
LEMMA LastOfTick ==
  ASSUME SessionInv, ~At("idle"), EndTick,
         db' = db \/ Stays(db, db') \/ Moves(db, db'),
         job' \in [Turn -> JobType], late' \in BOOLEAN,
         UNCHANGED <<deployed, evictions>>
  PROVE  SessionInv' /\ StoreStep
<1>1. Good(db') /\ Kept(db, db') /\ db'.life = "live"
  <2>1. CASE db' = db
    BY <2>1, Running DEF Kept
  <2>2. CASE Stays(db, db')
    BY <2>2, Running, StaysGood DEF Stays
  <2>3. CASE Moves(db, db')
    BY <2>3 DEF Moves
  <2> QED BY <2>1, <2>2, <2>3
<1>2. tick' = NoTick /\ alarm' = TRUE
  BY Running DEF EndTick
<1>3. TypeOK' /\ OneOpenTurn' /\ QueuesCurrent'
  BY <1>1, <1>2, Running, NoTickGood DEF TypeOK, OneOpenTurn, QueuesCurrent, Good, TickGood
<1>4. FenceHolds' /\ WakeupPersists' /\ TickShape'
  BY <1>2, NoTickGood DEF FenceHolds, WakeupPersists, At, TickShape, TickGood, Shape
<1>5. StoreStep
  BY <1>1, Running DEF StoreStep, ActivePhase
<1> QED BY <1>3, <1>4, <1>5 DEF SessionInv

\* Changing one job keeps the others.
LEMMA JobUpdate ==
  ASSUME job \in [Turn -> JobType], NEW g \in Turn, NEW j \in JobType
  PROVE  [job EXCEPT ![g] = j] \in [Turn -> JobType]
OBVIOUS

\* What a round may deliver.
Operations == Command \cup {Cancel(g) : g \in Turn}

\* The ticks between two awaits of one round.
LEMMA TickUpdates ==
  ASSUME SessionInv, ~At("idle")
  PROVE  /\ Delivering => TickGood(Rest("deliver")) /\ Rest("deliver").turn = tick.turn
         /\ tick.pc \in {"discard", "reject"} =>
              TickGood(Rest("deliver")) /\ Rest("deliver").turn = tick.turn
         /\ \A pc \in {"discard", "reject"} : Delivering /\ ~tick.cancel =>
              TickGood([tick EXCEPT !.pc = pc]) /\ [tick EXCEPT !.pc = pc].turn = tick.turn
         /\ \A b \in Batch : Polling =>
              /\ TickGood([tick EXCEPT !.pc = "accept", !.batch = b])
              /\ [tick EXCEPT !.pc = "accept", !.batch = b].turn = tick.turn
         /\ Delivering =>
              /\ TickGood([tick EXCEPT !.commands = <<>>, !.retry = TRUE])
              /\ [tick EXCEPT !.commands = <<>>, !.retry = TRUE].turn = tick.turn
         /\ At("stop") =>
              /\ TickGood([tick EXCEPT !.pc = "finish"])
              /\ [tick EXCEPT !.pc = "finish"].turn = tick.turn
         /\ \A e \in Error : At("stop") =>
              /\ TickGood([tick EXCEPT !.pc = "finish", !.error = e])
              /\ [tick EXCEPT !.pc = "finish", !.error = e].turn = tick.turn
<1>1. tick \in TickType /\ Shape(tick) /\ tick.turn \in Turn /\ tick.commands \in Seq(Operations)
  BY DEF SessionInv, TypeOK, TickShape, Shape, At, TickType, Operations
<1>2. ASSUME tick.commands # <<>>
      PROVE  TickGood(Rest("deliver")) /\ Rest("deliver").turn = tick.turn
  <2> DEFINE q == Tail(tick.commands)
             t == [tick EXCEPT !.pc = "deliver", !.commands = q]
  <2>1. q \in Seq(Operations) /\ (~tick.cancel => q \in Seq(Command))
    BY <1>1, <1>2, HeadTailProperties DEF Shape
  <2>2. Rest("deliver") = t
    BY DEF Rest
  <2> HIDE DEF q
  <2>3. t \in TickType
    BY <1>1, <2>1 DEF TickType, Operations
  <2>4. t.pc = "deliver" /\ t.turn = tick.turn /\ t.cancel = tick.cancel /\ t.commands = q
    BY <1>1 DEF TickType
  <2> HIDE DEF t
  <2> QED BY <1>1, <2>1, <2>2, <2>3, <2>4 DEF TickGood, Shape
<1>3. ASSUME NEW pc \in {"discard", "reject"}, ~tick.cancel, tick.commands # <<>>
      PROVE  TickGood([tick EXCEPT !.pc = pc]) /\ [tick EXCEPT !.pc = pc].turn = tick.turn
  <2> DEFINE t == [tick EXCEPT !.pc = pc]
  <2>1. t \in TickType
    BY <1>1 DEF TickType
  <2>2. t.pc = pc /\ t.turn = tick.turn /\ t.cancel = tick.cancel /\ t.commands = tick.commands
    BY <1>1 DEF TickType
  <2> HIDE DEF t
  <2> QED BY <1>1, <1>3, <2>1, <2>2 DEF TickGood, Shape, t
<1>4. ASSUME NEW b \in Batch
      PROVE  /\ TickGood([tick EXCEPT !.pc = "accept", !.batch = b])
             /\ [tick EXCEPT !.pc = "accept", !.batch = b].turn = tick.turn
  <2> DEFINE t == [tick EXCEPT !.pc = "accept", !.batch = b]
  <2>1. t \in TickType
    BY <1>1 DEF TickType
  <2>2. t.pc = "accept" /\ t.turn = tick.turn /\ t.cancel = tick.cancel /\ t.commands = tick.commands
    BY <1>1 DEF TickType
  <2> HIDE DEF t
  <2> QED BY <1>1, <2>1, <2>2 DEF TickGood, Shape, t
<1>5. ASSUME Delivering
      PROVE  /\ TickGood([tick EXCEPT !.commands = <<>>, !.retry = TRUE])
             /\ [tick EXCEPT !.commands = <<>>, !.retry = TRUE].turn = tick.turn
  <2> DEFINE q == <<>>
             t == [tick EXCEPT !.commands = q, !.retry = TRUE]
  <2>0. q \in Seq(Operations) /\ q \in Seq(Command)
    OBVIOUS
  <2> HIDE DEF q
  <2>1. t \in TickType
    BY <1>1, <2>0 DEF TickType, Operations
  <2>2. t.pc = tick.pc /\ t.turn = tick.turn /\ t.commands = q
    BY <1>1 DEF TickType
  <2> HIDE DEF t
  <2> QED BY <1>1, <1>5, <2>0, <2>1, <2>2 DEF TickGood, Shape, t, q, Delivering, At
<1>6. ASSUME At("stop"), NEW e \in Error
      PROVE  /\ TickGood([tick EXCEPT !.pc = "finish", !.error = e])
             /\ [tick EXCEPT !.pc = "finish", !.error = e].turn = tick.turn
  <2> DEFINE t == [tick EXCEPT !.pc = "finish", !.error = e]
  <2>1. t \in TickType
    BY <1>1 DEF TickType
  <2>2. t.pc = "finish" /\ t.turn = tick.turn /\ t.commands = tick.commands
        /\ t.cancel = tick.cancel /\ t.outcome = tick.outcome
    BY <1>1 DEF TickType
  <2> HIDE DEF t
  <2> QED BY <1>1, <1>6, <2>1, <2>2 DEF TickGood, Shape, t, At
<1>7. ASSUME At("stop")
      PROVE  /\ TickGood([tick EXCEPT !.pc = "finish"])
             /\ [tick EXCEPT !.pc = "finish"].turn = tick.turn
  <2> DEFINE t == [tick EXCEPT !.pc = "finish"]
  <2>1. t \in TickType
    BY <1>1 DEF TickType
  <2>2. t.pc = "finish" /\ t.turn = tick.turn /\ t.commands = tick.commands
        /\ t.cancel = tick.cancel /\ t.outcome = tick.outcome
    BY <1>1 DEF TickType
  <2> HIDE DEF t
  <2> QED BY <1>1, <1>7, <2>1, <2>2 DEF TickGood, Shape, t, At
<1>8. tick.pc \in {"discard", "reject"} => tick.commands # <<>>
  BY <1>1 DEF Shape
<1> QED BY <1>2, <1>3, <1>4, <1>5, <1>6, <1>7, <1>8 DEF Delivering

\* The tick that delivers the pending commands, or the cancellation.
LEMMA RoundTick ==
  ASSUME SessionInv, At("round")
  PROVE  LET cancel == tick.turn \in db.cancellation
             t == [Stage("deliver") EXCEPT
                     !.cancel = cancel,
                     !.commands = IF cancel THEN <<Cancel(tick.turn)>> ELSE FirstPage(db.commands)]
         IN TickGood(t) /\ t.turn = tick.turn
<1> DEFINE x == tick.turn \in db.cancellation
           q == IF x THEN <<Cancel(tick.turn)>> ELSE FirstPage(db.commands)
           s == Stage("deliver")
           t == [s EXCEPT !.cancel = x, !.commands = q]
<1>1. ~At("idle")
  BY DEF At
<1>2. Good(db) /\ tick.turn \in Turn
  BY <1>1, Running
<1>3. s \in TickType /\ s.turn = tick.turn /\ s.pc = "deliver"
  BY <1>2, StageGood DEF Stages, TickGood, Stage, NoTick
<1>4. q \in Seq(Operations) /\ (~x => q \in Seq(Command))
  <2>1. FirstPage(db.commands) \in Seq(Command)
    BY <1>2, FirstPageElements DEF Good, StoreType
  <2>2. <<Cancel(tick.turn)>> \in Seq(Operations)
    BY <1>2 DEF Operations
  <2>3. \A z \in Seq(Command) : z \in Seq(Operations)
    BY DEF Operations
  <2> QED BY <2>1, <2>2, <2>3
<1>5. x \in BOOLEAN
  OBVIOUS
<1> HIDE DEF x, q, s
<1>6. t \in TickType
  BY <1>3, <1>4, <1>5 DEF TickType, Operations
<1>7. t.pc = "deliver" /\ t.turn = tick.turn /\ t.cancel = x /\ t.commands = q
  BY <1>3 DEF TickType
<1> HIDE DEF t
<1> QED BY <1>2, <1>4, <1>6, <1>7 DEF TickGood, Shape, t, x, q, s

\* Every step of the reconciler.
LEMMA ReconcilerStep ==
  ASSUME SessionInv, Reconciler
  PROVE  SessionInv' /\ StoreStep
<1>1. ~At("idle")
  BY DEF Reconciler, At, ExecutorUnavailable, ReconcileTurn, StartAnswered, StartRejected,
         StartUnanswered, MarkRunning, Round, DeliverCancel, DeliverAnswered, Discard,
         DeliverRefused, Reject, DeliverUnanswered, Delivering, Polling, PollAnswered,
         PollUnanswered, RejectBatch, Accepting, AcceptCompletion, AcceptFailure,
         AcceptCancellation, StillOpen, AcceptAndRepeat, AcceptAndEnd, StopAnswered,
         StopUnanswered, StopUnknown, Finish, CheckpointAnswered, CheckpointRejected,
         CheckpointUnanswered, CommitCheckpoint
<1>2. /\ Good(db) /\ Active(db) /\ alarm = TRUE
      /\ Fenced /\ db.life = "live" /\ db.execution = tick.turn /\ tick.turn \in Turn
      /\ tick \in TickType /\ job \in [Turn -> JobType] /\ job[tick.turn] \in JobType
      /\ late \in BOOLEAN
  BY <1>1, Running
<1>3. ASSUME NEW e \in Error
      PROVE  TickGood(StopAndFail(e)) /\ StopAndFail(e).turn = tick.turn
  BY <1>2, StopGood DEF StopAndFail
<1>4. ASSUME NEW d, Moves(db, d), Seal(d)
      PROVE  SessionInv' /\ StoreStep
  <2>1. db' = d /\ late' \in BOOLEAN /\ EndTick /\ UNCHANGED <<deployed, job, evictions>>
    BY <1>2, <1>4 DEF Seal
  <2> QED BY <1>1, <1>2, <1>4, <2>1, LastOfTick
<1>5. ASSUME NEW n, TickGood(n), n.turn = tick.turn, NEW d, d = db \/ Stays(db, d), Transact(n, d)
      PROVE  SessionInv' /\ StoreStep
  <2>1. db' = d /\ tick' = n /\ UNCHANGED <<alarm, late, deployed, job, evictions>>
    BY <1>2, <1>5 DEF Transact, Goto
  <2> QED BY <1>1, <1>2, <1>5, <2>1, InsideTick
<1>6. ASSUME NEW n, TickGood(n), n.turn = tick.turn, NEW j \in JobType, DriverCall(n, j)
      PROVE  SessionInv' /\ StoreStep
  <2>1. job' \in [Turn -> JobType] /\ tick' = n /\ UNCHANGED <<db, alarm, late, deployed, evictions>>
    BY <1>2, <1>6, JobUpdate DEF DriverCall
  <2> QED BY <1>1, <1>2, <1>6, <2>1, InsideTick
<1>7. ASSUME NEW j \in JobType, Unanswered(j)
      PROVE  SessionInv' /\ StoreStep
  <2>1. job' \in [Turn -> JobType] /\ EndTick /\ UNCHANGED <<db, late, deployed, evictions>>
    BY <1>2, <1>7, JobUpdate DEF Unanswered
  <2> QED BY <1>1, <1>2, <1>7, <2>1, LastOfTick
<1>8. ASSUME NEW n, TickGood(n), n.turn = tick.turn, Local(n)
      PROVE  SessionInv' /\ StoreStep
  <2>1. tick' = n /\ UNCHANGED <<db, alarm, late, deployed, job, evictions>>
    BY <1>8 DEF Local
  <2> QED BY <1>1, <1>2, <1>8, <2>1, InsideTick
<1>9. db.input \in SUBSET Input /\ tick.commands \in Seq(Operations) /\ tick.error \in Error
      /\ tick.batch \in Batch
  BY <1>2 DEF Good, StoreType, TickType, Operations
<1>10. ASSUME NEW pc \in Stages
       PROVE  TickGood(Stage(pc)) /\ Stage(pc).turn = tick.turn
  BY <1>2, StageGood
<1>11. CASE ExecutorUnavailable
  <2>1. Moves(db, complete(db, "failed", "executor_unavailable"))
    BY <1>2, <1>11, CompleteMoves DEF ExecutorUnavailable, Seal, Terminal, Error
  <2> QED BY <1>4, <1>11, <2>1 DEF ExecutorUnavailable
<1>12. CASE ReconcileTurn
  <2>1. PICK n \in {StopAndFail("executor_version_incompatible"), Stage("checkpoint"),
                    StopAndFail("request_timeout"), Stage("start"), Stage("round")} : Local(n)
    BY <1>12 DEF ReconcileTurn
  <2>2. TickGood(n) /\ n.turn = tick.turn
    BY <1>3, <1>10, <2>1 DEF Stages, Error
  <2> QED BY <1>8, <2>1, <2>2
<1>13. CASE StartAnswered
  <2>1. Started(job[tick.turn], db.input) \in JobType
    BY <1>2, <1>9, JobTypes
  <2> QED BY <1>6, <1>10, <1>13, <2>1 DEF StartAnswered, Stages
<1>14. CASE StartRejected
  BY <1>3, <1>8, <1>14 DEF StartRejected, Error
<1>15. CASE StartUnanswered
  <2>1. Started(job[tick.turn], db.input) \in JobType
    BY <1>2, <1>9, JobTypes
  <2> QED BY <1>2, <1>7, <1>15, <2>1 DEF StartUnanswered
<1>16. CASE MarkRunning
  <2>1. Stays(db, markRunning(db))
    BY <1>2, MarkRunningStays
  <2> QED BY <1>5, <1>10, <1>16, <2>1 DEF MarkRunning, Stages
<1>17. CASE Round
  <2> DEFINE t == [Stage("deliver") EXCEPT
                     !.cancel = tick.turn \in db.cancellation,
                     !.commands = IF tick.turn \in db.cancellation THEN <<Cancel(tick.turn)>>
                                  ELSE FirstPage(db.commands)]
  <2>1. TickGood(t) /\ t.turn = tick.turn
    BY <1>17, RoundTick DEF Round
  <2>2. TickGood(StopAndFail("request_timeout")) /\ StopAndFail("request_timeout").turn = tick.turn
    BY <1>3 DEF Error
  <2>3. /\ tick' = IF late THEN StopAndFail("request_timeout") ELSE t
        /\ UNCHANGED <<db, alarm, late, deployed, job, evictions>>
    BY <1>2, <1>17 DEF Round, Goto
  <2> HIDE DEF t
  <2>4. TickGood(tick') /\ tick'.turn = tick.turn
    BY <2>1, <2>2, <2>3
  <2> QED BY <1>1, <1>2, <2>3, <2>4, InsideTick
<1>18. ASSUME tick.commands # <<>>
       PROVE  Operation \in Operations /\ Apply(job[tick.turn], Operation) \in JobType
  <2>1. Operation \in Operations
    BY <1>9, <1>18, HeadTailProperties DEF Operation
  <2> QED BY <1>2, <2>1, JobTypes DEF Operations
<1>19. CASE DeliverCancel
  <2>1. tick.commands # <<>> /\ Delivering
    BY <1>19 DEF DeliverCancel, Delivering
  <2>2. PICK j \in JobType : DriverCall(Rest("deliver"), j)
    BY <1>2, <1>18, <1>19, <2>1 DEF DeliverCancel
  <2>3. TickGood(Rest("deliver")) /\ Rest("deliver").turn = tick.turn
    BY <1>1, <2>1, TickUpdates
  <2> QED BY <1>6, <2>2, <2>3
<1>20. CASE DeliverAnswered
  <2>1. tick.commands # <<>> /\ Delivering /\ ~tick.cancel
    BY <1>20 DEF DeliverAnswered, Delivering
  <2>2. TickGood([tick EXCEPT !.pc = "discard"]) /\ [tick EXCEPT !.pc = "discard"].turn = tick.turn
    BY <1>1, <2>1, TickUpdates
  <2>3. DriverCall([tick EXCEPT !.pc = "discard"], Apply(job[tick.turn], Operation))
    BY <1>20 DEF DeliverAnswered
  <2> QED BY <1>6, <1>18, <2>1, <2>2, <2>3
<1>21. CASE Discard
  <2>1. TickGood(Rest("deliver")) /\ Rest("deliver").turn = tick.turn
    BY <1>1, <1>21, TickUpdates DEF Discard, At
  <2>2. Stays(db, discard(db, Operation))
    BY <1>2, DiscardStays
  <2> QED BY <1>5, <1>21, <2>1, <2>2 DEF Discard
<1>22. CASE DeliverRefused
  <2>1. TickGood([tick EXCEPT !.pc = "reject"]) /\ [tick EXCEPT !.pc = "reject"].turn = tick.turn
    BY <1>1, <1>22, TickUpdates DEF DeliverRefused
  <2> QED BY <1>8, <1>22, <2>1 DEF DeliverRefused
<1>23. CASE Reject
  <2>1. TickGood(Rest("deliver")) /\ Rest("deliver").turn = tick.turn
    BY <1>1, <1>23, TickUpdates DEF Reject, At
  <2>2. tick.commands \in Seq(Command) /\ tick.commands # <<>>
    BY <1>23 DEF Reject, At, SessionInv, TickShape
  <2>3. Operation \in Command
    BY <2>2, HeadTailProperties DEF Operation
  <2>4. Stays(db, reject(db, Operation))
    BY <1>2, <2>3, RejectStays
  <2> QED BY <1>5, <1>23, <2>1, <2>4 DEF Reject
<1>24. CASE DeliverUnanswered
  <2>1. tick.commands # <<>> /\ Delivering
    BY <1>24 DEF DeliverUnanswered, Delivering
  <2>2. PICK j \in JobType : DriverCall([tick EXCEPT !.commands = <<>>, !.retry = TRUE], j)
    BY <1>2, <1>18, <1>24, <2>1 DEF DeliverUnanswered
  <2>3. /\ TickGood([tick EXCEPT !.commands = <<>>, !.retry = TRUE])
        /\ [tick EXCEPT !.commands = <<>>, !.retry = TRUE].turn = tick.turn
    BY <1>1, <2>1, TickUpdates
  <2> QED BY <1>6, <2>2, <2>3
<1>25. CASE PollAnswered
  <2>1. PICK b \in Batches(job[tick.turn]) : Local([tick EXCEPT !.pc = "accept", !.batch = b])
    BY <1>25 DEF PollAnswered
  <2>2. b \in Batch
    BY <1>2, <2>1, BatchTypes
  <2>3. /\ TickGood([tick EXCEPT !.pc = "accept", !.batch = b])
        /\ [tick EXCEPT !.pc = "accept", !.batch = b].turn = tick.turn
    BY <1>1, <1>25, <2>2, TickUpdates DEF PollAnswered
  <2> QED BY <1>8, <2>1, <2>3
<1>26. CASE PollUnanswered
  BY <1>2, <1>7, <1>26 DEF PollUnanswered
<1>27. CASE RejectBatch
  <2>1. TickGood(StopAndFail("invalid_runtime_cursor"))
        /\ StopAndFail("invalid_runtime_cursor").turn = tick.turn
    BY <1>3 DEF Error
  <2>2. /\ tick' = StopAndFail("invalid_runtime_cursor")
        /\ UNCHANGED <<db, alarm, late, deployed, job, evictions>>
    BY <1>2, <1>27 DEF RejectBatch, Goto
  <2> QED BY <1>1, <1>2, <2>1, <2>2, InsideTick
<1>28. ASSUME Accepting
       PROVE  Stays(db, Accepted)
  BY <1>2, <1>9, <1>28, AcceptBatchStays DEF Accepting, Accepted
<1>29. CASE AcceptCompletion
  BY <1>5, <1>10, <1>28, <1>29 DEF AcceptCompletion, Stages
<1>30. CASE AcceptFailure
  <2>1. PICK e \in Error : Transact(StopAndFail(e), Accepted)
    BY <1>30 DEF AcceptFailure, Error
  <2> QED BY <1>3, <1>5, <1>28, <1>30, <2>1 DEF AcceptFailure
<1>31. CASE AcceptCancellation
  <2>1. TickGood(StopWith("cancelled", "none")) /\ StopWith("cancelled", "none").turn = tick.turn
    BY <1>2, StopGood DEF Error
  <2> QED BY <1>5, <1>28, <1>31, <2>1 DEF AcceptCancellation
<1>32. CASE AcceptAndRepeat
  BY <1>5, <1>10, <1>28, <1>32 DEF AcceptAndRepeat, StillOpen, Stages
<1>33. CASE AcceptAndEnd
  <2>1. /\ db' = Accepted /\ Stays(db, Accepted)
        /\ EndTick /\ UNCHANGED <<late, deployed, job, evictions>>
    BY <1>2, <1>28, <1>33 DEF AcceptAndEnd, StillOpen
  <2> QED BY <1>1, <1>2, <2>1, LastOfTick
<1>34. Stopped(job[tick.turn]) \in JobType
  BY <1>2, JobTypes
<1>35. CASE StopAnswered
  <2>1. TickGood([tick EXCEPT !.pc = "finish"]) /\ [tick EXCEPT !.pc = "finish"].turn = tick.turn
    BY <1>1, <1>35, TickUpdates DEF StopAnswered
  <2> QED BY <1>6, <1>34, <1>35, <2>1 DEF StopAnswered
<1>36. CASE StopUnanswered
  BY <1>2, <1>7, <1>34, <1>36 DEF StopUnanswered
<1>37. CASE StopUnknown
  <2> DEFINE e == IF tick.outcome = "failed" THEN "outcome_unknown" ELSE tick.error
  <2>1. e \in Error
    BY <1>9 DEF Error
  <2>2. PICK j \in JobType : DriverCall([tick EXCEPT !.pc = "finish", !.error = e], j)
    BY <1>2, <1>34, <1>37 DEF StopUnknown
  <2> HIDE DEF e
  <2>3. TickGood([tick EXCEPT !.pc = "finish", !.error = e])
        /\ [tick EXCEPT !.pc = "finish", !.error = e].turn = tick.turn
    BY <1>1, <1>37, <2>1, TickUpdates DEF StopUnknown
  <2> QED BY <1>6, <2>2, <2>3
<1>38. CASE Finish
  <2>1. tick.outcome \in Terminal
    BY <1>38 DEF Finish, At, SessionInv, TickShape, Terminal
  <2>2. Moves(db, complete(db, tick.outcome, tick.error))
    BY <1>2, <1>9, <1>38, <2>1, CompleteMoves DEF Finish, Seal
  <2> QED BY <1>4, <1>38, <2>2 DEF Finish
<1>39. CASE CheckpointAnswered
  <2>1. [job[tick.turn] EXCEPT !.saved = TRUE] \in JobType
    BY <1>2, JobTypes
  <2> QED BY <1>6, <1>10, <1>39, <2>1 DEF CheckpointAnswered, Stages
<1>40. CASE CheckpointRejected
  BY <1>3, <1>8, <1>40 DEF CheckpointRejected, Error
<1>41. CASE CheckpointUnanswered
  <2>1. PICK x \in {job[tick.turn].saved,
                    job[tick.turn].saved \/ job[tick.turn].state = "completed"} :
           LET j == [job[tick.turn] EXCEPT !.saved = x] IN
           IF late THEN DriverCall(StopAndFail("checkpoint_unavailable"), j) ELSE Unanswered(j)
    BY <1>41 DEF CheckpointUnanswered
  <2>2. x \in BOOLEAN
    BY <1>2, <2>1 DEF JobType
  <2> DEFINE j == [job[tick.turn] EXCEPT !.saved = x]
  <2>3. j \in JobType
    BY <1>2, <2>2, JobTypes
  <2>4. DriverCall(StopAndFail("checkpoint_unavailable"), j) \/ Unanswered(j)
    BY <2>1
  <2> HIDE DEF j
  <2>5. TickGood(StopAndFail("checkpoint_unavailable"))
        /\ StopAndFail("checkpoint_unavailable").turn = tick.turn
    BY <1>3 DEF Error
  <2> QED BY <1>6, <1>7, <2>3, <2>4, <2>5
<1>42. CASE CommitCheckpoint
  <2>1. Moves(db, commitCheckpoint(db))
    BY <1>2, <1>42, CommitCheckpointMoves DEF CommitCheckpoint, Seal
  <2> QED BY <1>4, <1>42, <2>1 DEF CommitCheckpoint
<1> QED
  BY <1>11, <1>12, <1>13, <1>14, <1>15, <1>16, <1>17, <1>19, <1>20, <1>21, <1>22, <1>23,
     <1>24, <1>25, <1>26, <1>27, <1>29, <1>30, <1>31, <1>32, <1>33, <1>35, <1>36, <1>37,
     <1>38, <1>39, <1>40, <1>41, <1>42 DEF Reconciler

\* A submitted request, accepted or not.
LEMMA SubmitStep ==
  ASSUME SessionInv, NEW r \in Request, Submit(r)
  PROVE  SessionInv' /\ StoreStep
<1>1. Good(db) /\ late \in BOOLEAN
  BY DEF SessionInv, TypeOK, OneOpenTurn, QueuesCurrent, Good
<1>2. late' \in BOOLEAN /\ alarm' = TRUE /\ UNCHANGED <<deployed, tick, job, evictions>>
  BY <1>1 DEF Submit
<1>3. CASE Accepts(db, r)
  <2>1. db' = acceptInput(db, r) /\ db.life = "live" /\ db.phase # "failed"
    BY <1>3 DEF Submit, Accepts
  <2>2. Moves(db, db') /\ (Active(db) => db'.execution = db.execution)
    BY <1>1, <1>3, <2>1, AcceptInputMoves DEF Submit, Accepts
  <2>3. TypeOK' /\ OneOpenTurn' /\ QueuesCurrent' /\ WakeupPersists' /\ TickShape'
    BY <1>2, <2>2 DEF SessionInv, TypeOK, OneOpenTurn, QueuesCurrent, WakeupPersists,
                      TickShape, At, Moves, Good
  <2>5. FenceHolds'
    BY <1>1, <1>2, <2>2, Running DEF SessionInv, FenceHolds, Fenced, At, Moves
  <2>6. StoreStep
    BY <2>1, <2>2 DEF StoreStep, Moves
  <2> QED BY <2>3, <2>5, <2>6 DEF SessionInv
<1>4. CASE ~Accepts(db, r)
  <2>1. db' = db
    BY <1>4 DEF Submit
  <2> QED BY <1>2, <2>1 DEF SessionInv, TypeOK, OneOpenTurn, QueuesCurrent, WakeupPersists,
                 FenceHolds, Fenced, TickShape, At, StoreStep, Kept
<1> QED BY <1>3, <1>4

\* Deletion, purge, environment reports, the platform and the runtime.
LEMMA OtherSteps ==
  ASSUME SessionInv,
         Delete \/ Purge \/ Environment \/ Platform \/ Runtime
  PROVE  SessionInv' /\ StoreStep
<1>1. /\ Good(db) /\ job \in [Turn -> JobType] /\ TickGood(tick)
      /\ alarm \in BOOLEAN /\ late \in BOOLEAN /\ deployed \in {"same", "other", "missing"}
      /\ evictions \in 0..MaxEviction
  BY DEF SessionInv, TypeOK, OneOpenTurn, QueuesCurrent, Good, TickGood, TickShape, Shape, At
<1>2. ~Active(db) => At("idle")
  BY Running
<1>3. CASE Delete
  <2>1. /\ ~Active(db) /\ db' = markDeleted(db)
        /\ UNCHANGED <<alarm, late, deployed, tick, evictions>>
    BY <1>3 DEF Delete
  <2>2. job' \in [Turn -> JobType]
    <3>1. \A g \in Turn : Stopped(job[g]) \in JobType
      BY <1>1, JobTypes
    <3> QED BY <1>1, <1>3, <3>1 DEF Delete
  <2>3. /\ Good(db') /\ Kept(db, db') /\ ~Active(db')
        /\ db'.phase = db.phase /\ db'.generation = db.generation
    BY <1>1, <2>1, DeletedGood
  <2>4. TypeOK' /\ OneOpenTurn' /\ QueuesCurrent'
    BY <2>1, <2>2, <2>3 DEF SessionInv, TypeOK, OneOpenTurn, QueuesCurrent, Good
  <2>5. WakeupPersists' /\ TickShape' /\ FenceHolds'
    BY <1>2, <2>1, <2>3 DEF SessionInv, WakeupPersists, TickShape, FenceHolds, At
  <2> QED BY <2>3, <2>4, <2>5 DEF SessionInv, StoreStep
<1>4. CASE Purge
  <2>1. /\ db.life = "deleted" /\ db' = purgeRecords /\ alarm' = FALSE
        /\ UNCHANGED <<late, deployed, tick, job, evictions>>
    BY <1>4 DEF Purge
  <2>2. ~Active(db)
    BY <1>1, <2>1 DEF Good, OpenTurn
  <2>3. Good(db') /\ ~Active(db') /\ db'.life = "purged"
    BY <2>1, EmptyGood
  <2>4. TypeOK' /\ OneOpenTurn' /\ QueuesCurrent'
    BY <2>1, <2>3 DEF SessionInv, TypeOK, OneOpenTurn, QueuesCurrent, Good
  <2>5. WakeupPersists' /\ TickShape' /\ FenceHolds'
    BY <1>2, <2>1, <2>2, <2>3 DEF SessionInv, WakeupPersists, TickShape, FenceHolds, At
  <2> QED BY <2>3, <2>4, <2>5 DEF SessionInv, StoreStep
<1>5. CASE Environment
  <2>1. PICK status \in EnvReport : EnvironmentStatus(status)
    BY <1>5 DEF Environment
  <2>2. /\ db' = applyEnvironmentStatus(db, status) /\ status \in EnvStatus
        /\ UNCHANGED <<alarm, late, deployed, tick, job, evictions>>
    BY <2>1, SessionAssumption DEF EnvironmentStatus
  <2>3. /\ Good(db') /\ Kept(db, db')
        /\ db'.life = db.life /\ db'.execution = db.execution /\ db'.generation = db.generation
        /\ db.phase = "failed" => db'.phase = "failed"
    BY <1>1, <2>2, EnvironmentGood
  <2>4. TypeOK' /\ OneOpenTurn' /\ QueuesCurrent'
    BY <2>2, <2>3 DEF SessionInv, TypeOK, OneOpenTurn, QueuesCurrent, Good
  <2>5. WakeupPersists' /\ TickShape' /\ FenceHolds'
    BY <2>2, <2>3 DEF SessionInv, WakeupPersists, Active, TickShape, FenceHolds, Fenced, At
  <2> QED BY <2>3, <2>4, <2>5 DEF SessionInv, StoreStep
<1>6. CASE Platform
  <2>1. CASE AlarmFires
    <3>1. /\ alarm' = Active(db)
          /\ tick' = IF tick.pc = "idle" /\ Active(db)
                     THEN [NoTick EXCEPT !.pc = "turn", !.turn = db.execution] ELSE tick
          /\ UNCHANGED <<db, late, deployed, job, evictions>>
      BY <2>1 DEF AlarmFires
    <3>2. CASE tick.pc = "idle" /\ Active(db)
      <4>1. db.execution \in Turn /\ db.life = "live"
        BY <1>1, <3>2 DEF Good, StoreType, OpenTurn, Active, Turn
      <4>2. TickGood(tick') /\ tick'.turn = db.execution
        BY <3>1, <3>2, <4>1, TurnTickGood
      <4>3. TypeOK' /\ OneOpenTurn' /\ QueuesCurrent'
        BY <3>1, <3>2, <4>2 DEF SessionInv, TypeOK, OneOpenTurn, QueuesCurrent, TickGood, Active
      <4>4. WakeupPersists' /\ TickShape' /\ FenceHolds' /\ StoreStep
        BY <3>1, <3>2, <4>1, <4>2 DEF SessionInv, WakeupPersists, TickShape, TickGood, Shape,
                                    FenceHolds, Fenced, At, StoreStep, Kept
      <4> QED BY <4>3, <4>4 DEF SessionInv
    <3>3. CASE ~(tick.pc = "idle" /\ Active(db))
      BY <3>1, <3>3 DEF SessionInv, TypeOK, OneOpenTurn, QueuesCurrent, WakeupPersists, TickShape,
                        FenceHolds, Fenced, At, StoreStep, Kept, Active
    <3> QED BY <3>2, <3>3
  <2>2. CASE DeadlinePasses
    BY <2>2 DEF DeadlinePasses, SessionInv, TypeOK, OneOpenTurn, QueuesCurrent, WakeupPersists,
                TickShape, FenceHolds, Fenced, At, StoreStep, Kept
  <2>3. CASE Evict
    <3>1. /\ evictions' \in 0..MaxEviction /\ tick' = NoTick
          /\ deployed' \in {"same", "other", "missing"} /\ UNCHANGED <<db, alarm, late, job>>
      BY <1>1, <2>3, SessionAssumption DEF Evict
    <3>2. TypeOK' /\ OneOpenTurn' /\ QueuesCurrent'
      BY <3>1, NoTickGood DEF SessionInv, TypeOK, OneOpenTurn, QueuesCurrent, TickGood
    <3>3. WakeupPersists' /\ TickShape' /\ FenceHolds' /\ StoreStep
      BY <3>1, NoTickGood DEF SessionInv, WakeupPersists, TickShape, TickGood, Shape,
                              FenceHolds, At, StoreStep, Kept
    <3> QED BY <3>2, <3>3 DEF SessionInv
  <2> QED BY <1>6, <2>1, <2>2, <2>3 DEF Platform
<1>7. CASE Runtime
  <2>1. PICK g \in Turn : \E n \in JobType : JobStep(g, n)
    <3>1. \A g \in Turn : job[g] \in JobType
      BY <1>1
    <3> QED BY <1>7, <3>1, JobTypes DEF Runtime, JobEmits, JobCompletes, JobCancelled, JobFails,
                                      JobVanishes
  <2>2. job' \in [Turn -> JobType] /\ UNCHANGED <<db, alarm, late, deployed, tick, evictions>>
    BY <1>1, <2>1, JobUpdate DEF JobStep
  <2> QED BY <2>2 DEF SessionInv, TypeOK, OneOpenTurn, QueuesCurrent, WakeupPersists, TickShape,
                      FenceHolds, Fenced, At, StoreStep, Kept
<1> QED BY <1>3, <1>4, <1>5, <1>6, <1>7

-----------------------------------------------------------------------------
\* The invariant holds in a new session.
LEMMA InvInit == Init => SessionInv
<1> SUFFICES ASSUME Init PROVE SessionInv
  OBVIOUS
<1>1. Good(db) /\ ~Active(db) /\ TickGood(tick) /\ tick.pc = "idle"
  BY EmptyGood, NoTickGood DEF Init
<1>2. job \in [Turn -> JobType]
  <2>1. NoJob \in JobType
    BY DEF NoJob, JobType
  <2> QED BY <2>1 DEF Init
<1>3. TypeOK
  <2>1. 0 \in 0..MaxEviction
    BY SessionAssumption
  <2>2. evictions \in 0..MaxEviction
    BY <2>1 DEF Init
  <2>3. alarm \in BOOLEAN /\ late \in BOOLEAN /\ deployed \in {"same", "other", "missing"}
    BY DEF Init
  <2> QED BY <1>1, <1>2, <2>2, <2>3 DEF TypeOK, Good, TickGood
<1> QED BY <1>1, <1>3 DEF SessionInv, OneOpenTurn, QueuesCurrent, Good, FenceHolds,
                         WakeupPersists, TickShape, TickGood, Shape, At

\* Every step keeps the invariant, and keeps published outcomes and failures.
LEMMA InvNext == SessionInv /\ [Next]_vars => SessionInv' /\ StoreStep
<1> SUFFICES ASSUME SessionInv, [Next]_vars PROVE SessionInv' /\ StoreStep
  OBVIOUS
<1>1. CASE Client
  BY <1>1, SubmitStep, OtherSteps DEF Client
<1>2. CASE Environment \/ Platform \/ Runtime
  BY <1>2, OtherSteps
<1>3. CASE Reconciler
  BY <1>3, ReconcilerStep
<1>4. CASE UNCHANGED vars
  BY <1>4 DEF vars, SessionInv, TypeOK, OneOpenTurn, QueuesCurrent, WakeupPersists, TickShape,
              FenceHolds, Fenced, At, StoreStep, Kept
<1> QED BY <1>1, <1>2, <1>3, <1>4 DEF Next

\* The inductive invariant of the session, its reconciler and its jobs.
THEOREM Invariance == Spec => []SessionInv
BY InvInit, InvNext, PTL DEF Spec

\* Every record the session writes has the persisted shape (session-record.ts).
THEOREM TypeCorrect == Spec => []TypeOK
<1>1. SessionInv => TypeOK
  BY DEF SessionInv
<1> QED BY <1>1, Invariance, PTL

\* One turn is open at a time, the newest, and every queued steer, answer,
\* cancellation and required action belongs to it (validate, complete); and the
\* fence of a running tick holds at every await: one permit per object and the
\* guard of markDeleted leave nobody who could supersede it (tx.fenced).
THEOREM RecordStaysCurrent == Spec => []RecordCurrent
<1>1. SessionInv => RecordCurrent
  BY DEF SessionInv, RecordCurrent
<1> QED BY <1>1, Invariance, PTL

\* An active turn always has an alarm, whatever is lost or evicted
\* (submitProgram, alarmProgram).
THEOREM NoOrphanedTurn == Spec => []WakeupPersists
<1>1. SessionInv => WakeupPersists
  BY DEF SessionInv
<1> QED BY <1>1, Invariance, PTL

\* A published outcome of a turn never changes (complete, acceptToolResult).
THEOREM OutcomesFinal == Spec => TerminalForever
<1>1. StoreStep => [\A g \in Turn : db.turns[g] \in Terminal /\ db'.life # "purged"
                        => db'.turns[g] = db.turns[g]]_vars
  BY DEF StoreStep, Kept
<1> QED BY <1>1, InvInit, InvNext, PTL DEF Spec, TerminalForever

\* A failed session stays failed and begins no further turn (acceptInput,
\* applyEnvironmentStatus).
THEOREM FailureFinal == Spec => FailedForever
<1>1. StoreStep => [db.phase = "failed" /\ db'.life # "purged" =>
                      db'.phase = "failed" /\ db'.generation = db.generation]_vars
  BY DEF StoreStep
<1> QED BY <1>1, InvInit, InvNext, PTL DEF Spec, FailedForever

\* Clients are never told something else later: an outcome stands and a failed
\* session stays failed.
THEOREM OutcomesNeverChange == Spec => OutcomesStand
BY OutcomesFinal, FailureFinal, PTL DEF OutcomesStand

-----------------------------------------------------------------------------
(* The second invariant.  First, what each operator does field by field.    *)

\* The fields of a record.
LEMMA StoreDomain ==
  ASSUME NEW d \in StoreType
  PROVE  DOMAIN d = {"life", "phase", "generation", "execution", "input", "cursor",
           "checkpoint", "status", "error", "actions", "turns", "items", "shown", "commands",
           "cancellation", "queued", "accepted", "environment"}
BY DEF StoreType

\* What begin changes; the statuses are in BeginFields.
LEMMA BeginEffect ==
  ASSUME NEW d \in StoreType, NEW i
  PROVE  LET r == begin(d, i) IN
         /\ r.generation = d.generation + 1 /\ r.execution = d.generation + 1 /\ r.input = i
         /\ r.cursor = 0 /\ r.phase = "starting" /\ r.status = "in_progress" /\ r.life = d.life
         /\ r.checkpoint = d.checkpoint /\ r.error = d.error /\ r.actions = d.actions
         /\ r.items = d.items /\ r.shown = d.shown /\ r.commands = d.commands
         /\ r.cancellation = d.cancellation /\ r.queued = d.queued /\ r.accepted = d.accepted
BY StoreDomain DEF begin

\* What addInput changes.
LEMMA AddInputEffect ==
  ASSUME NEW d \in StoreType, d.execution \in Turn, NEW i
  PROVE  LET r == addInput(d, i) IN
         /\ r.life = d.life /\ r.phase = d.phase /\ r.generation = d.generation
         /\ r.execution = d.execution /\ r.input = d.input /\ r.cursor = d.cursor
         /\ r.checkpoint = d.checkpoint /\ r.status = d.status /\ r.error = d.error
         /\ r.actions = d.actions /\ r.turns = d.turns /\ r.shown = d.shown
         /\ r.commands = d.commands /\ r.cancellation = d.cancellation /\ r.queued = d.queued
         /\ r.accepted = d.accepted
         /\ r.items[d.execution] = d.items[d.execution] \cup i
         /\ \A h \in Turn : h # d.execution => r.items[h] = d.items[h]
<1> DEFINE r == addInput(d, i)
<1>1. /\ r.life = d.life /\ r.phase = d.phase /\ r.generation = d.generation
      /\ r.execution = d.execution /\ r.input = d.input /\ r.cursor = d.cursor
      /\ r.checkpoint = d.checkpoint /\ r.status = d.status /\ r.error = d.error
      /\ r.actions = d.actions /\ r.turns = d.turns /\ r.shown = d.shown
      /\ r.commands = d.commands /\ r.cancellation = d.cancellation /\ r.queued = d.queued
      /\ r.accepted = d.accepted
      /\ r.items = [d.items EXCEPT ![d.execution] = @ \cup i]
  BY StoreDomain DEF addInput
<1>2. d.items \in [Turn -> SUBSET Input]
  BY DEF StoreType
<1> HIDE DEF r
<1>3. r.items[d.execution] = d.items[d.execution] \cup i
         /\ \A h \in Turn : h # d.execution => r.items[h] = d.items[h]
  BY <1>1, <1>2
<1> QED BY <1>1, <1>3 DEF r

\* What enqueue changes.
LEMMA EnqueueEffect ==
  ASSUME NEW d \in StoreType, NEW c
  PROVE  LET r == enqueue(d, c) IN
         /\ r.commands = Append(d.commands, c) /\ r.life = d.life /\ r.phase = d.phase
         /\ r.generation = d.generation /\ r.execution = d.execution /\ r.input = d.input
         /\ r.cursor = d.cursor /\ r.checkpoint = d.checkpoint /\ r.status = d.status
         /\ r.error = d.error /\ r.actions = d.actions /\ r.turns = d.turns /\ r.items = d.items
         /\ r.shown = d.shown /\ r.cancellation = d.cancellation /\ r.queued = d.queued
         /\ r.accepted = d.accepted
BY StoreDomain DEF enqueue

\* What discard changes.
LEMMA DiscardEffect ==
  ASSUME NEW d \in StoreType, NEW c
  PROVE  LET r == discard(d, c) IN
         /\ r.commands = Without(d.commands, c) /\ r.life = d.life /\ r.phase = d.phase
         /\ r.generation = d.generation /\ r.execution = d.execution /\ r.input = d.input
         /\ r.cursor = d.cursor /\ r.checkpoint = d.checkpoint /\ r.status = d.status
         /\ r.error = d.error /\ r.actions = d.actions /\ r.turns = d.turns /\ r.items = d.items
         /\ r.shown = d.shown /\ r.cancellation = d.cancellation /\ r.queued = d.queued
         /\ r.accepted = d.accepted
BY StoreDomain DEF discard

\* What markRunning changes.
LEMMA MarkRunningEffect ==
  ASSUME NEW d \in StoreType, d.execution \in Turn
  PROVE  LET r == markRunning(d) IN
         /\ r.phase = "running" /\ r.life = d.life /\ r.generation = d.generation
         /\ r.execution = d.execution /\ r.input = d.input /\ r.cursor = d.cursor
         /\ r.checkpoint = d.checkpoint /\ r.status = d.status /\ r.error = d.error
         /\ r.actions = d.actions /\ r.items = d.items /\ r.shown = d.shown
         /\ r.commands = d.commands /\ r.cancellation = d.cancellation /\ r.queued = d.queued
         /\ r.accepted = d.accepted
         /\ \A h \in Turn : r.turns[h] = IF h = d.execution THEN "in_progress" ELSE d.turns[h]
<1> DEFINE r == markRunning(d)
<1>1. /\ r.phase = "running" /\ r.life = d.life /\ r.generation = d.generation
      /\ r.execution = d.execution /\ r.input = d.input /\ r.cursor = d.cursor
      /\ r.checkpoint = d.checkpoint /\ r.status = d.status /\ r.error = d.error
      /\ r.actions = d.actions /\ r.items = d.items /\ r.shown = d.shown
      /\ r.commands = d.commands /\ r.cancellation = d.cancellation /\ r.queued = d.queued
      /\ r.accepted = d.accepted
      /\ r.turns = [d.turns EXCEPT ![d.execution] = "in_progress"]
  BY StoreDomain DEF markRunning
<1>2. d.turns \in [Turn -> TurnStatus]
  BY DEF StoreType
<1> HIDE DEF r
<1>3. \A h \in Turn : r.turns[h] = IF h = d.execution THEN "in_progress" ELSE d.turns[h]
  BY <1>1, <1>2
<1> QED BY <1>1, <1>3 DEF r

\* What a cancellation of the active turn changes.
LEMMA CancelEffect ==
  ASSUME NEW d \in StoreType, Active(d)
  PROVE  LET r == acceptCancel(d) IN
         /\ r.cancellation = d.cancellation \cup {d.execution} /\ r.life = d.life
         /\ r.phase = d.phase /\ r.generation = d.generation /\ r.execution = d.execution
         /\ r.input = d.input /\ r.cursor = d.cursor /\ r.checkpoint = d.checkpoint
         /\ r.status = d.status /\ r.error = d.error /\ r.actions = d.actions
         /\ r.turns = d.turns /\ r.items = d.items /\ r.shown = d.shown
         /\ r.commands = d.commands /\ r.queued = d.queued /\ r.accepted = d.accepted
BY StoreDomain DEF acceptCancel

\* What runtime events change.
LEMMA EventsEffect ==
  ASSUME NEW d \in StoreType, d.execution \in Turn, NEW e
  PROVE  LET r == acceptRuntimeEvents(d, e) IN
         /\ r.cursor = d.cursor + Len(e) /\ r.life = d.life /\ r.phase = d.phase
         /\ r.generation = d.generation /\ r.execution = d.execution /\ r.input = d.input
         /\ r.checkpoint = d.checkpoint /\ r.error = d.error /\ r.items = d.items
         /\ r.commands = d.commands /\ r.cancellation = d.cancellation /\ r.queued = d.queued
         /\ r.accepted = d.accepted
         /\ r.shown[d.execution] = d.shown[d.execution] \o e
         /\ \A h \in Turn : h # d.execution => r.shown[h] = d.shown[h]
<1> DEFINE r == acceptRuntimeEvents(d, e)
<1>1. /\ r.cursor = d.cursor + Len(e) /\ r.life = d.life /\ r.phase = d.phase
      /\ r.generation = d.generation /\ r.execution = d.execution /\ r.input = d.input
      /\ r.checkpoint = d.checkpoint /\ r.error = d.error /\ r.items = d.items
      /\ r.commands = d.commands /\ r.cancellation = d.cancellation /\ r.queued = d.queued
      /\ r.accepted = d.accepted
      /\ r.shown = [d.shown EXCEPT ![d.execution] = @ \o e]
  BY StoreDomain DEF acceptRuntimeEvents
<1>2. d.shown \in [Turn -> Seq(Event)]
  BY DEF StoreType
<1> HIDE DEF r
<1>3. r.shown[d.execution] = d.shown[d.execution] \o e
         /\ \A h \in Turn : h # d.execution => r.shown[h] = d.shown[h]
  BY <1>1, <1>2
<1> QED BY <1>1, <1>3 DEF r

\* Which of them park the turn.
LEMMA EventsPark ==
  ASSUME NEW d \in StoreType, d.execution \in Turn, NEW e
  PROVE  LET r == acceptRuntimeEvents(d, e) IN
         /\ Elements(e) \cap Call = {} =>
              r.actions = d.actions /\ r.status = d.status /\ r.turns = d.turns
         /\ Elements(e) \cap Call # {} =>
              /\ r.status = "requires_action" /\ r.actions # {}
              /\ \A h \in Turn : r.turns[h] = IF h = d.execution THEN "waiting" ELSE d.turns[h]
<1> DEFINE r == acceptRuntimeEvents(d, e)
           calls == Elements(e) \cap Call
<1>1. /\ r.actions = d.actions \cup {[turn |-> d.execution, call |-> c] : c \in calls}
      /\ r.status = IF calls # {} THEN "requires_action" ELSE d.status
      /\ r.turns = IF calls # {} THEN [d.turns EXCEPT ![d.execution] = "waiting"] ELSE d.turns
  BY StoreDomain DEF acceptRuntimeEvents
<1>2. d.turns \in [Turn -> TurnStatus]
  BY DEF StoreType
<1> HIDE DEF r, calls
<1>3. ASSUME calls = {}
      PROVE  r.actions = d.actions /\ r.status = d.status /\ r.turns = d.turns
  BY <1>1, <1>3
<1>4. ASSUME calls # {}
      PROVE  /\ r.status = "requires_action" /\ r.actions # {}
             /\ \A h \in Turn : r.turns[h] = IF h = d.execution THEN "waiting" ELSE d.turns[h]
  <2>1. r.status = "requires_action" /\ r.turns = [d.turns EXCEPT ![d.execution] = "waiting"]
    BY <1>1, <1>4
  <2>2. r.actions # {}
    <3>1. PICK c : c \in calls
      BY <1>4
    <3>2. [turn |-> d.execution, call |-> c] \in r.actions
      BY <1>1, <3>1
    <3> QED BY <3>2
  <2> QED BY <1>2, <2>1, <2>2
<1> QED BY <1>3, <1>4 DEF r, calls

\* What an answer to a required action changes.
LEMMA ToolResultEffect ==
  ASSUME NEW d \in StoreType, NEW g \in Turn, NEW c
  PROVE  LET r == acceptToolResult(d, g, c) IN
         /\ r.commands = Append(d.commands, ToolResult(d.execution, c))
         /\ r.actions = d.actions \ {[turn |-> g, call |-> c]}
         /\ r.status = IF d.actions \ {[turn |-> g, call |-> c]} = {} THEN "in_progress" ELSE "requires_action"
         /\ r.life = d.life /\ r.phase = d.phase /\ r.generation = d.generation
         /\ r.execution = d.execution /\ r.input = d.input /\ r.cursor = d.cursor
         /\ r.checkpoint = d.checkpoint /\ r.error = d.error /\ r.items = d.items
         /\ r.shown = d.shown /\ r.cancellation = d.cancellation /\ r.queued = d.queued
         /\ r.accepted = d.accepted
         /\ \A h \in Turn : r.turns[h] = IF d.actions \ {[turn |-> g, call |-> c]} = {} /\ h = g
                                      THEN "in_progress" ELSE d.turns[h]
<1> DEFINE r == acceptToolResult(d, g, c)
<1>1. /\ r.commands = Append(d.commands, ToolResult(d.execution, c))
      /\ r.actions = d.actions \ {[turn |-> g, call |-> c]}
      /\ r.status = IF d.actions \ {[turn |-> g, call |-> c]} = {} THEN "in_progress" ELSE "requires_action"
      /\ r.life = d.life /\ r.phase = d.phase /\ r.generation = d.generation
      /\ r.execution = d.execution /\ r.input = d.input /\ r.cursor = d.cursor
      /\ r.checkpoint = d.checkpoint /\ r.error = d.error /\ r.items = d.items
      /\ r.shown = d.shown /\ r.cancellation = d.cancellation /\ r.queued = d.queued
      /\ r.accepted = d.accepted
      /\ r.turns = IF d.actions \ {[turn |-> g, call |-> c]} = {}
                     THEN [d.turns EXCEPT ![g] = "in_progress"] ELSE d.turns
  BY StoreDomain DEF acceptToolResult, enqueue
<1>2. d.turns \in [Turn -> TurnStatus]
  BY DEF StoreType
<1> HIDE DEF r
<1>3. \A h \in Turn : r.turns[h] = IF d.actions \ {[turn |-> g, call |-> c]} = {} /\ h = g
                                      THEN "in_progress" ELSE d.turns[h]
  BY <1>1, <1>2
<1> QED BY <1>1, <1>3 DEF r

\* What a refused steer changes.
LEMMA RefusedSteerEffect ==
  ASSUME NEW d \in StoreType, NEW c, c.type = "steer", c.turn \in Turn
  PROVE  LET r == reject(d, c) IN
         /\ r.commands = Without(d.commands, c) /\ r.queued = Append(d.queued, c.arg)
         /\ r.life = d.life /\ r.phase = d.phase /\ r.generation = d.generation
         /\ r.execution = d.execution /\ r.input = d.input /\ r.cursor = d.cursor
         /\ r.checkpoint = d.checkpoint /\ r.status = d.status /\ r.error = d.error
         /\ r.actions = d.actions /\ r.turns = d.turns /\ r.shown = d.shown
         /\ r.cancellation = d.cancellation /\ r.accepted = d.accepted
         /\ r.items[c.turn] = d.items[c.turn] \ {c.arg}
         /\ \A h \in Turn : h # c.turn => r.items[h] = d.items[h]
<1> DEFINE r == reject(d, c)
<1>1. /\ r.commands = Without(d.commands, c) /\ r.queued = Append(d.queued, c.arg)
      /\ r.life = d.life /\ r.phase = d.phase /\ r.generation = d.generation
      /\ r.execution = d.execution /\ r.input = d.input /\ r.cursor = d.cursor
      /\ r.checkpoint = d.checkpoint /\ r.status = d.status /\ r.error = d.error
      /\ r.actions = d.actions /\ r.turns = d.turns /\ r.shown = d.shown
      /\ r.cancellation = d.cancellation /\ r.accepted = d.accepted
      /\ r.items = [d.items EXCEPT ![c.turn] = @ \ {c.arg}]
  BY StoreDomain DEF reject, discard
<1>2. d.items \in [Turn -> SUBSET Input]
  BY DEF StoreType
<1> HIDE DEF r
<1>3. r.items[c.turn] = d.items[c.turn] \ {c.arg}
         /\ \A h \in Turn : h # c.turn => r.items[h] = d.items[h]
  BY <1>1, <1>2
<1> QED BY <1>1, <1>3 DEF r

\* What sealTurn changes.
LEMMA SealEffect ==
  ASSUME NEW d \in StoreType, d.execution \in Turn, NEW status, NEW error
  PROVE  LET r == sealTurn(d, status, error) IN
         /\ r.execution = 0 /\ r.actions = {} /\ r.queued = <<>> /\ r.commands = <<>>
         /\ r.error = error /\ r.life = d.life /\ r.generation = d.generation
         /\ r.cursor = d.cursor /\ r.checkpoint = d.checkpoint /\ r.items = d.items
         /\ r.shown = d.shown /\ r.accepted = d.accepted
         /\ r.phase \in {"idle", "failed"} /\ r.status = r.phase
         /\ \A h \in Turn : r.turns[h] = IF h = d.execution THEN status ELSE d.turns[h]
<1> DEFINE r == sealTurn(d, status, error)
<1>1. /\ r.execution = 0 /\ r.actions = {} /\ r.queued = <<>> /\ r.commands = <<>>
      /\ r.error = error /\ r.life = d.life /\ r.generation = d.generation
      /\ r.cursor = d.cursor /\ r.checkpoint = d.checkpoint /\ r.items = d.items
      /\ r.shown = d.shown /\ r.accepted = d.accepted
      /\ r.phase \in {"idle", "failed"} /\ r.status = r.phase
      /\ r.turns = [d.turns EXCEPT ![d.execution] = status]
  BY StoreDomain DEF sealTurn, isIndeterminate
<1>2. d.turns \in [Turn -> TurnStatus]
  BY DEF StoreType
<1> HIDE DEF r
<1>3. \A h \in Turn : r.turns[h] = IF h = d.execution THEN status ELSE d.turns[h]
  BY <1>1, <1>2
<1> QED BY <1>1, <1>3 DEF r

\* What a completed batch changes besides its events.
LEMMA CheckpointingEffect ==
  ASSUME NEW d \in StoreType
  PROVE  LET r == [d EXCEPT !.phase = "checkpointing"] IN
         /\ r.phase = "checkpointing" /\ r.life = d.life /\ r.generation = d.generation
         /\ r.execution = d.execution /\ r.input = d.input /\ r.cursor = d.cursor
         /\ r.checkpoint = d.checkpoint /\ r.status = d.status /\ r.error = d.error
         /\ r.actions = d.actions /\ r.turns = d.turns /\ r.items = d.items /\ r.shown = d.shown
         /\ r.commands = d.commands /\ r.cancellation = d.cancellation /\ r.queued = d.queued
         /\ r.accepted = d.accepted
BY StoreDomain

\* What markDeleted changes.
LEMMA DeletedEffect ==
  ASSUME NEW d \in StoreType
  PROVE  LET r == markDeleted(d) IN
         /\ r.life = "deleted" /\ r.phase = d.phase /\ r.generation = d.generation
         /\ r.execution = d.execution /\ r.input = d.input /\ r.cursor = d.cursor
         /\ r.checkpoint = d.checkpoint /\ r.status = d.status /\ r.error = d.error
         /\ r.actions = d.actions /\ r.turns = d.turns /\ r.items = d.items /\ r.shown = d.shown
         /\ r.commands = d.commands /\ r.cancellation = d.cancellation /\ r.queued = d.queued
         /\ r.accepted = d.accepted
BY StoreDomain DEF markDeleted

\* What a failed environment changes of an idle session.
LEMMA FailedSetupEffect ==
  ASSUME NEW d \in StoreType, ~Active(d)
  PROVE  LET r == applyEnvironmentStatus(d, "failed") IN
         /\ r.phase = "failed" /\ r.status = "failed" /\ r.error = "environment_setup_failed"
         /\ r.life = d.life /\ r.generation = d.generation /\ r.execution = d.execution
         /\ r.input = d.input /\ r.cursor = d.cursor /\ r.checkpoint = d.checkpoint
         /\ r.actions = d.actions /\ r.turns = d.turns /\ r.items = d.items /\ r.shown = d.shown
         /\ r.commands = d.commands /\ r.cancellation = d.cancellation /\ r.queued = d.queued
         /\ r.accepted = d.accepted
BY StoreDomain DEF applyEnvironmentStatus

\* What any other report changes.
LEMMA EnvironmentEffect ==
  ASSUME NEW d \in StoreType, NEW s, s # "failed" \/ Active(d)
  PROVE  LET r == applyEnvironmentStatus(d, s) IN
         /\ r.life = d.life /\ r.phase = d.phase /\ r.generation = d.generation
         /\ r.execution = d.execution /\ r.input = d.input /\ r.cursor = d.cursor
         /\ r.checkpoint = d.checkpoint /\ r.status = d.status /\ r.error = d.error
         /\ r.actions = d.actions /\ r.turns = d.turns /\ r.items = d.items /\ r.shown = d.shown
         /\ r.commands = d.commands /\ r.cancellation = d.cancellation /\ r.queued = d.queued
         /\ r.accepted = d.accepted
BY StoreDomain DEF applyEnvironmentStatus

\* A command in the queue is removed at its first place.
LEMMA WithoutSpot ==
  ASSUME NEW S, NEW s \in Seq(S), NEW x \in Elements(s)
  PROVE  \E k \in 1..Len(s) :
           /\ s[k] = x
           /\ Without(s, x) \in Seq(S) /\ Len(Without(s, x)) = Len(s) - 1
           /\ \A n \in 1..Len(s) - 1 : Without(s, x)[n] = s[IF n < k THEN n ELSE n + 1]
<1>1. PICK k \in 1..Len(s) :
        s[k] = x /\ Without(s, x) = SubSeq(s, 1, k - 1) \o SubSeq(s, k + 1, Len(s))
  <2> DEFINE k == CHOOSE m \in 1..Len(s) : s[m] = x
  <2>1. k \in 1..Len(s) /\ s[k] = x
    BY DEF Elements
  <2>2. Without(s, x) = SubSeq(s, 1, k - 1) \o SubSeq(s, k + 1, Len(s))
    BY DEF Without
  <2> HIDE DEF k
  <2> QED BY <2>1, <2>2
<1> DEFINE a == SubSeq(s, 1, k - 1)
           b == SubSeq(s, k + 1, Len(s))
<1>2. Len(s) \in Nat
  BY LenProperties
<1>3. /\ a \in Seq(S) /\ Len(a) = k - 1 /\ \A n \in 1..k - 1 : a[n] = s[n]
  <2>1. CASE k = 1
    <3>1. a = <<>>
      BY <1>2, <2>1, SubSeqProperties
    <3> QED BY <2>1, <3>1
  <2>2. CASE k # 1
    <3>1. 1 \in 1..Len(s) /\ k - 1 \in 1..Len(s) /\ 1 \in 1..(k - 1) + 1
      BY <1>2, <2>2
    <3> QED BY <1>2, <2>2, <3>1, SubSeqProperties
  <2> QED BY <2>1, <2>2
<1>4. /\ b \in Seq(S) /\ Len(b) = Len(s) - k /\ \A n \in 1..Len(s) - k : b[n] = s[k + n]
  <2>1. CASE k = Len(s)
    <3>1. b = <<>>
      BY <1>2, <2>1, SubSeqProperties
    <3> QED BY <2>1, <3>1
  <2>2. CASE k # Len(s)
    <3>1. k + 1 \in 1..Len(s) /\ Len(s) \in 1..Len(s) /\ k + 1 \in 1..Len(s) + 1
      BY <1>2, <2>2
    <3> QED BY <1>2, <2>2, <3>1, SubSeqProperties
  <2> QED BY <2>1, <2>2
<1> HIDE DEF a, b
<1>5. /\ a \o b \in Seq(S) /\ Len(a \o b) = Len(a) + Len(b)
      /\ \A n \in 1..Len(a) + Len(b) : (a \o b)[n] = IF n <= Len(a) THEN a[n] ELSE b[n - Len(a)]
  BY <1>3, <1>4, ConcatProperties
<1>6. ASSUME NEW n \in 1..Len(s) - 1
      PROVE  (a \o b)[n] = s[IF n < k THEN n ELSE n + 1]
  <2>1. n < k => (a \o b)[n] = s[n]
    BY <1>1, <1>2, <1>3, <1>4, <1>5
  <2>2. ASSUME ~(n < k) PROVE (a \o b)[n] = s[n + 1]
    <3>1. k \in Int /\ n \in Int /\ Len(s) \in Int /\ n >= k /\ n <= Len(s) - 1
      BY <1>1, <1>2, <2>2
    <3>2. n - (k - 1) \in 1..Len(s) - k /\ k + (n - (k - 1)) = n + 1
      BY <3>1
    <3>3. b[n - (k - 1)] = s[n + 1]
      BY <1>4, <3>2
    <3>4. n \in 1..Len(a) + Len(b) /\ ~(n <= Len(a)) /\ n - Len(a) = n - (k - 1)
      BY <1>1, <1>3, <1>4, <3>1
    <3> QED BY <1>5, <3>3, <3>4
  <2> QED BY <2>1, <2>2
<1>7. Without(s, x) = a \o b /\ Len(a \o b) = Len(s) - 1 /\ a \o b \in Seq(S)
  <2>1. Without(s, x) = a \o b
    BY <1>1 DEF a, b
  <2>2. Len(a \o b) = Len(s) - 1 /\ a \o b \in Seq(S)
    BY <1>1, <1>2, <1>3, <1>4, <1>5
  <2> QED BY <2>1, <2>2
<1> QED BY <1>1, <1>6, <1>7

\* Removing a command leaves the others, once each if they were.
LEMMA WithoutOthers ==
  ASSUME NEW S, NEW s \in Seq(S), NEW x \in Elements(s)
  PROVE  /\ \A y \in Elements(s) : y # x => y \in Elements(Without(s, x))
         /\ \A n \in 1..Len(Without(s, x)) : Without(s, x)[n] \in Elements(s)
         /\ \A m, n \in 1..Len(Without(s, x)) :
              Without(s, x)[m] = Without(s, x)[n] =>
                m = n \/ \E p, q \in 1..Len(s) : p # q /\ s[p] = s[q] /\ s[q] = Without(s, x)[n]
         /\ x \in Elements(Without(s, x)) =>
              \E p, q \in 1..Len(s) : p # q /\ s[p] = s[q] /\ s[q] = x
<1> DEFINE w == Without(s, x)
           up(k, n) == IF n < k THEN n ELSE n + 1
<1>1. PICK k \in 1..Len(s) :
        /\ s[k] = x /\ w \in Seq(S) /\ Len(w) = Len(s) - 1
        /\ \A n \in 1..Len(s) - 1 : w[n] = s[up(k, n)]
  <2>1. PICK k \in 1..Len(s) :
          /\ s[k] = x
          /\ Without(s, x) \in Seq(S) /\ Len(Without(s, x)) = Len(s) - 1
          /\ \A n \in 1..Len(s) - 1 : Without(s, x)[n] = s[IF n < k THEN n ELSE n + 1]
    BY ONLY s \in Seq(S), x \in Elements(s), WithoutSpot
  <2> QED BY ONLY <2>1
<1>2. Len(s) \in Nat
  BY LenProperties
<1> HIDE DEF w
<1>3. \A n \in 1..Len(w) : up(k, n) \in 1..Len(s) /\ w[n] = s[up(k, n)] /\ up(k, n) # k
  BY <1>1, <1>2
<1>4. \A m, n \in 1..Len(w) : up(k, m) = up(k, n) => m = n
  BY <1>1, <1>2
<1>5. ASSUME NEW j \in 1..Len(s), j # k
      PROVE  \E n \in 1..Len(w) : up(k, n) = j
  <2>1. CASE j < k
    BY <1>1, <1>2, <2>1
  <2>2. CASE ~(j < k)
    <3>1. j - 1 \in 1..Len(w) /\ up(k, j - 1) = j
      BY <1>1, <1>2, <1>5, <2>2
    <3> QED BY <3>1
  <2> QED BY <2>1, <2>2
<1> HIDE DEF up
<1>6. ASSUME NEW y \in Elements(s), y # x PROVE y \in Elements(w)
  <2>1. PICK j \in 1..Len(s) : s[j] = y
    BY DEF Elements
  <2>2. PICK n \in 1..Len(w) : up(k, n) = j
    BY <1>1, <1>5, <1>6, <2>1
  <2>3. w[n] = y
    BY <1>3, <2>1, <2>2
  <2> QED BY <2>3 DEF Elements
<1>7. \A n \in 1..Len(w) : w[n] \in Elements(s)
  BY <1>3 DEF Elements
<1>8. ASSUME NEW m \in 1..Len(w), NEW n \in 1..Len(w), w[m] = w[n], m # n
      PROVE  \E p, q \in 1..Len(s) : p # q /\ s[p] = s[q] /\ s[q] = w[n]
  BY <1>3, <1>4, <1>8
<1>9. ASSUME NEW n \in 1..Len(w), w[n] = x
      PROVE  \E p, q \in 1..Len(s) : p # q /\ s[p] = s[q] /\ s[q] = x
  BY <1>1, <1>3, <1>9
<1> QED BY <1>6, <1>7, <1>8, <1>9 DEF w, Elements

-----------------------------------------------------------------------------
(* What a client is told: the second invariant.  It relates the record to  *)
(* the jobs (J), and the locals of a tick to both.  Its parts are operators *)
(* on a record, so that each operator of session-state.ts is one lemma.     *)

\* The status says what the record holds; a turn that starts has no action.
Truth(d) ==
  /\ d.status = "idle" <=> d.phase = "idle"
  /\ d.status = "failed" <=> d.phase = "failed"
  /\ d.status = "requires_action" <=> d.actions # {}
  /\ \A g \in Turn : d.turns[g] = "waiting" <=> \E a \in d.actions : a.turn = g
  /\ d.phase = "starting" => d.actions = {}

\* Nothing is known of a turn that has not begun.
Blank(d, J) ==
  \A g \in Turn : g > d.generation =>
    /\ d.shown[g] = <<>> /\ d.items[g] = {}
    /\ d.life # "purged" => J[g].state = "none"

Prefix(s, l) == Len(s) <= Len(l) /\ \A n \in 1..Len(s) : s[n] = l[n]

\* What a turn shows is the beginning of its job's log, up to the cursor.
Logged(d, J) ==
  /\ \A g \in Turn : Prefix(d.shown[g], J[g].log)
  /\ Active(d) => d.cursor = Len(d.shown[d.execution])

\* The checkpoint is that of the last completed turn.
Saved(d, J) ==
  /\ d.checkpoint <= d.generation
  /\ d.life # "purged" =>
       /\ \A g \in Turn : d.turns[g] = "completed" => g <= d.checkpoint
       /\ d.checkpoint # 0 => d.turns[d.checkpoint] = "completed" /\ J[d.checkpoint].saved

IsSteer(c) == c.type = "steer"

\* A message is in one place: a turn's items or the refused ones.  U is what was
\* accepted so far.
Once(d, U) ==
  /\ \A g, h \in Turn : \A i \in d.items[g] : i \in d.items[h] => g = h
  /\ \A n \in 1..Len(d.queued) : d.queued[n] \in U /\ \A g \in Turn : d.queued[n] \notin d.items[g]
  /\ \A m, n \in 1..Len(d.queued) : d.queued[m] = d.queued[n] => m = n
  /\ \A n \in 1..Len(d.commands) :
       IsSteer(d.commands[n]) => d.commands[n].arg \in d.items[d.execution]
  /\ \A m, n \in 1..Len(d.commands) :
       IsSteer(d.commands[n]) /\ d.commands[m] = d.commands[n] => m = n
  /\ \A g \in Turn : d.items[g] \subseteq U

\* Every message of the active turn reached the job, or waits to be sent: as the
\* input of the start, or as a steer.
Taken(d, J) ==
  Active(d) =>
    /\ \A i \in d.items[d.execution] :
         i \in J[d.execution].got \cup d.input \/ Steer(d.execution, i) \in Elements(d.commands)
    /\ J[d.execution].state # "none" => d.input \subseteq J[d.execution].got
    /\ d.phase # "starting" => J[d.execution].state # "none"
    /\ d.phase = "checkpointing" => d.commands = <<>> \/ d.execution \in d.cancellation

Rec(d, U, J) ==
  /\ Good(d) /\ Truth(d) /\ Blank(d, J) /\ Logged(d, J) /\ Saved(d, J)
  /\ Once(d, U) /\ Taken(d, J)

\* A transition that keeps it, over the requests accepted so far.
Tells(d, r, V, J) == Rec(r, V, J) /\ r.accepted = d.accepted

\* What an active turn is.
LEMMA ActiveFacts ==
  ASSUME NEW d, Good(d), Active(d)
  PROVE  /\ d \in StoreType /\ d.execution \in Turn /\ d.generation \in 0..MaxTurn
         /\ d.execution = d.generation /\ d.life = "live" /\ d.phase \in ActivePhase
         /\ d.turns[d.execution] \in Open /\ d.turns[d.execution] \notin Terminal
         /\ d.checkpoint \in Turn \cup {0}
         /\ d.commands \in Seq(Command) /\ d.queued \in Seq(Input)
<1>1. d \in StoreType /\ d.execution \in Turn /\ d.generation \in 0..MaxTurn
      /\ d.checkpoint \in Turn \cup {0} /\ d.commands \in Seq(Command) /\ d.queued \in Seq(Input)
  BY DEF Good, StoreType, Active, Turn
<1>2. d.execution = d.generation /\ d.life = "live" /\ d.phase \in ActivePhase
      /\ d.turns[d.execution] \in Open
  BY <1>1 DEF Good, OpenTurn, Open
<1> QED BY <1>1, <1>2 DEF Open, Terminal

\* markRunning keeps it, once the job was started.
LEMMA MarkRunningKeeps ==
  ASSUME NEW J \in [Turn -> JobType], NEW U, NEW d, Rec(d, U, J),
         Active(d), d.phase = "starting", J[d.execution].state # "none"
  PROVE  Tells(d, markRunning(d), U, J)
<1> DEFINE r == markRunning(d)
<1>0. /\ d \in StoreType /\ Good(d) /\ d.execution \in Turn /\ d.generation \in 0..MaxTurn
      /\ d.execution = d.generation /\ d.life = "live" /\ d.phase \in ActivePhase
      /\ d.turns[d.execution] \notin Terminal /\ d.checkpoint \in Turn \cup {0}
      /\ d.commands \in Seq(Command) /\ d.queued \in Seq(Input)
  BY ActiveFacts DEF Rec
<1>1. /\ r.phase = "running" /\ r.life = d.life /\ r.generation = d.generation
      /\ r.execution = d.execution /\ r.input = d.input /\ r.cursor = d.cursor
      /\ r.checkpoint = d.checkpoint /\ r.status = d.status /\ r.error = d.error
      /\ r.actions = d.actions /\ r.items = d.items /\ r.shown = d.shown
      /\ r.commands = d.commands /\ r.cancellation = d.cancellation /\ r.queued = d.queued
      /\ r.accepted = d.accepted
      /\ \A h \in Turn : r.turns[h] = IF h = d.execution THEN "in_progress" ELSE d.turns[h]
  BY <1>0, MarkRunningEffect
<1>2. Good(r)
  BY <1>0, MarkRunningStays, StaysGood
<1> HIDE DEF r
<1>4. Truth(r)
  BY <1>0, <1>1 DEF Rec, Truth, Turn
<1>5. Blank(r, J)
  BY <1>0, <1>1, <1>2 DEF Rec, Blank, Turn
<1>6. Logged(r, J)
  BY <1>0, <1>1, <1>2 DEF Rec, Logged, Active
<1>7. Saved(r, J)
  BY <1>0, <1>1, <1>2 DEF Rec, Saved, Terminal
<1>8. Once(r, U)
  BY <1>0, <1>1, <1>2 DEF Rec, Once
<1>9. Taken(r, J)
  BY <1>0, <1>1, <1>2 DEF Rec, Taken, Active
<1>10. r.accepted = d.accepted
  BY <1>1
<1> QED BY <1>2, <1>4, <1>5, <1>6, <1>7, <1>8, <1>9, <1>10 DEF Rec, Tells, r

\* A cancellation keeps it.
LEMMA CancelKeeps ==
  ASSUME NEW J \in [Turn -> JobType], NEW U, NEW d, Rec(d, U, J), Active(d)
  PROVE  Tells(d, acceptCancel(d), U, J)
<1> DEFINE r == acceptCancel(d)
<1>0. /\ d \in StoreType /\ Good(d) /\ d.execution \in Turn /\ d.generation \in 0..MaxTurn
      /\ d.execution = d.generation /\ d.life = "live" /\ d.phase \in ActivePhase
      /\ d.turns[d.execution] \notin Terminal /\ d.checkpoint \in Turn \cup {0}
      /\ d.commands \in Seq(Command) /\ d.queued \in Seq(Input)
  BY ActiveFacts DEF Rec
<1>1. /\ r.cancellation = d.cancellation \cup {d.execution} /\ r.life = d.life
      /\ r.phase = d.phase /\ r.generation = d.generation /\ r.execution = d.execution
      /\ r.input = d.input /\ r.cursor = d.cursor /\ r.checkpoint = d.checkpoint
      /\ r.status = d.status /\ r.error = d.error /\ r.actions = d.actions /\ r.turns = d.turns
      /\ r.items = d.items /\ r.shown = d.shown /\ r.commands = d.commands
      /\ r.queued = d.queued /\ r.accepted = d.accepted
  BY <1>0, CancelEffect
<1>2. Good(r)
  BY <1>0, AcceptCancelStays, StaysGood
<1> HIDE DEF r
<1>4. Truth(r)
  BY <1>0, <1>1, <1>2 DEF Rec, Truth
<1>5. Blank(r, J)
  BY <1>0, <1>1, <1>2 DEF Rec, Blank, Turn
<1>6. Logged(r, J)
  BY <1>0, <1>1, <1>2 DEF Rec, Logged, Active
<1>7. Saved(r, J)
  BY <1>0, <1>1, <1>2 DEF Rec, Saved, Terminal
<1>8. Once(r, U)
  BY <1>0, <1>1, <1>2 DEF Rec, Once
<1>9. Taken(r, J)
  BY <1>0, <1>1, <1>2 DEF Rec, Taken, Active
<1>10. r.accepted = d.accepted
  BY <1>1
<1> QED BY <1>2, <1>4, <1>5, <1>6, <1>7, <1>8, <1>9, <1>10 DEF Rec, Tells, r

\* Discarding a steer the job took keeps it.
LEMMA SteerDiscardKeeps ==
  ASSUME NEW J \in [Turn -> JobType], NEW U, NEW d, Rec(d, U, J), Active(d),
         NEW c \in Command, c \in Elements(d.commands),
         IsSteer(c) => c.arg \in J[d.execution].got
  PROVE  Tells(d, discard(d, c), U, J)
<1> DEFINE r == discard(d, c)
<1>0. /\ d \in StoreType /\ Good(d) /\ d.execution \in Turn /\ d.generation \in 0..MaxTurn
      /\ d.execution = d.generation /\ d.life = "live" /\ d.phase \in ActivePhase
      /\ d.turns[d.execution] \notin Terminal /\ d.checkpoint \in Turn \cup {0}
      /\ d.commands \in Seq(Command) /\ d.queued \in Seq(Input)
  BY ActiveFacts DEF Rec
<1>1. /\ r.commands = Without(d.commands, c) /\ r.life = d.life /\ r.phase = d.phase
      /\ r.generation = d.generation /\ r.execution = d.execution /\ r.input = d.input
      /\ r.cursor = d.cursor /\ r.checkpoint = d.checkpoint /\ r.status = d.status
      /\ r.error = d.error /\ r.actions = d.actions /\ r.turns = d.turns /\ r.items = d.items
      /\ r.shown = d.shown /\ r.cancellation = d.cancellation /\ r.queued = d.queued
      /\ r.accepted = d.accepted
  BY <1>0, DiscardEffect
<1>2. Good(r)
  BY <1>0, DiscardStays, StaysGood
<1> HIDE DEF r
<1>3. /\ \A y \in Elements(d.commands) : y # c => y \in Elements(r.commands)
      /\ \A n \in 1..Len(r.commands) : r.commands[n] \in Elements(d.commands)
      /\ \A m, n \in 1..Len(r.commands) :
           r.commands[m] = r.commands[n] =>
             m = n \/ \E p, q \in 1..Len(d.commands) :
                       p # q /\ d.commands[p] = d.commands[q] /\ d.commands[q] = r.commands[n]
  <2>0. d.commands \in Seq(Command) /\ c \in Elements(d.commands)
    BY <1>0
  <2> DEFINE w == Without(d.commands, c)
  <2>1. /\ \A y \in Elements(d.commands) : y # c => y \in Elements(w)
        /\ \A n \in 1..Len(w) : w[n] \in Elements(d.commands)
        /\ \A m, n \in 1..Len(w) :
             w[m] = w[n] =>
               m = n \/ \E p, q \in 1..Len(d.commands) :
                         p # q /\ d.commands[p] = d.commands[q] /\ d.commands[q] = w[n]
    BY ONLY <2>0, WithoutOthers
  <2>2. r.commands = w
    BY <1>1
  <2> HIDE DEF w
  <2> QED BY <2>1, <2>2
<1>4. Truth(r)
  BY <1>0, <1>1, <1>2 DEF Rec, Truth
<1>5. Blank(r, J)
  BY <1>0, <1>1, <1>2 DEF Rec, Blank, Turn
<1>6. Logged(r, J)
  BY <1>0, <1>1, <1>2 DEF Rec, Logged, Active
<1>7. Saved(r, J)
  BY <1>0, <1>1, <1>2 DEF Rec, Saved, Terminal
<1>8. Once(r, U)
  <2>1. ASSUME NEW n \in 1..Len(r.commands), IsSteer(r.commands[n])
        PROVE  /\ r.commands[n].arg \in r.items[r.execution]
               /\ \A m \in 1..Len(r.commands) : r.commands[m] = r.commands[n] => m = n
    BY <1>1, <1>3, <2>1 DEF Rec, Once, Elements
  <2> QED BY <1>1, <2>1 DEF Rec, Once
<1>9. Taken(r, J)
  <2>1. ASSUME NEW i, Steer(d.execution, i) \in Elements(d.commands)
        PROVE  i \in J[d.execution].got \/ Steer(d.execution, i) \in Elements(r.commands)
    <3>1. Steer(d.execution, i).type = "steer" /\ Steer(d.execution, i).arg = i
      BY DEF Steer
    <3> QED BY <1>3, <2>1, <3>1 DEF IsSteer
  <2>2. d.commands # <<>>
    BY DEF Elements
  <2> QED BY <1>1, <2>1, <2>2 DEF Rec, Taken, Active
<1>10. r.accepted = d.accepted
  BY <1>1
<1> QED BY <1>2, <1>4, <1>5, <1>6, <1>7, <1>8, <1>9, <1>10 DEF Rec, Tells, r

\* A message for the active turn is shown in it and queued for its job.
LEMMA SteerKeeps ==
  ASSUME NEW J \in [Turn -> JobType], NEW U, NEW d, Rec(d, U, J),
         Active(d), d.phase # "checkpointing", NEW i \in Input,
         NEW V, U \subseteq V, i \in V, i \notin U
  PROVE  Tells(d, enqueue(addInput(d, {i}), Steer(d.execution, i)), V, J)
<1> DEFINE r == enqueue(addInput(d, {i}), Steer(d.execution, i))
<1>0. /\ d \in StoreType /\ Good(d) /\ d.execution \in Turn /\ d.generation \in 0..MaxTurn
      /\ d.execution = d.generation /\ d.life = "live" /\ d.phase \in ActivePhase
      /\ d.turns[d.execution] \notin Terminal /\ d.checkpoint \in Turn \cup {0}
      /\ d.commands \in Seq(Command) /\ d.queued \in Seq(Input)
  BY ActiveFacts DEF Rec
<1>1. /\ r.commands = Append(d.commands, Steer(d.execution, i))
      /\ r.life = d.life /\ r.phase = d.phase /\ r.generation = d.generation
      /\ r.execution = d.execution /\ r.input = d.input /\ r.cursor = d.cursor
      /\ r.checkpoint = d.checkpoint /\ r.status = d.status /\ r.error = d.error
      /\ r.actions = d.actions /\ r.turns = d.turns /\ r.shown = d.shown
      /\ r.cancellation = d.cancellation /\ r.queued = d.queued /\ r.accepted = d.accepted
      /\ r.items[d.execution] = d.items[d.execution] \cup {i}
      /\ \A h \in Turn : h # d.execution => r.items[h] = d.items[h]
  <2> DEFINE q == addInput(d, {i})
  <2>1. /\ q.life = d.life /\ q.phase = d.phase /\ q.generation = d.generation
        /\ q.execution = d.execution /\ q.input = d.input /\ q.cursor = d.cursor
        /\ q.checkpoint = d.checkpoint /\ q.status = d.status /\ q.error = d.error
        /\ q.actions = d.actions /\ q.turns = d.turns /\ q.shown = d.shown
        /\ q.commands = d.commands /\ q.cancellation = d.cancellation /\ q.queued = d.queued
        /\ q.accepted = d.accepted
        /\ q.items[d.execution] = d.items[d.execution] \cup {i}
        /\ \A h \in Turn : h # d.execution => q.items[h] = d.items[h]
    BY <1>0, AddInputEffect
  <2>2. q \in StoreType
    BY <1>0, AddInputStays DEF Stays, Rec
  <2> HIDE DEF q
  <2>3. /\ r.commands = Append(q.commands, Steer(d.execution, i)) /\ r.life = q.life
        /\ r.phase = q.phase /\ r.generation = q.generation /\ r.execution = q.execution
        /\ r.input = q.input /\ r.cursor = q.cursor /\ r.checkpoint = q.checkpoint
        /\ r.status = q.status /\ r.error = q.error /\ r.actions = q.actions
        /\ r.turns = q.turns /\ r.items = q.items /\ r.shown = q.shown
        /\ r.cancellation = q.cancellation /\ r.queued = q.queued /\ r.accepted = q.accepted
    BY <2>2, EnqueueEffect DEF q
  <2> QED BY <2>1, <2>3
<1>2. Good(r) /\ r = acceptMessage(d, i)
  <2>1. r = acceptMessage(d, i)
    BY DEF Rec, acceptMessage
  <2>2. Good(acceptMessage(d, i))
    BY <1>0, AcceptMessageMoves DEF Rec, Moves
  <2> QED BY <2>1, <2>2
<1> HIDE DEF r
<1>3. /\ Len(d.commands) \in Nat /\ Len(r.commands) = Len(d.commands) + 1
      /\ r.commands[Len(d.commands) + 1] = Steer(d.execution, i)
      /\ \A n \in 1..Len(d.commands) : r.commands[n] = d.commands[n]
      /\ Elements(r.commands) = Elements(d.commands) \cup {Steer(d.execution, i)}
      /\ Steer(d.execution, i).arg = i
  <2>1. Steer(d.execution, i) \in Command /\ Steer(d.execution, i).arg = i
    BY <1>0 DEF Command, Steer
  <2>2. d.commands \in Seq(Command) /\ Len(d.commands) \in Nat
    BY <1>0, LenProperties
  <2> QED BY <1>1, <2>1, <2>2, AppendProperties, ElementsAppend
<1>4. Truth(r)
  BY <1>0, <1>1, <1>2 DEF Rec, Truth
<1>5. Blank(r, J)
  BY <1>0, <1>1, <1>2 DEF Rec, Blank, Turn
<1>6. Logged(r, J)
  BY <1>0, <1>1, <1>2 DEF Rec, Logged, Active
<1>7. Saved(r, J)
  BY <1>0, <1>1, <1>2 DEF Rec, Saved, Terminal
<1>8. Once(r, V)
  <2>1. i \notin d.items[d.execution] /\ \A g \in Turn : i \notin d.items[g]
    BY <1>0 DEF Rec, Once
  <2>2. \A n \in 1..Len(d.queued) : d.queued[n] # i
    BY DEF Rec, Once
  <2>3. \A n \in 1..Len(d.commands) : IsSteer(d.commands[n]) => d.commands[n] # Steer(d.execution, i)
    BY <1>3, <2>1 DEF Rec, Once
  <2>4. /\ \A g, h \in Turn : \A j \in r.items[g] : j \in r.items[h] => g = h
        /\ \A g \in Turn : r.items[g] \subseteq V
    <3>1. \A g \in Turn : \A j \in r.items[g] : j \in d.items[g] \/ (j = i /\ g = d.execution)
      <4>1. CASE d.execution \in Turn
        <5> TAKE g \in Turn
        <5> TAKE j \in r.items[g]
        <5> QED BY <1>1
      <4> QED BY <1>0, <4>1
    <3>2. \A g \in Turn : d.items[g] \subseteq U
      BY DEF Rec, Once
    <3>3. \A g, h \in Turn : \A j \in d.items[g] : j \in d.items[h] => g = h
      BY DEF Rec, Once
    <3> QED BY <1>0, <2>1, <3>1, <3>2, <3>3
  <2>5. \A n \in 1..Len(r.commands) : n \in 1..Len(d.commands) \/ n = Len(d.commands) + 1
    BY <1>3
  <2>6. \A n \in 1..Len(r.commands) : IsSteer(r.commands[n]) => r.commands[n].arg \in r.items[r.execution]
    BY <1>0, <1>1, <1>3, <2>5 DEF Rec, Once
  <2>7. \A m, n \in 1..Len(r.commands) :
          IsSteer(r.commands[n]) /\ r.commands[m] = r.commands[n] => m = n
    BY <1>3, <2>3, <2>5 DEF Rec, Once
  <2>8. \A n \in 1..Len(r.queued) :
          r.queued[n] \in V /\ \A g \in Turn : r.queued[n] \notin r.items[g]
    BY <1>1, <2>2 DEF Rec, Once
  <2> QED BY <1>1, <2>4, <2>6, <2>7, <2>8 DEF Rec, Once
<1>9. Taken(r, J)
  <2>1. /\ r.execution = d.execution /\ r.phase = d.phase /\ r.input = d.input
        /\ r.items[d.execution] = d.items[d.execution] \cup {i}
    BY <1>1
  <2> QED BY <1>0, <1>3, <2>1 DEF Rec, Taken, Active
<1>10. r.accepted = d.accepted
  BY <1>1
<1> QED BY <1>2, <1>4, <1>5, <1>6, <1>7, <1>8, <1>9, <1>10 DEF Rec, Tells, r

\* A steer in a queue is its turn and its message.
LEMMA SteerIs ==
  ASSUME NEW c \in Command, IsSteer(c)
  PROVE  c = Steer(c.turn, c.arg) /\ c.turn \in Turn /\ c.arg \in Input
BY DEF Command, Steer, ToolResult, IsSteer

\* A steer the runtime refused leaves the transcript for the queue of the next turn.
LEMMA RefusedSteerKeeps ==
  ASSUME NEW J \in [Turn -> JobType], NEW U, NEW d, Rec(d, U, J), Active(d),
         NEW c \in Elements(d.commands), IsSteer(c)
  PROVE  Tells(d, reject(d, c), U, J)
<1> DEFINE r == reject(d, c)
<1>0. /\ d \in StoreType /\ Good(d) /\ d.execution \in Turn /\ d.generation \in 0..MaxTurn
      /\ d.execution = d.generation /\ d.life = "live" /\ d.phase \in ActivePhase
      /\ d.turns[d.execution] \notin Terminal /\ d.checkpoint \in Turn \cup {0}
      /\ d.commands \in Seq(Command) /\ d.queued \in Seq(Input)
  BY ActiveFacts DEF Rec
<1>a. c \in Command /\ c.turn = d.execution /\ c = Steer(d.execution, c.arg) /\ c.arg \in Input
      /\ c.type = "steer"
  <2>1. c \in Command
    BY <1>0 DEF Elements
  <2>2. c.turn = d.execution
    BY DEF Rec, Good, Current
  <2> QED BY <2>1, <2>2, SteerIs DEF IsSteer
<1>1. /\ r.commands = Without(d.commands, c) /\ r.queued = Append(d.queued, c.arg)
      /\ r.life = d.life /\ r.phase = d.phase /\ r.generation = d.generation
      /\ r.execution = d.execution /\ r.input = d.input /\ r.cursor = d.cursor
      /\ r.checkpoint = d.checkpoint /\ r.status = d.status /\ r.error = d.error
      /\ r.actions = d.actions /\ r.turns = d.turns /\ r.shown = d.shown
      /\ r.cancellation = d.cancellation /\ r.accepted = d.accepted
      /\ r.items[d.execution] = d.items[d.execution] \ {c.arg}
      /\ \A h \in Turn : h # d.execution => r.items[h] = d.items[h]
  <2>1. /\ r.commands = Without(d.commands, c) /\ r.queued = Append(d.queued, c.arg)
        /\ r.life = d.life /\ r.phase = d.phase /\ r.generation = d.generation
        /\ r.execution = d.execution /\ r.input = d.input /\ r.cursor = d.cursor
        /\ r.checkpoint = d.checkpoint /\ r.status = d.status /\ r.error = d.error
        /\ r.actions = d.actions /\ r.turns = d.turns /\ r.shown = d.shown
        /\ r.cancellation = d.cancellation /\ r.accepted = d.accepted
        /\ r.items[c.turn] = d.items[c.turn] \ {c.arg}
        /\ \A h \in Turn : h # c.turn => r.items[h] = d.items[h]
    <3>1. c.type = "steer" /\ c.turn \in Turn /\ d \in StoreType
      BY <1>0, <1>a
    <3> QED BY <3>1, RefusedSteerEffect
  <2>2. c.turn = d.execution
    BY <1>a
  <2> HIDE DEF r
  <2> QED BY <2>1, <2>2
<1>2. Good(r)
  BY <1>0, <1>a, RejectStays, StaysGood
<1> HIDE DEF r
<1>3. /\ \A y \in Elements(d.commands) : y # c => y \in Elements(r.commands)
      /\ \A n \in 1..Len(r.commands) : r.commands[n] \in Elements(d.commands)
      /\ \A m, n \in 1..Len(r.commands) :
           r.commands[m] = r.commands[n] =>
             m = n \/ \E p, q \in 1..Len(d.commands) :
                       p # q /\ d.commands[p] = d.commands[q] /\ d.commands[q] = r.commands[n]
  <2>0. d.commands \in Seq(Command) /\ c \in Elements(d.commands)
    BY <1>0
  <2> DEFINE w == Without(d.commands, c)
  <2>1. /\ \A y \in Elements(d.commands) : y # c => y \in Elements(w)
        /\ \A n \in 1..Len(w) : w[n] \in Elements(d.commands)
        /\ \A m, n \in 1..Len(w) :
             w[m] = w[n] =>
               m = n \/ \E p, q \in 1..Len(d.commands) :
                         p # q /\ d.commands[p] = d.commands[q] /\ d.commands[q] = w[n]
    BY ONLY <2>0, WithoutOthers
  <2>2. r.commands = w
    BY <1>1
  <2> HIDE DEF w
  <2> QED BY <2>1, <2>2
<1>b. \A n \in 1..Len(r.commands) : r.commands[n] # c
  <2>1. c \in Elements(r.commands) =>
          \E p, q \in 1..Len(d.commands) : p # q /\ d.commands[p] = d.commands[q] /\ d.commands[q] = c
    <3>0. d.commands \in Seq(Command) /\ c \in Elements(d.commands)
      BY <1>0
    <3> DEFINE w == Without(d.commands, c)
    <3>1. c \in Elements(w) =>
            \E p, q \in 1..Len(d.commands) : p # q /\ d.commands[p] = d.commands[q] /\ d.commands[q] = c
      BY ONLY <3>0, WithoutOthers
    <3>2. r.commands = w
      BY <1>1
    <3> HIDE DEF w
    <3> QED BY <3>1, <3>2
  <2>2. c \notin Elements(r.commands)
    BY <2>1 DEF Rec, Once
  <2> QED BY <2>2 DEF Elements
<1>c. c.arg \in d.items[d.execution]
  <2>1. PICK k \in 1..Len(d.commands) : d.commands[k] = c
    BY DEF Elements
  <2> QED BY <2>1 DEF Rec, Once
<1>d. \A n \in 1..Len(r.commands) : IsSteer(r.commands[n]) => r.commands[n].arg # c.arg
  <2> SUFFICES ASSUME NEW n \in 1..Len(r.commands), IsSteer(r.commands[n]),
                      r.commands[n].arg = c.arg
               PROVE  FALSE
    OBVIOUS
  <2> DEFINE y == r.commands[n]
  <2>1. y \in Elements(d.commands) /\ y # c
    BY <1>3, <1>b
  <2>2. y \in Command /\ y.turn = d.execution
    BY <1>0, <2>1 DEF Elements, Rec, Good, Current
  <2>3. y = Steer(y.turn, y.arg)
    BY <2>2, SteerIs
  <2> QED BY <1>a, <2>1, <2>2, <2>3
<1>4. Truth(r)
  BY <1>0, <1>1, <1>2 DEF Rec, Truth
<1>5. Blank(r, J)
  BY <1>0, <1>1, <1>2 DEF Rec, Blank, Turn
<1>6. Logged(r, J)
  BY <1>0, <1>1, <1>2 DEF Rec, Logged, Active
<1>7. Saved(r, J)
  BY <1>0, <1>1, <1>2 DEF Rec, Saved, Terminal
<1>8. Once(r, U)
  <2>1. /\ Len(d.queued) \in Nat /\ Len(r.queued) = Len(d.queued) + 1
        /\ r.queued[Len(d.queued) + 1] = c.arg
        /\ \A n \in 1..Len(d.queued) : r.queued[n] = d.queued[n]
    BY <1>0, <1>1, <1>a, AppendProperties, LenProperties
  <2>2. \A n \in 1..Len(r.queued) : n \in 1..Len(d.queued) \/ n = Len(d.queued) + 1
    BY <2>1
  <2>3. \A g \in Turn : \A j \in r.items[g] : j \in d.items[g] /\ j # c.arg
    <3>1. \A g \in Turn : g # d.execution => c.arg \notin d.items[g]
      BY <1>0, <1>c DEF Rec, Once
    <3> TAKE g \in Turn
    <3> QED BY <1>0, <1>1, <3>1
  <2>4. \A n \in 1..Len(d.queued) : d.queued[n] # c.arg
    BY <1>0, <1>c DEF Rec, Once
  <2>5. /\ \A g, h \in Turn : \A j \in r.items[g] : j \in r.items[h] => g = h
        /\ \A g \in Turn : r.items[g] \subseteq U
    BY <2>3 DEF Rec, Once
  <2>6. \A n \in 1..Len(r.queued) :
          r.queued[n] \in U /\ \A g \in Turn : r.queued[n] \notin r.items[g]
    <3>1. c.arg \in U
      BY <1>0, <1>c DEF Rec, Once
    <3>2. \A n \in 1..Len(d.queued) :
            d.queued[n] \in U /\ \A g \in Turn : d.queued[n] \notin d.items[g]
      BY DEF Rec, Once
    <3> QED BY <2>1, <2>2, <2>3, <3>1, <3>2
  <2>7. \A m, n \in 1..Len(r.queued) : r.queued[m] = r.queued[n] => m = n
    <3>1. \A m, n \in 1..Len(d.queued) : d.queued[m] = d.queued[n] => m = n
      BY DEF Rec, Once
    <3> QED BY <2>1, <2>2, <2>4, <3>1
  <2>8. \A n \in 1..Len(r.commands) :
          IsSteer(r.commands[n]) => r.commands[n].arg \in r.items[r.execution]
    <3>1. \A n \in 1..Len(r.commands) :
            IsSteer(r.commands[n]) => r.commands[n].arg \in d.items[d.execution]
      <4>1. \A y \in Elements(d.commands) : IsSteer(y) => y.arg \in d.items[d.execution]
        BY DEF Rec, Once, Elements
      <4> QED BY <1>3, <4>1
    <3> QED BY <1>1, <1>d, <3>1
  <2>9. \A m, n \in 1..Len(r.commands) :
          IsSteer(r.commands[n]) /\ r.commands[m] = r.commands[n] => m = n
    BY <1>3 DEF Rec, Once
  <2> QED BY <2>5, <2>6, <2>7, <2>8, <2>9 DEF Once
<1>9. Taken(r, J)
  <2>1. ASSUME NEW i, Steer(d.execution, i) \in Elements(d.commands), i # c.arg
        PROVE  Steer(d.execution, i) \in Elements(r.commands)
    <3>1. Steer(d.execution, i).arg = i
      BY DEF Steer
    <3> QED BY <1>3, <2>1, <3>1
  <2>2. d.commands # <<>>
    BY DEF Elements
  <2>3. \A i \in r.items[r.execution] : i \in d.items[d.execution] /\ i # c.arg
    BY <1>1
  <2>4. r.execution = d.execution /\ r.phase = d.phase /\ r.input = d.input /\ r.cancellation = d.cancellation
    BY <1>1
  <2> QED BY <2>1, <2>2, <2>3, <2>4 DEF Rec, Taken
<1>10. r.accepted = d.accepted
  BY <1>1
<1> QED BY <1>2, <1>4, <1>5, <1>6, <1>7, <1>8, <1>9, <1>10 DEF Rec, Tells, r

\* Events that follow on the runtime's log keep it.
LEMMA EventsKeeps ==
  ASSUME NEW J \in [Turn -> JobType], NEW U, NEW d, Rec(d, U, J), Active(d),
         NEW e \in Seq(Event), d.phase # "starting",
         Prefix(d.shown[d.execution] \o e, J[d.execution].log)
  PROVE  Tells(d, acceptRuntimeEvents(d, e), U, J)
<1> DEFINE r == acceptRuntimeEvents(d, e)
<1>0. /\ d \in StoreType /\ Good(d) /\ d.execution \in Turn /\ d.generation \in 0..MaxTurn
      /\ d.execution = d.generation /\ d.life = "live" /\ d.phase \in ActivePhase
      /\ d.turns[d.execution] \notin Terminal /\ d.checkpoint \in Turn \cup {0}
      /\ d.commands \in Seq(Command) /\ d.queued \in Seq(Input)
  BY ActiveFacts DEF Rec
<1>1. /\ r.cursor = d.cursor + Len(e) /\ r.life = d.life /\ r.phase = d.phase
      /\ r.generation = d.generation /\ r.execution = d.execution /\ r.input = d.input
      /\ r.checkpoint = d.checkpoint /\ r.error = d.error /\ r.items = d.items
      /\ r.commands = d.commands /\ r.cancellation = d.cancellation /\ r.queued = d.queued
      /\ r.accepted = d.accepted
      /\ r.shown[d.execution] = d.shown[d.execution] \o e
      /\ \A h \in Turn : h # d.execution => r.shown[h] = d.shown[h]
  BY <1>0, EventsEffect
<1>a. /\ Elements(e) \cap Call = {} =>
           r.actions = d.actions /\ r.status = d.status /\ r.turns = d.turns
      /\ Elements(e) \cap Call # {} =>
           /\ r.status = "requires_action" /\ r.actions # {}
           /\ \A h \in Turn : r.turns[h] = IF h = d.execution THEN "waiting" ELSE d.turns[h]
  BY <1>0, EventsPark
<1>2. Good(r)
  BY <1>0, AcceptRuntimeEventsStays, StaysGood
<1> HIDE DEF r
<1>4. Truth(r)
  <2>1. CASE Elements(e) \cap Call = {}
    <3>1. r.status = d.status /\ r.turns = d.turns /\ r.actions = d.actions
      BY <1>a, <2>1
    <3> QED BY <1>1, <3>1 DEF Rec, Truth
  <2>2. CASE Elements(e) \cap Call # {}
    <3>2. r.actions # {}
      BY <1>a, <2>2
    <3>3. \A a \in r.actions : a.turn = d.execution
      BY <1>1, <1>2 DEF Good, Current
    <3>4. \A h \in Turn : h # d.execution => r.turns[h] # "waiting"
      BY <1>0, <1>1, <1>2 DEF Good, OpenTurn
    <3>5. r.status = "requires_action" /\ r.turns[d.execution] = "waiting"
      BY <1>0, <1>a, <2>2
    <3>6. \A g \in Turn : r.turns[g] = "waiting" <=> \E a \in r.actions : a.turn = g
      BY <1>0, <3>2, <3>3, <3>4, <3>5
    <3>7. r.phase = d.phase
      BY <1>1
    <3> QED BY <1>0, <3>2, <3>5, <3>6, <3>7 DEF Truth, ActivePhase
  <2> QED BY <2>1, <2>2
<1>5. Blank(r, J)
  <2>1. \A h \in Turn : h > d.generation => r.shown[h] = d.shown[h] /\ r.items[h] = d.items[h]
    BY <1>0, <1>1 DEF Turn
  <2>2. r.generation = d.generation /\ r.life = d.life
    BY <1>1
  <2> QED BY <2>1, <2>2 DEF Rec, Blank
<1>6. Logged(r, J)
  <2>1. d.cursor = Len(d.shown[d.execution]) /\ \A h \in Turn : Prefix(d.shown[h], J[h].log)
    BY DEF Rec, Logged
  <2>2. d.shown[d.execution] \in Seq(Event)
    BY <1>0 DEF StoreType
  <2>3. Len(d.shown[d.execution] \o e) = Len(d.shown[d.execution]) + Len(e)
    BY <2>2, ConcatProperties
  <2>4. \A h \in Turn : Prefix(r.shown[h], J[h].log)
    BY <1>1, <2>1
  <2> QED BY <1>1, <2>1, <2>3, <2>4 DEF Logged
<1>7. Saved(r, J)
  <2>1. \A h \in Turn : r.turns[h] = "completed" <=> d.turns[h] = "completed"
    BY <1>0, <1>a DEF Terminal
  <2>2. r.checkpoint = d.checkpoint /\ r.generation = d.generation /\ r.life = d.life
    BY <1>1
  <2> QED BY <1>0, <2>1, <2>2 DEF Rec, Saved
<1>8. Once(r, U)
  <2>1. r.execution = d.execution /\ r.items = d.items /\ r.queued = d.queued /\ r.commands = d.commands
    BY <1>1
  <2> QED BY <2>1 DEF Rec, Once
<1>9. Taken(r, J)
  BY <1>0, <1>1, <1>2 DEF Rec, Taken, Active
<1>10. r.accepted = d.accepted
  BY <1>1
<1> QED BY <1>2, <1>4, <1>5, <1>6, <1>7, <1>8, <1>9, <1>10 DEF Rec, Tells, r

\* A turn stops for its checkpoint once its queue is empty, or superseded by a cancellation.
LEMMA CheckpointingKeeps ==
  ASSUME NEW J \in [Turn -> JobType], NEW U, NEW d, Rec(d, U, J), Active(d), d.phase = "running",
         d.commands = <<>> \/ d.execution \in d.cancellation
  PROVE  Tells(d, [d EXCEPT !.phase = "checkpointing"], U, J)
<1> DEFINE r == [d EXCEPT !.phase = "checkpointing"]
<1>0. /\ d \in StoreType /\ Good(d) /\ d.execution \in Turn /\ d.generation \in 0..MaxTurn
      /\ d.execution = d.generation /\ d.life = "live" /\ d.phase \in ActivePhase
      /\ d.turns[d.execution] \notin Terminal /\ d.checkpoint \in Turn \cup {0}
      /\ d.commands \in Seq(Command) /\ d.queued \in Seq(Input)
  BY ActiveFacts DEF Rec
<1>1. /\ r.phase = "checkpointing" /\ r.life = d.life /\ r.generation = d.generation
      /\ r.execution = d.execution /\ r.input = d.input /\ r.cursor = d.cursor
      /\ r.checkpoint = d.checkpoint /\ r.status = d.status /\ r.error = d.error
      /\ r.actions = d.actions /\ r.turns = d.turns /\ r.items = d.items /\ r.shown = d.shown
      /\ r.commands = d.commands /\ r.cancellation = d.cancellation /\ r.queued = d.queued
      /\ r.accepted = d.accepted
  BY <1>0, CheckpointingEffect
<1>2. Good(r)
  <2>1. r \in StoreType
    BY <1>0 DEF StoreType, Phase, ActivePhase
  <2> QED BY <1>0, <1>1, <2>1 DEF Good, OpenTurn, Current, Active, ActivePhase
<1> HIDE DEF r
<1>4. Truth(r)
  BY <1>0, <1>1 DEF Rec, Truth, ActivePhase
<1>5. Blank(r, J)
  BY <1>0, <1>1, <1>2 DEF Rec, Blank, Turn
<1>6. Logged(r, J)
  BY <1>0, <1>1, <1>2 DEF Rec, Logged, Active
<1>7. Saved(r, J)
  BY <1>0, <1>1, <1>2 DEF Rec, Saved, Terminal
<1>8. Once(r, U)
  BY <1>0, <1>1, <1>2 DEF Rec, Once
<1>9. Taken(r, J)
  BY <1>0, <1>1, <1>2 DEF Rec, Taken, Active
<1>10. r.accepted = d.accepted
  BY <1>1
<1> QED BY <1>2, <1>4, <1>5, <1>6, <1>7, <1>8, <1>9, <1>10 DEF Rec, Tells, r

\* An answer to a required action keeps it.
LEMMA ToolResultKeeps ==
  ASSUME NEW J \in [Turn -> JobType], NEW U, NEW d, Rec(d, U, J),
         Active(d), d.phase # "checkpointing", NEW g \in Turn, NEW c \in Call,
         [turn |-> g, call |-> c] \in d.actions
  PROVE  Tells(d, acceptToolResult(d, g, c), U, J)
<1> DEFINE r == acceptToolResult(d, g, c)
<1>0. /\ d \in StoreType /\ Good(d) /\ d.execution \in Turn /\ d.generation \in 0..MaxTurn
      /\ d.execution = d.generation /\ d.life = "live" /\ d.phase \in ActivePhase
      /\ d.turns[d.execution] \notin Terminal /\ d.checkpoint \in Turn \cup {0}
      /\ d.commands \in Seq(Command) /\ d.queued \in Seq(Input)
  BY ActiveFacts DEF Rec
<1>1. /\ r.commands = Append(d.commands, ToolResult(d.execution, c)) /\ r.life = d.life
      /\ r.phase = d.phase /\ r.generation = d.generation /\ r.execution = d.execution
      /\ r.input = d.input /\ r.cursor = d.cursor /\ r.checkpoint = d.checkpoint
      /\ r.error = d.error /\ r.items = d.items /\ r.shown = d.shown
      /\ r.cancellation = d.cancellation /\ r.queued = d.queued /\ r.accepted = d.accepted
  BY <1>0, ToolResultEffect
<1> DEFINE rest == d.actions \ {[turn |-> g, call |-> c]}
<1>a. /\ r.actions = rest
      /\ r.status = IF rest = {} THEN "in_progress" ELSE "requires_action"
      /\ \A h \in Turn : r.turns[h] = IF rest = {} /\ h = g THEN "in_progress" ELSE d.turns[h]
  BY <1>0, ToolResultEffect
<1>b. rest \subseteq d.actions /\ g = d.execution
  BY DEF Rec, Good, Current
<1> HIDE DEF rest
<1>2. Good(r)
  BY <1>0, AcceptToolResultStays, StaysGood
<1> HIDE DEF r
<1>4. Truth(r)
  <2>1. d.phase # "starting" /\ d.turns[g] = "waiting" /\ \A a \in d.actions : a.turn = g
    BY <1>b DEF Rec, Truth, Good, Current
  <2>2. \A h \in Turn : h # g => r.turns[h] # "waiting"
    BY <1>a, <1>b, <2>1 DEF Rec, Truth
  <2>3. \A h \in Turn : r.turns[h] = "waiting" <=> \E a \in r.actions : a.turn = h
    <3>1. CASE rest = {}
      BY <1>a, <2>2, <3>1
    <3>2. CASE rest # {}
      BY <1>a, <1>b, <2>1, <2>2, <3>2
    <3> QED BY <3>1, <3>2
  <2> QED BY <1>0, <1>1, <1>a, <2>1, <2>3 DEF Truth, ActivePhase
<1>5. Blank(r, J)
  BY <1>0, <1>1, <1>2 DEF Rec, Blank, Turn
<1>6. Logged(r, J)
  BY <1>0, <1>1, <1>2 DEF Rec, Logged, Active
<1>7. Saved(r, J)
  <2>1. \A h \in Turn : r.turns[h] = "completed" <=> d.turns[h] = "completed"
    BY <1>0, <1>a, <1>b DEF Terminal
  <2>2. r.checkpoint = d.checkpoint /\ r.generation = d.generation /\ r.life = d.life
    BY <1>1
  <2> QED BY <1>0, <2>1, <2>2 DEF Rec, Saved
<1>8. Once(r, U)
  <2>0. ~IsSteer(ToolResult(d.execution, c)) /\ ToolResult(d.execution, c) \in Command
    BY <1>0 DEF IsSteer, ToolResult, Command
  <2>1. /\ Len(d.commands) \in Nat /\ Len(r.commands) = Len(d.commands) + 1
        /\ r.commands[Len(d.commands) + 1] = ToolResult(d.execution, c)
        /\ \A n \in 1..Len(d.commands) : r.commands[n] = d.commands[n]
    BY <1>0, <1>1, <2>0, AppendProperties, LenProperties
  <2>2. \A n \in 1..Len(r.commands) : n \in 1..Len(d.commands) \/ n = Len(d.commands) + 1
    BY <2>1
  <2>3. \A n \in 1..Len(r.commands) : IsSteer(r.commands[n]) =>
          n \in 1..Len(d.commands) /\ r.commands[n] = d.commands[n]
    BY <2>0, <2>1, <2>2
  <2>4. r.execution = d.execution /\ r.items = d.items /\ r.queued = d.queued
    BY <1>1
  <2> QED BY <2>3, <2>4 DEF Rec, Once
<1>9. Taken(r, J)
  <2>1. ToolResult(d.execution, c) \in Command
    BY <1>0 DEF ToolResult, Command
  <2>2. Elements(d.commands) \subseteq Elements(r.commands)
    BY <1>0, <1>1, <2>1, ElementsAppend
  <2> QED BY <1>0, <1>1, <2>2 DEF Rec, Taken, Active
<1>10. r.accepted = d.accepted
  BY <1>1
<1> QED BY <1>2, <1>4, <1>5, <1>6, <1>7, <1>8, <1>9, <1>10 DEF Rec, Tells, r

\* A turn sealed as failed or cancelled keeps it.
LEMMA SealKeeps ==
  ASSUME NEW J \in [Turn -> JobType], NEW U, NEW d, Rec(d, U, J), Active(d),
         NEW status \in Terminal, NEW error \in Error, status # "completed"
  PROVE  Tells(d, sealTurn(d, status, error), U, J)
<1> DEFINE r == sealTurn(d, status, error)
<1>0. /\ d \in StoreType /\ Good(d) /\ d.execution \in Turn /\ d.generation \in 0..MaxTurn
      /\ d.execution = d.generation /\ d.life = "live" /\ d.phase \in ActivePhase
      /\ d.turns[d.execution] \notin Terminal /\ d.checkpoint \in Turn \cup {0}
      /\ d.commands \in Seq(Command) /\ d.queued \in Seq(Input)
  BY ActiveFacts DEF Rec
<1>1. /\ r.execution = 0 /\ r.actions = {} /\ r.queued = <<>> /\ r.commands = <<>>
      /\ r.life = d.life /\ r.generation = d.generation /\ r.cursor = d.cursor
      /\ r.checkpoint = d.checkpoint /\ r.items = d.items /\ r.shown = d.shown
      /\ r.accepted = d.accepted
      /\ r.phase \in {"idle", "failed"} /\ r.status = r.phase
      /\ \A h \in Turn : r.turns[h] = IF h = d.execution THEN status ELSE d.turns[h]
  BY <1>0, SealEffect
<1>2. Good(r)
  BY <1>0, SealedFields DEF Moves
<1> HIDE DEF r
<1>4. Truth(r)
  <2>1. \A h \in Turn : r.turns[h] # "waiting"
    BY <1>2, <1>1 DEF Good, OpenTurn, Turn
  <2> QED BY <1>1, <2>1 DEF Truth
<1>5. Blank(r, J)
  BY <1>0, <1>1, <1>2 DEF Rec, Blank, Turn
<1>6. Logged(r, J)
  BY <1>0, <1>1, <1>2 DEF Rec, Logged, Active
<1>7. Saved(r, J)
  <2>1. \A h \in Turn : r.turns[h] = "completed" <=> d.turns[h] = "completed"
    BY <1>0, <1>1 DEF Terminal
  <2>2. r.checkpoint = d.checkpoint /\ r.generation = d.generation /\ r.life = d.life
    BY <1>1
  <2> QED BY <1>0, <2>1, <2>2 DEF Rec, Saved
<1>8. Once(r, U)
  <2>1. 1..Len(r.queued) = {} /\ 1..Len(r.commands) = {}
    BY <1>1
  <2> QED BY <1>1, <2>1 DEF Rec, Once
<1>9. Taken(r, J)
  BY <1>0, <1>1, <1>2 DEF Rec, Taken, Active
<1>10. r.accepted = d.accepted
  BY <1>1
<1> QED BY <1>2, <1>4, <1>5, <1>6, <1>7, <1>8, <1>9, <1>10 DEF Rec, Tells, r

\* The turn is sealed as completed with its checkpoint, which the harness has.
LEMMA CommitSealKeeps ==
  ASSUME NEW J \in [Turn -> JobType], NEW U, NEW d, Rec(d, U, J),
         Active(d), J[d.execution].saved, NEW p,
         p = [d EXCEPT !.checkpoint = d.execution]
  PROVE  Tells(d, sealTurn(p, "completed", "none"), U, J)
<1> DEFINE r == sealTurn(p, "completed", "none")
<1>0. /\ d \in StoreType /\ Good(d) /\ d.execution \in Turn /\ d.generation \in 0..MaxTurn
      /\ d.execution = d.generation /\ d.life = "live" /\ d.phase \in ActivePhase
      /\ d.turns[d.execution] \notin Terminal /\ d.checkpoint \in Turn \cup {0}
      /\ d.commands \in Seq(Command) /\ d.queued \in Seq(Input)
  BY ActiveFacts DEF Rec
<1>p. /\ p.checkpoint = d.execution
      /\ p.life = d.life /\ p.phase = d.phase /\ p.generation = d.generation
      /\ p.execution = d.execution /\ p.input = d.input /\ p.cursor = d.cursor
      /\ p.status = d.status /\ p.error = d.error /\ p.actions = d.actions /\ p.turns = d.turns
      /\ p.items = d.items /\ p.shown = d.shown /\ p.commands = d.commands
      /\ p.cancellation = d.cancellation /\ p.queued = d.queued /\ p.accepted = d.accepted
      /\ p \in StoreType
  <2>1. d.execution \in 0..MaxTurn
    BY <1>0 DEF StoreType
  <2>2. p \in StoreType
    BY <1>0, <2>1 DEF StoreType
  <2> QED BY <1>0, <2>2, StoreDomain
<1>1. /\ r.execution = 0 /\ r.checkpoint = d.execution /\ r.actions = {} /\ r.queued = <<>>
      /\ r.commands = <<>> /\ r.life = d.life /\ r.generation = d.generation
      /\ r.cursor = d.cursor /\ r.items = d.items /\ r.shown = d.shown
      /\ r.accepted = d.accepted
      /\ r.phase \in {"idle", "failed"} /\ r.status = r.phase
      /\ \A h \in Turn : r.turns[h] = IF h = d.execution THEN "completed" ELSE d.turns[h]
  <2>1. /\ r.execution = 0 /\ r.checkpoint = p.checkpoint /\ r.actions = {} /\ r.queued = <<>>
        /\ r.commands = <<>> /\ r.life = p.life /\ r.generation = p.generation
        /\ r.cursor = p.cursor /\ r.items = p.items /\ r.shown = p.shown
        /\ r.accepted = p.accepted
        /\ r.phase \in {"idle", "failed"} /\ r.status = r.phase
        /\ \A h \in Turn : r.turns[h] = IF h = p.execution THEN "completed" ELSE p.turns[h]
    <3>1. p \in StoreType /\ p.execution \in Turn
      BY <1>0, <1>p
    <3> QED BY ONLY <3>1, SealEffect
  <2> HIDE DEF r
  <2> QED BY <1>p, <2>1
<1>2. Good(r)
  <2>1. Good(p) /\ Active(p)
    BY <1>0, <1>p DEF Good, OpenTurn, Current, Active
  <2> QED BY <2>1, SealedFields DEF Moves, Terminal, Error
<1> HIDE DEF r
<1>4. Truth(r)
  <2>1. \A h \in Turn : r.turns[h] # "waiting"
    BY <1>2, <1>1 DEF Good, OpenTurn, Turn
  <2> QED BY <1>1, <2>1 DEF Truth
<1>5. Blank(r, J)
  BY <1>0, <1>1, <1>2 DEF Rec, Blank, Turn
<1>6. Logged(r, J)
  BY <1>0, <1>1, <1>2 DEF Rec, Logged, Active
<1>7. Saved(r, J)
  <2>1. \A h \in Turn : r.turns[h] = "completed" => h <= r.generation
    BY <1>2 DEF Good, OpenTurn
  <2>2. r.generation = d.execution /\ r.checkpoint = d.execution /\ r.life = d.life
    BY <1>0, <1>1
  <2>3. r.turns[d.execution] = "completed"
    BY <1>0, <1>1
  <2> QED BY <1>0, <2>1, <2>2, <2>3 DEF Saved, Turn
<1>8. Once(r, U)
  <2>1. 1..Len(r.queued) = {} /\ 1..Len(r.commands) = {}
    BY <1>1
  <2> QED BY <1>1, <2>1 DEF Rec, Once
<1>9. Taken(r, J)
  BY <1>0, <1>1, <1>2 DEF Rec, Taken, Active
<1>10. r.accepted = d.accepted
  BY <1>1
<1> QED BY <1>2, <1>4, <1>5, <1>6, <1>7, <1>8, <1>9, <1>10 DEF Rec, Tells, r

\* A turn begins with input that no turn shows.
LEMMA BeginKeeps ==
  ASSUME NEW J \in [Turn -> JobType], NEW U, NEW d, Rec(d, U, J),
         ~Active(d), d.life = "live", d.generation < MaxTurn,
         NEW i \in SUBSET Input, NEW V, U \subseteq V, i \subseteq V,
         \A g \in Turn : \A j \in d.items[g] : j \notin i
  PROVE  Tells(d, addInput(begin(d, i), i), V, J)
<1> DEFINE r == addInput(begin(d, i), i)
<1>0. d \in StoreType /\ Good(d)
  BY DEF Rec, Good
<1> DEFINE g == d.generation + 1
<1>g. g \in Turn /\ d.generation \in 0..MaxTurn
  BY <1>0, SessionAssumption DEF StoreType, Turn
<1>1. /\ r.execution = g /\ r.generation = g /\ r.input = i /\ r.cursor = 0
      /\ r.phase = "starting" /\ r.status = "in_progress" /\ r.life = d.life
      /\ r.checkpoint = d.checkpoint /\ r.error = d.error /\ r.actions = d.actions
      /\ r.shown = d.shown /\ r.commands = d.commands /\ r.cancellation = d.cancellation
      /\ r.queued = d.queued /\ r.accepted = d.accepted
      /\ r.items[g] = d.items[g] \cup i /\ \A h \in Turn : h # g => r.items[h] = d.items[h]
      /\ \A h \in Turn : r.turns[h] = IF h = g THEN "queued" ELSE d.turns[h]
  <2> DEFINE q == begin(d, i)
  <2>1. /\ q.execution = g /\ q.generation = g /\ q.input = i /\ q.cursor = 0
        /\ q.phase = "starting" /\ q.status = "in_progress" /\ q.life = d.life
        /\ q.checkpoint = d.checkpoint /\ q.error = d.error /\ q.actions = d.actions
        /\ q.items = d.items /\ q.shown = d.shown /\ q.commands = d.commands
        /\ q.cancellation = d.cancellation /\ q.queued = d.queued /\ q.accepted = d.accepted
    BY <1>0, BeginEffect
  <2>2. q \in StoreType /\ \A h \in Turn : q.turns[h] = IF h = g THEN "queued" ELSE d.turns[h]
    BY <1>0, BeginFields
  <2> HIDE DEF q
  <2>3. /\ r.life = q.life /\ r.phase = q.phase /\ r.generation = q.generation
        /\ r.execution = q.execution /\ r.input = q.input /\ r.cursor = q.cursor
        /\ r.checkpoint = q.checkpoint /\ r.status = q.status /\ r.error = q.error
        /\ r.actions = q.actions /\ r.turns = q.turns /\ r.shown = q.shown
        /\ r.commands = q.commands /\ r.cancellation = q.cancellation /\ r.queued = q.queued
        /\ r.accepted = q.accepted
        /\ r.items[q.execution] = q.items[q.execution] \cup i
        /\ \A h \in Turn : h # q.execution => r.items[h] = q.items[h]
    BY <1>g, <2>1, <2>2, AddInputEffect DEF q
  <2> HIDE DEF r
  <2> QED BY <2>1, <2>2, <2>3
<1>c. d.actions = {} /\ d.commands = <<>> /\ d.queued = <<>>
  BY Closed DEF Rec
<1>2. Good(r)
  BY BeginWithInput DEF Moves, Rec
<1> HIDE DEF r
<1>4. Truth(r)
  <2>1. \A h \in Turn : r.turns[h] # "waiting"
    BY <1>1, <1>c DEF Rec, Truth
  <2> QED BY <1>1, <1>c, <2>1 DEF Truth
<1>5. Blank(r, J)
  <2>1. ASSUME NEW h \in Turn, h > r.generation
        PROVE  h > d.generation /\ r.shown[h] = d.shown[h] /\ r.items[h] = d.items[h] /\ r.life = d.life
    BY <1>g, <1>1, <2>1 DEF Turn
  <2> QED BY <2>1 DEF Rec, Blank
<1>6. Logged(r, J)
  <2>1. d.shown[g] = <<>>
    BY <1>g DEF Rec, Blank, Turn
  <2> QED BY <1>1, <2>1 DEF Rec, Logged
<1>7. Saved(r, J)
  <2>1. d.checkpoint \in Nat /\ d.checkpoint <= d.generation /\ (d.checkpoint # 0 => d.checkpoint \in Turn)
    BY <1>0 DEF Rec, Saved, StoreType, Turn
  <2>2. /\ \A h \in Turn : r.turns[h] = "completed" => d.turns[h] = "completed"
        /\ \A h \in Turn : h # g => r.turns[h] = d.turns[h]
    BY <1>1
  <2>3. r.checkpoint = d.checkpoint /\ r.generation = g /\ r.life = d.life
    BY <1>1
  <2> QED BY <1>g, <2>1, <2>2, <2>3 DEF Rec, Saved
<1>8. Once(r, V)
  <2>1. 1..Len(r.queued) = {} /\ 1..Len(r.commands) = {}
    BY <1>1, <1>c
  <2>2. d.items[g] = {}
    BY <1>g DEF Rec, Blank, Turn
  <2>3. /\ \A h \in Turn : \A j \in r.items[h] : j \in d.items[h] \/ (j \in i /\ h = g)
        /\ \A h \in Turn : h # g => r.items[h] = d.items[h]
    <3>1. \A j \in r.items[g] : j \in i
      BY <1>1, <2>2
    <3> QED BY <1>1, <3>1
  <2>4. \A h, k \in Turn : \A j \in r.items[h] : j \in r.items[k] => h = k
    BY <2>2, <2>3 DEF Rec, Once
  <2>5. \A h \in Turn : r.items[h] \subseteq V
    BY <2>3 DEF Rec, Once
  <2> QED BY <2>1, <2>4, <2>5 DEF Once
<1>9. Taken(r, J)
  <2>1. d.items[g] = {} /\ J[g].state = "none"
    BY <1>g DEF Rec, Blank, Turn
  <2>2. r.items[r.execution] = i
    BY <1>1, <2>1
  <2> QED BY <1>1, <2>1, <2>2 DEF Taken
<1>10. r.accepted = d.accepted
  BY <1>1
<1> QED BY <1>2, <1>4, <1>5, <1>6, <1>7, <1>8, <1>9, <1>10 DEF Rec, Tells, r

\* A failed environment fails an idle session.
LEMMA FailedSetupKeeps ==
  ASSUME NEW J \in [Turn -> JobType], NEW U, NEW d, Rec(d, U, J), ~Active(d)
  PROVE  Tells(d, applyEnvironmentStatus(d, "failed"), U, J)
<1> DEFINE r == applyEnvironmentStatus(d, "failed")
<1>0. d \in StoreType /\ Good(d)
  BY DEF Rec, Good
<1>1. /\ r.phase = "failed" /\ r.status = "failed" /\ r.life = d.life
      /\ r.generation = d.generation /\ r.execution = d.execution /\ r.input = d.input
      /\ r.cursor = d.cursor /\ r.checkpoint = d.checkpoint /\ r.actions = d.actions
      /\ r.turns = d.turns /\ r.items = d.items /\ r.shown = d.shown /\ r.commands = d.commands
      /\ r.cancellation = d.cancellation /\ r.queued = d.queued /\ r.accepted = d.accepted
  BY <1>0, FailedSetupEffect
<1>2. Good(r)
  BY <1>0, EnvironmentGood DEF Rec, EnvStatus
<1> HIDE DEF r
<1>4. Truth(r)
  <2>1. d.actions = {} /\ r.actions = {} /\ r.turns = d.turns /\ r.phase = "failed" /\ r.status = "failed"
    BY <1>1, Closed DEF Rec
  <2> QED BY <2>1 DEF Rec, Truth
<1>5. Blank(r, J)
  BY <1>0, <1>1, <1>2 DEF Rec, Blank, Turn
<1>6. Logged(r, J)
  BY <1>0, <1>1, <1>2 DEF Rec, Logged, Active
<1>7. Saved(r, J)
  BY <1>0, <1>1, <1>2 DEF Rec, Saved, Terminal
<1>8. Once(r, U)
  BY <1>0, <1>1, <1>2 DEF Rec, Once
<1>9. Taken(r, J)
  BY <1>0, <1>1, <1>2 DEF Rec, Taken, Active
<1>10. r.accepted = d.accepted
  BY <1>1
<1> QED BY <1>2, <1>4, <1>5, <1>6, <1>7, <1>8, <1>9, <1>10 DEF Rec, Tells, r

\* Any other report changes nothing the client was told of its turns.
LEMMA EnvironmentKeeps ==
  ASSUME NEW J \in [Turn -> JobType], NEW U, NEW d, Rec(d, U, J),
         NEW s \in EnvStatus, s # "failed" \/ Active(d)
  PROVE  Tells(d, applyEnvironmentStatus(d, s), U, J)
<1> DEFINE r == applyEnvironmentStatus(d, s)
<1>0. d \in StoreType /\ Good(d)
  BY DEF Rec, Good
<1>1. /\ r.life = d.life /\ r.phase = d.phase /\ r.generation = d.generation
      /\ r.execution = d.execution /\ r.input = d.input /\ r.cursor = d.cursor
      /\ r.checkpoint = d.checkpoint /\ r.status = d.status /\ r.error = d.error
      /\ r.actions = d.actions /\ r.turns = d.turns /\ r.items = d.items /\ r.shown = d.shown
      /\ r.commands = d.commands /\ r.cancellation = d.cancellation /\ r.queued = d.queued
      /\ r.accepted = d.accepted
  BY <1>0, EnvironmentEffect
<1>2. Good(r)
  BY <1>0, EnvironmentGood DEF Rec
<1> HIDE DEF r
<1>4. Truth(r)
  BY <1>0, <1>1, <1>2 DEF Rec, Truth
<1>5. Blank(r, J)
  BY <1>0, <1>1, <1>2 DEF Rec, Blank, Turn
<1>6. Logged(r, J)
  BY <1>0, <1>1, <1>2 DEF Rec, Logged, Active
<1>7. Saved(r, J)
  BY <1>0, <1>1, <1>2 DEF Rec, Saved, Terminal
<1>8. Once(r, U)
  BY <1>0, <1>1, <1>2 DEF Rec, Once
<1>9. Taken(r, J)
  BY <1>0, <1>1, <1>2 DEF Rec, Taken, Active
<1>10. r.accepted = d.accepted
  BY <1>1
<1> QED BY <1>2, <1>4, <1>5, <1>6, <1>7, <1>8, <1>9, <1>10 DEF Rec, Tells, r

\* So does a deletion.
LEMMA DeletedKeeps ==
  ASSUME NEW J \in [Turn -> JobType], NEW U, NEW d, Rec(d, U, J), ~Active(d), d.life = "live"
  PROVE  Tells(d, markDeleted(d), U, J)
<1> DEFINE r == markDeleted(d)
<1>0. d \in StoreType /\ Good(d)
  BY DEF Rec, Good
<1>1. /\ r.life = "deleted" /\ r.phase = d.phase /\ r.generation = d.generation
      /\ r.execution = d.execution /\ r.input = d.input /\ r.cursor = d.cursor
      /\ r.checkpoint = d.checkpoint /\ r.status = d.status /\ r.error = d.error
      /\ r.actions = d.actions /\ r.turns = d.turns /\ r.items = d.items /\ r.shown = d.shown
      /\ r.commands = d.commands /\ r.cancellation = d.cancellation /\ r.queued = d.queued
      /\ r.accepted = d.accepted
  BY <1>0, DeletedEffect
<1>2. Good(r)
  BY <1>0, DeletedGood DEF Rec
<1> HIDE DEF r
<1>4. Truth(r)
  BY <1>0, <1>1, <1>2 DEF Rec, Truth
<1>5. Blank(r, J)
  BY <1>0, <1>1, <1>2 DEF Rec, Blank, Turn
<1>6. Logged(r, J)
  BY <1>0, <1>1, <1>2 DEF Rec, Logged, Active
<1>7. Saved(r, J)
  BY <1>0, <1>1, <1>2 DEF Rec, Saved, Terminal
<1>8. Once(r, U)
  BY <1>0, <1>1, <1>2 DEF Rec, Once
<1>9. Taken(r, J)
  BY <1>0, <1>1, <1>2 DEF Rec, Taken, Active
<1>10. r.accepted = d.accepted
  BY <1>1
<1> QED BY <1>2, <1>4, <1>5, <1>6, <1>7, <1>8, <1>9, <1>10 DEF Rec, Tells, r

\* An empty record tells nothing.
LEMMA EmptyKeeps ==
  ASSUME NEW J \in [Turn -> JobType], NEW U, NEW life \in {"live", "purged"},
         life = "live" => \A g \in Turn : J[g].state = "none"
  PROVE  Rec(EmptyStore(life), U, J)
<1> DEFINE r == EmptyStore(life)
<1>1. /\ r.life = life /\ r.phase = "idle" /\ r.generation = 0 /\ r.execution = 0
      /\ r.checkpoint = 0 /\ r.status = "idle" /\ r.actions = {}
      /\ r.commands = <<>> /\ r.queued = <<>>
      /\ r.turns = [g \in Turn |-> "none"] /\ r.items = [g \in Turn |-> {}]
      /\ r.shown = [g \in Turn |-> <<>>]
  BY DEF EmptyStore
<1>2. Good(r)
  <2>1. life = "live" => r = NewStore
    BY DEF NewStore
  <2>2. life = "purged" => r = purgeRecords
    BY DEF purgeRecords
  <2> QED BY <2>1, <2>2, EmptyGood
<1> HIDE DEF r
<1>3. \A g \in Turn : r.turns[g] = "none" /\ r.items[g] = {} /\ r.shown[g] = <<>>
  BY <1>1
<1>4. Truth(r)
  BY <1>1, <1>3 DEF Truth
<1>5. Blank(r, J)
  BY <1>1, <1>3 DEF Blank
<1>6. Logged(r, J)
  <2>1. \A g \in Turn : Len(J[g].log) \in Nat
    BY LenProperties DEF JobType
  <2> QED BY <1>1, <1>3, <2>1 DEF Logged, Prefix, Active
<1>7. Saved(r, J)
  BY <1>1, <1>3 DEF Saved
<1>8. Once(r, U)
  <2>1. 1..Len(r.queued) = {} /\ 1..Len(r.commands) = {}
    BY <1>1
  <2> QED BY <1>3, <2>1 DEF Once
<1>9. Taken(r, J)
  BY <1>1 DEF Taken, Active
<1> QED BY <1>2, <1>4, <1>5, <1>6, <1>7, <1>8, <1>9 DEF Rec, r

\* More requests may have been accepted.
LEMMA RecMore ==
  ASSUME NEW J, NEW U, NEW V, NEW d, Rec(d, U, J), U \subseteq V
  PROVE  Rec(d, V, J)
<1>1. Once(d, V)
  BY DEF Rec, Once
<1> QED BY <1>1 DEF Rec

\* After a turn is sealed, the input its runtime refused begins the next one.
LEMMA SealedThenBegins ==
  ASSUME NEW J \in [Turn -> JobType], NEW U, NEW d, Good(d), Active(d), Once(d, U),
         NEW status \in Terminal, NEW error \in Error,
         d.queued # <<>> => d.generation < MaxTurn,
         Rec(sealTurn(d, status, error), U, J)
  PROVE  Tells(d, complete(d, status, error), U, J)
<1> DEFINE sealed == sealTurn(d, status, error)
           input == Elements(FirstPage(d.queued))
           next == addInput(begin(sealed, input), input)
           runs == ~(d.queued = <<>> \/ status = "cancelled" \/ sealed.phase = "failed")
<1>1. complete(d, status, error) = IF runs THEN next ELSE sealed
  BY DEF complete
<1>2. runs => d.queued # <<>>
  OBVIOUS
<1> HIDE DEF runs
<1>3. d \in StoreType /\ d.execution \in Turn /\ d.queued \in Seq(Input) /\ d.life = "live"
  BY ActiveFacts
<1>4. /\ ~Active(sealed) /\ sealed.generation = d.generation /\ sealed.life = "live"
      /\ sealed.items = d.items /\ sealed.accepted = d.accepted /\ Rec(sealed, U, J)
  BY <1>3, SealedFields, SealEffect DEF Moves
<1> HIDE DEF sealed
<1>5. input \in SUBSET Input /\ input \subseteq Elements(d.queued)
  <2>1. FirstPage(d.queued) \in Seq(Input) /\ Elements(FirstPage(d.queued)) \subseteq Elements(d.queued)
    <3>1. d.queued \in Seq(Input)
      BY <1>3
    <3> QED BY ONLY <3>1, FirstPageElements
  <2> HIDE DEF input
  <2>2. input = Elements(FirstPage(d.queued)) /\ Elements(d.queued) \subseteq Input
    BY <1>3 DEF input, Elements
  <2> QED BY <2>1, <2>2
<1> HIDE DEF input
<1>6. /\ input \subseteq U
      /\ \A g \in Turn : \A j \in sealed.items[g] : j \notin input
  BY <1>4, <1>5 DEF Once, Elements
<1>7. CASE runs
  <2>1. Tells(sealed, next, U, J)
    BY <1>2, <1>4, <1>5, <1>6, <1>7, BeginKeeps
  <2> HIDE DEF next
  <2> QED BY <1>1, <1>4, <1>7, <2>1 DEF Tells
<1>8. CASE ~runs
  BY <1>1, <1>4, <1>8 DEF Tells
<1> QED BY <1>7, <1>8

\* A turn that ends without its checkpoint.
LEMMA CompleteKeeps ==
  ASSUME NEW J \in [Turn -> JobType], NEW U, NEW d, Rec(d, U, J), Active(d),
         NEW status \in Terminal, NEW error \in Error, status # "completed",
         d.queued # <<>> => d.generation < MaxTurn
  PROVE  Tells(d, complete(d, status, error), U, J)
<1>1. Good(d) /\ Once(d, U)
  BY DEF Rec
<1>2. Rec(sealTurn(d, status, error), U, J)
  BY SealKeeps DEF Tells
<1> QED BY <1>1, <1>2, SealedThenBegins

\* A turn that ends with it.
LEMMA CommitKeeps ==
  ASSUME NEW J \in [Turn -> JobType], NEW U, NEW d, Rec(d, U, J), Active(d),
         J[d.execution].saved,
         d.queued # <<>> => d.generation < MaxTurn
  PROVE  Tells(d, commitCheckpoint(d), U, J)
<1> DEFINE p == [d EXCEPT !.checkpoint = d.execution]
<1>1. /\ p.life = d.life /\ p.phase = d.phase /\ p.generation = d.generation
      /\ p.execution = d.execution /\ p.actions = d.actions /\ p.turns = d.turns
      /\ p.items = d.items /\ p.commands = d.commands /\ p.cancellation = d.cancellation
      /\ p.queued = d.queued /\ p.accepted = d.accepted /\ p \in StoreType
  <2>1. d \in StoreType /\ d.execution \in 0..MaxTurn
    BY DEF Rec, Good, StoreType
  <2>2. p \in StoreType
    BY <2>1 DEF StoreType
  <2> QED BY <2>1, <2>2, StoreDomain
<1>2. Rec(sealTurn(p, "completed", "none"), U, J)
  BY CommitSealKeeps DEF Tells
<1>3. commitCheckpoint(d) = complete(p, "completed", "none")
  BY DEF commitCheckpoint
<1> HIDE DEF p
<1>4. Good(p) /\ Active(p) /\ Once(p, U)
  BY <1>1 DEF Rec, Good, OpenTurn, Current, Active, Once
<1>5. Tells(p, complete(p, "completed", "none"), U, J)
  BY <1>1, <1>2, <1>4, SealedThenBegins DEF Terminal, Error
<1> QED BY <1>1, <1>3, <1>5 DEF Tells

\* What a poll returned is a page of the job's log.
PageOf(b, l) ==
  b.events # <<>> =>
    /\ b.from + Len(b.events) <= Len(l)
    /\ \A n \in 1..Len(b.events) : b.events[n] = l[b.from + n]

\* Counting: k events are shown, and the page holds e events from the position f on.
LEMMA PageSpan ==
  ASSUME NEW k \in Int, NEW f \in Int, NEW e \in Int, NEW m \in Int, m = k - f + 1, m >= 1,
         NEW w \in Int, w = e - m + 1
  PROVE  /\ k + w = f + e
         /\ \A n \in Int : n > k /\ n <= k + w =>
              /\ n - k \in 1..e - m + 1 /\ m + (n - k) - 1 = n - f
              /\ n - f \in 1..e /\ f + (n - f) = n
OBVIOUS

\* The events of a page that are new follow those shown.
LEMMA FreshContinues ==
  ASSUME NEW s \in Seq(Event), NEW l \in Seq(Event), NEW d \in StoreType, NEW b \in Batch,
         Prefix(s, l), PageOf(b, l), d.cursor = Len(s), ~Gap(d, b)
  PROVE  Prefix(s \o Fresh(d, b), l)
<1>1. /\ b.from \in Nat /\ b.events \in Seq(Event) /\ Len(s) \in Nat /\ Len(l) \in Nat
      /\ Len(b.events) \in Nat
  BY LenProperties DEF Batch
<1>2. CASE b.events = <<>>
  <2>1. Fresh(d, b) = <<>>
    BY <1>2 DEF Fresh
  <2> QED BY <2>1, ConcatEmptySeq
<1>3. CASE b.events # <<>>
  <2> DEFINE m == Len(s) - b.from + 1
             f == SubSeq(b.events, m, Len(b.events))
  <2>1. Fresh(d, b) = f
    BY <1>3 DEF Fresh
  <2>2. m \in Int /\ m >= 1 /\ m = Len(s) - b.from + 1
    BY <1>1, <1>3 DEF Gap
  <2> HIDE DEF m
  <2>3. CASE m > Len(b.events)
    <3>1. f = <<>>
      BY <1>1, <2>2, <2>3, SubSeqEmpty
    <3> QED BY <2>1, <3>1, ConcatEmptySeq
  <2>4. CASE ~(m > Len(b.events))
    <3>1. \A i \in m..Len(b.events) : b.events[i] \in Event
      BY <1>1, <2>2, ElementOfSeq
    <3>2. /\ f \in Seq(Event) /\ Len(f) = Len(b.events) - m + 1
          /\ \A i \in 1..Len(b.events) - m + 1 : f[i] = b.events[m + i - 1]
      <4>1. Len(b.events) \in Int /\ m \in Int /\ m <= Len(b.events)
        BY <1>1, <2>2, <2>4
      <4> QED BY ONLY <3>1, <4>1, SubSeqProperties
    <3> HIDE DEF f
    <3>3. /\ Len(s \o f) = Len(s) + Len(f)
          /\ \A n \in 1..Len(s) + Len(f) : (s \o f)[n] = IF n <= Len(s) THEN s[n] ELSE f[n - Len(s)]
      BY <3>2, ConcatProperties
    <3>4. /\ Len(s) + Len(f) = b.from + Len(b.events)
          /\ \A n \in Int : n > Len(s) /\ n <= Len(s) + Len(f) =>
               /\ n - Len(s) \in 1..Len(b.events) - m + 1 /\ m + (n - Len(s)) - 1 = n - b.from
               /\ n - b.from \in 1..Len(b.events) /\ b.from + (n - b.from) = n
      <4> DEFINE k == Len(s)
                 w == Len(f)
                 e == Len(b.events)
                 z == b.from
      <4>1. w = e - m + 1
        BY ONLY <3>2
      <4>2. k \in Int /\ z \in Int /\ e \in Int
        BY ONLY <1>1
      <4>3. m = k - z + 1
        BY ONLY <2>2
      <4> HIDE DEF k, w, e, z
      <4>4. w \in Int
        BY ONLY <2>2, <4>1, <4>2
      <4>5. /\ k + w = z + e
            /\ \A n \in Int : n > k /\ n <= k + w =>
                 /\ n - k \in 1..e - m + 1 /\ m + (n - k) - 1 = n - z
                 /\ n - z \in 1..e /\ z + (n - z) = n
        <5>1. m \in Int /\ m >= 1
          BY ONLY <2>2
        <5> QED BY ONLY <4>1, <4>2, <4>3, <4>4, <5>1, PageSpan
      <4> QED BY ONLY <4>5 DEF k, w, e, z
    <3>5. Len(s \o f) <= Len(l)
      BY <1>3, <3>3, <3>4 DEF PageOf
    <3>6. ASSUME NEW n \in 1..Len(s \o f)
          PROVE  (s \o f)[n] = l[n]
      <4>1. CASE n <= Len(s)
        BY <1>1, <3>3, <4>1 DEF Prefix
      <4>2. CASE ~(n <= Len(s))
        <5>1. n \in Int /\ n \in 1..Len(s) + Len(f) /\ n > Len(s) /\ n <= Len(s) + Len(f)
          BY <1>1, <3>2, <3>3, <4>2
        <5>2. (s \o f)[n] = f[n - Len(s)]
          BY <3>3, <4>2, <5>1
        <5>3. /\ n - Len(s) \in 1..Len(b.events) - m + 1 /\ m + (n - Len(s)) - 1 = n - b.from
              /\ n - b.from \in 1..Len(b.events) /\ b.from + (n - b.from) = n
          BY ONLY <3>4, <5>1
        <5>4. f[n - Len(s)] = b.events[n - b.from]
          BY <3>2, <5>3
        <5>5. b.events[n - b.from] = l[n]
          BY <1>3, <5>3 DEF PageOf
        <5> QED BY <5>2, <5>4, <5>5
      <4> QED BY <4>1, <4>2
    <3> QED BY <2>1, <3>5, <3>6 DEF Prefix
  <2> QED BY <2>3, <2>4
<1> QED BY <1>2, <1>3

\* A page without a gap keeps it, also when the turn then stops for its checkpoint.
LEMMA AcceptBatchKeeps ==
  ASSUME NEW J \in [Turn -> JobType], NEW U, NEW d, Rec(d, U, J), Active(d),
         d.phase = "running", NEW b \in Batch, ~Gap(d, b), PageOf(b, J[d.execution].log),
         NEW x, x => d.execution \in d.cancellation
  PROVE  Tells(d, acceptBatch(d, b, x), U, J)
<1> DEFINE e == Fresh(d, b)
           p == acceptRuntimeEvents(d, e)
           r == [p EXCEPT !.phase = "checkpointing"]
<1>0. d \in StoreType /\ d.execution \in Turn /\ d.commands \in Seq(Command)
  BY ActiveFacts DEF Rec
<1>1. e \in Seq(Event)
  BY <1>0, FreshEvents
<1>2. Prefix(d.shown[d.execution] \o e, J[d.execution].log)
  <2>1. d.shown[d.execution] \in Seq(Event) /\ J[d.execution].log \in Seq(Event)
    BY <1>0 DEF StoreType, JobType
  <2>2. Prefix(d.shown[d.execution], J[d.execution].log) /\ d.cursor = Len(d.shown[d.execution])
    BY <1>0 DEF Rec, Logged
  <2> QED BY <1>0, <2>1, <2>2, FreshContinues
<1>3. acceptBatch(d, b, x) = IF b.status = "completed" /\ ~Pending(d, x) THEN r ELSE p
  BY DEF acceptBatch
<1> HIDE DEF e
<1>4. Tells(d, p, U, J)
  BY <1>1, <1>2, EventsKeeps
<1>5. p.phase = "running" /\ p.commands = d.commands /\ p.cancellation = d.cancellation
      /\ p.execution = d.execution
  BY <1>0, EventsEffect
<1> HIDE DEF p
<1>6. ASSUME ~Pending(d, x) PROVE Tells(p, r, U, J)
  <2>1. p.commands = <<>> \/ p.execution \in p.cancellation
    BY <1>5, <1>6 DEF Pending
  <2>2. Active(p)
    BY <1>5 DEF Active
  <2> QED BY <1>4, <1>5, <2>1, <2>2, CheckpointingKeeps DEF Tells
<1> HIDE DEF r
<1> QED BY <1>3, <1>4, <1>6 DEF Tells

\* The message an event carries.
Carries(e) == IF e.type = "message" THEN {e.arg} ELSE {}

\* An event that does not throw keeps it.
LEMMA AcceptEventKeeps ==
  ASSUME NEW J \in [Turn -> JobType], NEW U, NEW d, Rec(d, U, J), d.life = "live",
         d.phase # "checkpointing", NEW e \in InputEvent, ~Throws(d, e),
         Active(d) \/ d.generation < MaxTurn,
         e.type = "message" => e.arg \notin U
  PROVE  /\ Tells(d, acceptEvent(d, e), U \cup Carries(e), J)
         /\ acceptEvent(d, e).phase # "checkpointing"
<1> DEFINE r == acceptEvent(d, e)
<1>0. d \in StoreType /\ Good(d)
  BY DEF Rec, Good
<1>1. CASE e.type = "message"
  <2>1. e.arg \in Input /\ Carries(e) = {e.arg} /\ r = acceptMessage(d, e.arg)
    BY <1>1 DEF InputEvent, Message, CancelInput, Answer, Carries, acceptEvent
  <2> DEFINE i == e.arg
             V == U \cup {i}
  <2>2. i \in Input /\ U \subseteq V /\ i \in V /\ i \notin U
    BY <1>1, <2>1
  <2>3. CASE Active(d)
    <3>1. r = enqueue(addInput(d, {i}), Steer(d.execution, i))
      BY <2>1, <2>3 DEF acceptMessage
    <3> HIDE DEF r, V, i
    <3>2. Tells(d, r, V, J)
      BY <2>2, <2>3, <3>1, SteerKeeps
    <3>3. r.phase = d.phase
      <4> DEFINE q == addInput(d, {i})
      <4>1. q.phase = d.phase /\ q \in StoreType
        <5>1. d.execution \in Turn
          BY <1>0, <2>3, ActiveFacts
        <5> QED BY <1>0, <2>2, <2>3, <5>1, AddInputEffect, AddInputStays DEF Stays
      <4> HIDE DEF q
      <4> QED BY <3>1, <4>1, EnqueueEffect DEF q
    <3> QED BY <2>1, <3>2, <3>3 DEF r, V, i
  <2>4. CASE ~Active(d)
    <3> DEFINE one == {i}
    <3>1. r = addInput(begin(d, one), one)
      BY <2>1, <2>4 DEF acceptMessage
    <3>2. /\ one \in SUBSET Input /\ one \subseteq V
          /\ \A g \in Turn : \A j \in d.items[g] : j \notin one
      BY <2>2 DEF Rec, Once
    <3> HIDE DEF r, one, V, i
    <3>3. Tells(d, r, V, J)
      BY <2>2, <2>4, <3>1, <3>2, BeginKeeps
    <3>4. r.phase = "starting"
      <4> DEFINE q == begin(d, one)
      <4>1. q.phase = "starting" /\ q \in StoreType /\ q.execution = d.generation + 1
        BY <1>0, <2>4, <3>2, BeginFields
      <4>2. q.execution \in Turn
        BY <1>0, <2>4, <4>1, SessionAssumption DEF StoreType, Turn
      <4> HIDE DEF q
      <4> QED BY <3>1, <4>1, <4>2, AddInputEffect DEF q
    <3> QED BY <2>1, <3>3, <3>4 DEF r, V, i
  <2> QED BY <2>3, <2>4
<1>2. CASE e.type = "cancel"
  <2>1. r = acceptCancel(d) /\ Carries(e) = {}
    BY <1>2 DEF acceptEvent, Carries
  <2>2. CASE Active(d)
    <3>1. Tells(d, acceptCancel(d), U, J) /\ acceptCancel(d).phase = d.phase
      BY <1>0, <2>2, CancelKeeps, CancelEffect
    <3> QED BY <2>1, <3>1
  <2>3. CASE ~Active(d)
    <3>1. acceptCancel(d) = d
      BY <2>3 DEF acceptCancel
    <3> QED BY <2>1, <3>1 DEF Tells
  <2> QED BY <2>2, <2>3
<1>3. CASE e.type \notin {"message", "cancel"}
  <2>1. e.type = "tool_result" /\ e.turn \in Turn /\ e.arg \in Call
    BY <1>3 DEF InputEvent, Message, CancelInput, Answer
  <2>2. Active(d) /\ [turn |-> e.turn, call |-> e.arg] \in d.actions
    BY <2>1 DEF Throws
  <2>3. r = acceptToolResult(d, e.turn, e.arg) /\ Carries(e) = {}
    BY <1>3 DEF acceptEvent, Carries
  <2>4. /\ Tells(d, acceptToolResult(d, e.turn, e.arg), U, J)
        /\ acceptToolResult(d, e.turn, e.arg).phase = d.phase
    BY <1>0, <2>1, <2>2, ToolResultKeeps, ToolResultEffect
  <2> QED BY <2>3, <2>4
<1> QED BY <1>1, <1>2, <1>3

\* The messages of the requests accepted so far.
Sent(a) == {i \in Input : \E r \in a : \E n \in DOMAIN r.events : r.events[n] = Message(i)}

\* A request with a new key brings new messages, each once.
LEMMA NewMessages ==
  ASSUME NEW a \in SUBSET Request, NEW r \in Request, \A p \in a : p.key # r.key,
         NEW m \in DOMAIN r.events, r.events[m].type = "message", r.events[m] \in InputEvent
  PROVE  /\ r.events[m].arg \in Input /\ r.events[m] = Message(r.events[m].arg)
         /\ r.events[m].arg \notin Sent(a) /\ r.events[m].arg \in Sent(a \cup {r})
         /\ \A n \in DOMAIN r.events : r.events[n] = r.events[m] => n = m
<1>1. r.events[m].arg \in Input /\ r.events[m] = Message(r.events[m].arg)
  BY DEF InputEvent, Message, CancelInput, Answer
<1>2. r.events[m].arg \notin Sent(a)
  <2> SUFFICES ASSUME r.events[m].arg \in Sent(a) PROVE FALSE
    OBVIOUS
  <2>0. PICK s \in a : \E n \in DOMAIN s.events : s.events[n] = Message(r.events[m].arg)
    BY DEF Sent
  <2>1. PICK n \in DOMAIN s.events : s.events[n] = Message(r.events[m].arg)
    BY <2>0
  <2>2. s \in Request /\ s.key # r.key /\ r.events[m] = s.events[n]
    BY <1>1, <2>1
  <2> QED BY <2>1, <2>2, MessagesDistinct
<1>3. r.events[m].arg \in Sent(a \cup {r})
  BY <1>1 DEF Sent
<1>4. \A n \in DOMAIN r.events : r.events[n] = r.events[m] => n = m
  BY MessagesDistinct
<1> QED BY <1>1, <1>2, <1>3, <1>4

\* What a running tick read of the record is still in it.
Grows(d, r) ==
  Active(d) => /\ r.execution = d.execution /\ r.phase = d.phase
               /\ d.cancellation \subseteq r.cancellation
               /\ Elements(d.commands) \subseteq Elements(r.commands)

\* An event takes nothing away that a running tick read.
LEMMA AcceptEventGrows ==
  ASSUME NEW d, Good(d), NEW e \in InputEvent, ~Throws(d, e)
  PROVE  Grows(d, acceptEvent(d, e))
<1> DEFINE r == acceptEvent(d, e)
<1> SUFFICES ASSUME Active(d)
             PROVE  /\ r.execution = d.execution /\ r.phase = d.phase
                    /\ d.cancellation \subseteq r.cancellation
                    /\ Elements(d.commands) \subseteq Elements(r.commands)
  BY DEF Grows
<1>0. d \in StoreType /\ d.execution \in Turn /\ d.commands \in Seq(Command)
  BY ActiveFacts
<1>1. CASE e.type = "message"
  <2>1. e.arg \in Input /\ r = acceptMessage(d, e.arg)
    BY <1>1 DEF InputEvent, Message, CancelInput, Answer, acceptEvent
  <2> DEFINE i == {e.arg}
             q == addInput(d, i)
             c == Steer(d.execution, e.arg)
  <2>2. r = enqueue(q, c)
    BY <2>1 DEF acceptMessage
  <2>3. q.execution = d.execution /\ q.phase = d.phase /\ q.cancellation = d.cancellation
        /\ q.commands = d.commands
    BY <1>0, AddInputEffect
  <2>4. q \in StoreType
    BY <2>1, AddInputStays DEF Stays
  <2>5. c \in Command
    BY <1>0, <2>1 DEF Command
  <2> HIDE DEF q, c, r
  <2>6. r.execution = q.execution /\ r.phase = q.phase /\ r.cancellation = q.cancellation
        /\ r.commands = Append(q.commands, c)
    BY <2>2, <2>4, EnqueueEffect
  <2>7. Elements(Append(d.commands, c)) = Elements(d.commands) \cup {c}
    BY <1>0, <2>5, ElementsAppend
  <2> QED BY <2>3, <2>6, <2>7
<1>2. CASE e.type = "cancel"
  <2>1. r = acceptCancel(d)
    BY <1>2 DEF acceptEvent
  <2> QED BY <1>0, <2>1, CancelEffect
<1>3. CASE e.type \notin {"message", "cancel"}
  <2>1. e.type = "tool_result" /\ e.turn \in Turn /\ e.arg \in Call
    BY <1>3 DEF InputEvent, Message, CancelInput, Answer
  <2> DEFINE c == ToolResult(d.execution, e.arg)
  <2>2. r = acceptToolResult(d, e.turn, e.arg)
    BY <1>3 DEF acceptEvent
  <2>3. c \in Command
    BY <1>0, <2>1 DEF Command
  <2> HIDE DEF r, c
  <2>4. r.execution = d.execution /\ r.phase = d.phase /\ r.cancellation = d.cancellation
        /\ r.commands = Append(d.commands, c)
    BY <1>0, <2>1, <2>2, ToolResultEffect DEF c
  <2>5. Elements(Append(d.commands, c)) = Elements(d.commands) \cup {c}
    BY <1>0, <2>3, ElementsAppend
  <2> QED BY <2>4, <2>5
<1> QED BY <1>1, <1>2, <1>3

\* An accepted request keeps it, and takes nothing from a running tick.
LEMMA AcceptInputKeeps ==
  ASSUME NEW J \in [Turn -> JobType], NEW d, Rec(d, Sent(d.accepted), J), d.life = "live",
         d.phase # "checkpointing", NEW r \in Request, ~Known(d, r), ~Refused(d, r.events),
         Active(d) \/ d.generation < MaxTurn
  PROVE  LET q == acceptInput(d, r) IN
         Rec(q, Sent(q.accepted), J) /\ Grows(d, q)
<1> DEFINE U == Sent(d.accepted)
           W == Sent(d.accepted \cup {r})
           p == acceptEvents(d, r.events)
           a == p.accepted \cup {r}
           q == [p EXCEPT !.accepted = a]
<1>0. d.accepted \in SUBSET Request /\ (\A s \in d.accepted : s.key # r.key) /\ Good(d)
  BY DEF Rec, Good, StoreType, Known
<1>1. U \subseteq W
  BY DEF Sent
<1>2. ASSUME NEW m \in DOMAIN r.events, r.events[m] \in InputEvent
      PROVE  /\ Carries(r.events[m]) \subseteq W
             /\ r.events[m].type = "message" => r.events[m].arg \notin U
  <2>1. CASE r.events[m].type = "message"
    BY <1>0, <1>2, <2>1, NewMessages DEF Carries
  <2> QED BY <2>1 DEF Carries
<1> HIDE DEF U, W
<1>3. Tells(d, p, W, J) /\ Grows(d, p)
  <2>1. CASE \E e \in InputEvent : r.events = <<e>>
    <3>1. PICK e \in InputEvent : r.events = <<e>>
      BY <2>1
    <3>2. p = acceptEvent(d, e) /\ ~Throws(d, e) /\ 1 \in DOMAIN r.events /\ r.events[1] = e
      BY <3>1 DEF acceptEvents, Refused
    <3>3. Carries(e) \subseteq W /\ (e.type = "message" => e.arg \notin U)
      BY <1>2, <3>2
    <3>4. Tells(d, p, U \cup Carries(e), J)
      BY <3>2, <3>3, AcceptEventKeeps DEF U
    <3>5. U \cup Carries(e) \subseteq W
      BY <1>1, <3>3
    <3> HIDE DEF p
    <3>6. Grows(d, p)
      BY <1>0, <3>2, AcceptEventGrows
    <3>7. Rec(p, W, J)
      BY <3>4, <3>5, RecMore DEF Tells
    <3> QED BY <3>4, <3>6, <3>7 DEF Tells
  <2>2. CASE \E e, f \in InputEvent : r.events = <<e, f>>
    <3>1. PICK e \in InputEvent, f \in InputEvent : r.events = <<e, f>>
      BY <2>2
    <3> DEFINE o == acceptEvent(d, e)
               V == U \cup Carries(e)
    <3>2. /\ p = acceptEvent(o, f) /\ ~Throws(d, e) /\ ~Throws(o, f)
          /\ 1 \in DOMAIN r.events /\ r.events[1] = e /\ 2 \in DOMAIN r.events /\ r.events[2] = f
      BY <3>1 DEF acceptEvents, Refused
    <3>3. /\ Carries(e) \subseteq W /\ (e.type = "message" => e.arg \notin U)
          /\ Carries(f) \subseteq W /\ (f.type = "message" => f.arg \notin U)
      BY <1>2, <3>2
    <3>4. f.type = "message" => f.arg \notin V
      <4>1. ASSUME f.type = "message", f.arg \in Carries(e) PROVE FALSE
        <5>1. e.type = "message" /\ e.arg = f.arg
          BY <4>1 DEF Carries
        <5>2. e = Message(e.arg) /\ f = Message(f.arg)
          BY <1>0, <3>2, <4>1, <5>1, NewMessages
        <5>3. r.events[1] = r.events[2]
          BY <3>2, <5>1, <5>2
        <5> QED BY <3>2, <4>1, <5>3, MessagesDistinct
      <4> QED BY <3>3, <4>1
    <3>5. Tells(d, o, V, J) /\ o.phase # "checkpointing"
      BY <3>2, <3>3, AcceptEventKeeps DEF U
    <3>6. /\ o.life = "live" /\ (Active(o) \/ o.generation < MaxTurn)
          /\ Good(o) /\ Grows(d, o)
      BY <1>0, <3>2, AcceptEventMoves, AcceptEventGrows DEF Moves
    <3> HIDE DEF o, V, p
    <3>7. Tells(o, p, V \cup Carries(f), J) /\ Grows(o, p)
      BY <3>2, <3>4, <3>5, <3>6, AcceptEventKeeps, AcceptEventGrows DEF Tells
    <3>8. V \cup Carries(f) \subseteq W
      BY <1>1, <3>3 DEF V
    <3>9. Rec(p, W, J)
      BY <3>7, <3>8, RecMore DEF Tells
    <3>10. Grows(d, p)
      BY <3>6, <3>7 DEF Grows, Active
    <3> QED BY <3>5, <3>7, <3>9, <3>10 DEF Tells
  <2> QED BY <2>1, <2>2, SessionAssumption
<1>4. acceptInput(d, r) = q
  BY DEF acceptInput
<1> HIDE DEF p
<1>5. p \in StoreType /\ a \in SUBSET Request /\ a = d.accepted \cup {r} /\ Rec(p, W, J)
  BY <1>0, <1>3 DEF Tells, Rec, Good, StoreType
<1> HIDE DEF a
<1>6. q \in StoreType
  BY <1>5 DEF StoreType
<1>7. /\ q.life = p.life /\ q.phase = p.phase /\ q.generation = p.generation
      /\ q.execution = p.execution /\ q.input = p.input /\ q.cursor = p.cursor
      /\ q.checkpoint = p.checkpoint /\ q.status = p.status /\ q.actions = p.actions
      /\ q.turns = p.turns /\ q.items = p.items /\ q.shown = p.shown
      /\ q.commands = p.commands /\ q.cancellation = p.cancellation /\ q.queued = p.queued
      /\ q.accepted = a
  BY <1>5, StoreDomain
<1> HIDE DEF q
<1>8. Good(q)
  BY <1>5, <1>6, <1>7 DEF Rec, Good, OpenTurn, Current, Active
<1>9. Truth(q) /\ Blank(q, J) /\ Saved(q, J)
  BY <1>5, <1>7 DEF Rec, Truth, Blank, Saved
<1>10. Logged(q, J) /\ Taken(q, J)
  BY <1>5, <1>7 DEF Rec, Logged, Taken, Active
<1>11. Once(q, W)
  BY <1>5, <1>7 DEF Rec, Once
<1>12. Grows(d, q)
  BY <1>3, <1>7 DEF Grows
<1>13. Rec(q, Sent(q.accepted), J)
  BY <1>5, <1>7, <1>8, <1>9, <1>10, <1>11 DEF Rec, W
<1> QED BY <1>4, <1>12, <1>13

\* The runtime never goes back: what a job said, took and saved stands.
Over(j) == j.state \notin {"none", "live"}
Later(j, k) ==
  /\ Prefix(j.log, k.log) /\ j.got \subseteq k.got /\ (j.saved => k.saved)
  /\ j.state = "none" <=> k.state = "none"
  /\ k.state = "live" => j.state = "live"
Laters(J, K) == \A g \in Turn : Later(J[g], K[g])

\* A checkpoint is saved after the work is done, and nothing is taken before the start.
Sound(j) ==
  /\ j.saved => j.state \in {"completed", "gone"}
  /\ j.state = "none" => j.got = {}

\* A log is a beginning of itself.
LEMMA PrefixSame ==
  ASSUME NEW s \in Seq(Event)
  PROVE  Prefix(s, s)
<1>1. Len(s) \in Nat
  BY LenProperties
<1> QED BY <1>1 DEF Prefix

\* A beginning of a beginning is a beginning.
LEMMA PrefixLater ==
  ASSUME NEW s \in Seq(Event), NEW l \in Seq(Event), NEW m \in Seq(Event),
         Prefix(s, l), Prefix(l, m)
  PROVE  Prefix(s, m)
<1>1. Len(s) \in Nat /\ Len(l) \in Nat /\ Len(m) \in Nat
  BY LenProperties
<1>2. Len(s) <= Len(m)
  BY <1>1 DEF Prefix
<1>3. ASSUME NEW n \in 1..Len(s) PROVE s[n] = m[n]
  <2>1. n \in 1..Len(l)
    BY <1>1 DEF Prefix
  <2> QED BY <2>1 DEF Prefix
<1> QED BY <1>2, <1>3 DEF Prefix

\* So a page stays a page.
LEMMA PageLater ==
  ASSUME NEW b \in Batch, NEW l \in Seq(Event), NEW m \in Seq(Event),
         PageOf(b, l), Prefix(l, m)
  PROVE  PageOf(b, m)
<1>1. /\ Len(l) \in Nat /\ Len(m) \in Nat /\ b.from \in Nat /\ Len(b.events) \in Nat
      /\ Len(l) <= Len(m)
  BY LenProperties DEF Batch, Prefix
<1> SUFFICES ASSUME b.events # <<>>
             PROVE  /\ b.from + Len(b.events) <= Len(m)
                    /\ \A n \in 1..Len(b.events) : b.events[n] = m[b.from + n]
  BY DEF PageOf
<1>2. /\ b.from + Len(b.events) <= Len(l)
      /\ \A n \in 1..Len(b.events) : b.events[n] = l[b.from + n]
  BY DEF PageOf
<1>3. b.from + Len(b.events) <= Len(m)
  <2> DEFINE x == b.from + Len(b.events)
  <2>1. x \in Int /\ x <= Len(l)
    BY <1>1, <1>2
  <2> HIDE DEF x
  <2>2. x <= Len(m)
    BY <1>1, <2>1
  <2> QED BY <2>2 DEF x
<1>4. ASSUME NEW n \in 1..Len(b.events) PROVE b.events[n] = m[b.from + n]
  <2>1. b.from + n \in 1..Len(l)
    BY <1>1, <1>2
  <2>2. l[b.from + n] = m[b.from + n]
    BY <2>1 DEF Prefix
  <2> QED BY <1>2, <2>2
<1> QED BY <1>3, <1>4

\* The record stays true to a runtime that moves on.
LEMMA RecLater ==
  ASSUME NEW J \in [Turn -> JobType], NEW K \in [Turn -> JobType], NEW U, NEW d,
         Rec(d, U, J), Laters(J, K)
  PROVE  Rec(d, U, K)
<1>0. /\ d \in StoreType /\ (Active(d) => d.execution \in Turn)
      /\ d.checkpoint \in Turn \cup {0}
  BY DEF Rec, Good, StoreType, Active, Turn
<1>1. Blank(d, K)
  BY DEF Rec, Blank, Laters, Later
<1>2. Logged(d, K)
  <2>1. ASSUME NEW g \in Turn PROVE Prefix(d.shown[g], K[g].log)
    <3>1. d.shown[g] \in Seq(Event) /\ J[g].log \in Seq(Event) /\ K[g].log \in Seq(Event)
      <4>1. J[g] \in JobType /\ K[g] \in JobType /\ d.shown \in [Turn -> Seq(Event)]
        BY <1>0 DEF StoreType
      <4> QED BY <4>1 DEF JobType
    <3>2. Prefix(d.shown[g], J[g].log) /\ Prefix(J[g].log, K[g].log)
      BY DEF Rec, Logged, Laters, Later
    <3> QED BY <3>1, <3>2, PrefixLater
  <2> QED BY <2>1 DEF Rec, Logged
<1>3. Saved(d, K)
  BY <1>0 DEF Rec, Saved, Laters, Later
<1>4. Taken(d, K)
  <2> SUFFICES ASSUME Active(d)
               PROVE  /\ \A i \in d.items[d.execution] :
                           i \in K[d.execution].got \cup d.input
                             \/ Steer(d.execution, i) \in Elements(d.commands)
                      /\ K[d.execution].state # "none" => d.input \subseteq K[d.execution].got
                      /\ d.phase # "starting" => K[d.execution].state # "none"
                      /\ d.phase = "checkpointing" =>
                           d.commands = <<>> \/ d.execution \in d.cancellation
    BY DEF Taken
  <2>1. /\ J[d.execution].got \subseteq K[d.execution].got
        /\ J[d.execution].state = "none" <=> K[d.execution].state = "none"
    BY <1>0 DEF Laters, Later
  <2> QED BY <2>1 DEF Rec, Taken
<1> QED BY <1>1, <1>2, <1>3, <1>4 DEF Rec

\* The start of the job gives it the input of the turn.
LEMMA RecStarts ==
  ASSUME NEW J \in [Turn -> JobType], NEW K \in [Turn -> JobType], NEW U, NEW d,
         Rec(d, U, J), Active(d), d.phase = "starting", Sound(J[d.execution]),
         K = [J EXCEPT ![d.execution] = Started(J[d.execution], d.input)]
  PROVE  /\ Rec(d, U, K) /\ K[d.execution].state # "none"
         /\ \A g \in Turn : Sound(J[g]) => Sound(K[g])
<1>0. d \in StoreType /\ d.execution \in Turn /\ d.generation \in Nat /\ d.execution = d.generation
      /\ d.turns[d.execution] \notin Terminal /\ d.checkpoint \in Turn \cup {0}
  BY ActiveFacts DEF Rec
<1> DEFINE k == Started(J[d.execution], d.input)
<1>1. K[d.execution] = k /\ \A g \in Turn : g # d.execution => K[g] = J[g]
  BY <1>0
<1>2. /\ k.log = J[d.execution].log /\ k.state # "none" /\ k.saved = J[d.execution].saved
      /\ J[d.execution].state # "none" => k = J[d.execution]
      /\ J[d.execution].state = "none" => k.state = "live" /\ k.got = d.input
  <2>1. J[d.execution] \in JobType
    BY <1>0
  <2>2. CASE J[d.execution].state = "none"
    <3>1. k = [J[d.execution] EXCEPT !.state = "live", !.got = d.input]
      BY <2>2 DEF Started
    <3>2. k.log = J[d.execution].log /\ k.saved = J[d.execution].saved /\ k.state = "live" /\ k.got = d.input
      BY <2>1, <3>1 DEF JobType
    <3> QED BY <2>2, <3>2
  <2>3. CASE J[d.execution].state # "none"
    BY <2>3 DEF Started
  <2> QED BY <2>2, <2>3
<1> HIDE DEF k
<1>3. Blank(d, K)
  BY <1>0, <1>1 DEF Rec, Blank, Turn
<1>4. Logged(d, K)
  <2>1. \A g \in Turn : K[g].log = J[g].log
    BY <1>1, <1>2
  <2> QED BY <2>1 DEF Rec, Logged
<1>5. Saved(d, K)
  <2>1. \A g \in Turn : K[g].saved = J[g].saved
    BY <1>1, <1>2
  <2> QED BY <1>0, <2>1 DEF Rec, Saved
<1>6. Taken(d, K)
  <2>1. /\ d.input \subseteq K[d.execution].got /\ K[d.execution].state # "none"
        /\ J[d.execution].got \subseteq K[d.execution].got
    <3>1. CASE J[d.execution].state = "none"
      BY <1>1, <1>2, <3>1 DEF Sound
    <3>2. CASE J[d.execution].state # "none"
      BY <1>1, <1>2, <3>2 DEF Rec, Taken
    <3> QED BY <3>1, <3>2
  <2> QED BY <2>1 DEF Rec, Taken
<1>7. \A g \in Turn : Sound(J[g]) => Sound(K[g])
  <2>1. Sound(J[d.execution]) => Sound(k)
    BY <1>2 DEF Sound
  <2> QED BY <1>1, <2>1
<1> QED BY <1>1, <1>2, <1>3, <1>4, <1>5, <1>6, <1>7 DEF Rec

\* A step of one job is a step of the runtime.
LEMMA OneJob ==
  ASSUME NEW J \in [Turn -> JobType], NEW K \in [Turn -> JobType], NEW g \in Turn, NEW j,
         K = [J EXCEPT ![g] = j], Later(J[g], j), Sound(j), \A h \in Turn : Sound(J[h])
  PROVE  Laters(J, K) /\ \A h \in Turn : Sound(K[h])
<1>1. K[g] = j /\ \A h \in Turn : h # g => K[h] = J[h]
  OBVIOUS
<1>2. \A h \in Turn : Later(J[h], J[h])
  <2> TAKE h \in Turn
  <2>1. J[h].log \in Seq(Event)
    BY DEF JobType
  <2> QED BY <2>1, PrefixSame DEF Later
<1> QED BY <1>1, <1>2 DEF Laters

\* What happens to a job by itself, and by a call of the reconciler.
LEMMA JobMoves ==
  ASSUME NEW j \in JobType, Sound(j)
  PROVE  /\ Later(j, j)
         /\ \A e \in Event : j.state = "live" =>
              Later(j, [j EXCEPT !.log = Append(@, e)]) /\ Sound([j EXCEPT !.log = Append(@, e)])
         /\ \A s \in {"completed", "cancelled", "failed"} : j.state = "live" =>
              Later(j, [j EXCEPT !.state = s]) /\ Sound([j EXCEPT !.state = s])
         /\ j.state # "none" => Later(j, [j EXCEPT !.state = "gone"]) /\ Sound([j EXCEPT !.state = "gone"])
         /\ Later(j, Stopped(j)) /\ Sound(Stopped(j)) /\ (Stopped(j).state # "live")
         /\ \A c \in Operations : j.state # "none" => Later(j, Apply(j, c)) /\ Sound(Apply(j, c))
         /\ j.saved \/ j.state = "completed" =>
              Later(j, [j EXCEPT !.saved = TRUE]) /\ Sound([j EXCEPT !.saved = TRUE])
<1>0. /\ j.log \in Seq(Event) /\ DOMAIN j = {"state", "log", "got", "answered", "cancel", "saved"}
      /\ Prefix(j.log, j.log)
  BY PrefixSame DEF JobType
<1>1. Later(j, j)
  BY <1>0 DEF Later
<1>2. ASSUME NEW e \in Event, j.state = "live"
      PROVE  Later(j, [j EXCEPT !.log = Append(@, e)]) /\ Sound([j EXCEPT !.log = Append(@, e)])
  <2> DEFINE k == [j EXCEPT !.log = Append(@, e)]
  <2>1. k.log = Append(j.log, e) /\ k.got = j.got /\ k.saved = j.saved /\ k.state = j.state
    BY <1>0
  <2> HIDE DEF k
  <2>2. Prefix(j.log, k.log)
    <3>1. Len(j.log) \in Nat /\ Len(k.log) = Len(j.log) + 1
          /\ \A n \in 1..Len(j.log) : k.log[n] = j.log[n]
      BY <1>0, <2>1, LenProperties, AppendProperties
    <3> QED BY <3>1 DEF Prefix
  <2>3. Later(j, k)
    BY <2>1, <2>2 DEF Later
  <2>4. Sound(k)
    BY <2>1 DEF Sound
  <2> QED BY <2>3, <2>4 DEF k
<1>3. ASSUME NEW s \in {"completed", "cancelled", "failed"}, j.state = "live"
      PROVE  Later(j, [j EXCEPT !.state = s]) /\ Sound([j EXCEPT !.state = s])
  <2> DEFINE k == [j EXCEPT !.state = s]
  <2>1. k.log = j.log /\ k.got = j.got /\ k.saved = j.saved /\ k.state = s
    BY <1>0
  <2> HIDE DEF k
  <2>2. Later(j, k)
    BY <1>0, <1>3, <2>1 DEF Later
  <2>3. Sound(k)
    BY <1>3, <2>1 DEF Sound
  <2> QED BY <2>2, <2>3 DEF k
<1>4. ASSUME j.state # "none"
      PROVE  Later(j, [j EXCEPT !.state = "gone"]) /\ Sound([j EXCEPT !.state = "gone"])
  <2> DEFINE k == [j EXCEPT !.state = "gone"]
  <2>1. k.log = j.log /\ k.got = j.got /\ k.saved = j.saved /\ k.state = "gone"
    BY <1>0
  <2> HIDE DEF k
  <2>2. Later(j, k)
    BY <1>0, <1>4, <2>1 DEF Later
  <2>3. Sound(k)
    BY <2>1 DEF Sound
  <2> QED BY <2>2, <2>3 DEF k
<1>5. Later(j, Stopped(j)) /\ Sound(Stopped(j)) /\ (Stopped(j).state # "live")
  <2>1. CASE j.state = "none"
    BY <1>1, <2>1 DEF Stopped
  <2>2. CASE j.state # "none"
    <3>1. [j EXCEPT !.state = "gone"].state = "gone"
      BY <1>0
    <3> QED BY <1>4, <2>2, <3>1 DEF Stopped
  <2> QED BY <2>1, <2>2
<1>6. ASSUME NEW c \in Operations, j.state # "none"
      PROVE  Later(j, Apply(j, c)) /\ Sound(Apply(j, c))
  <2> DEFINE k == Apply(j, c)
  <2>1. k.log = j.log /\ j.got \subseteq k.got /\ k.saved = j.saved /\ k.state = j.state
    BY <1>0 DEF Apply
  <2> HIDE DEF k
  <2>2. Later(j, k)
    BY <1>0, <2>1 DEF Later
  <2>3. Sound(k)
    BY <1>6, <2>1 DEF Sound
  <2> QED BY <2>2, <2>3 DEF k
<1>7. ASSUME j.saved \/ j.state = "completed"
      PROVE  Later(j, [j EXCEPT !.saved = TRUE]) /\ Sound([j EXCEPT !.saved = TRUE])
  <2> DEFINE k == [j EXCEPT !.saved = TRUE]
  <2>1. k.log = j.log /\ k.got = j.got /\ k.saved /\ k.state = j.state
    BY <1>0
  <2> HIDE DEF k
  <2>2. Later(j, k)
    BY <1>0, <2>1 DEF Later
  <2>3. Sound(k)
    BY <1>7, <2>1 DEF Sound
  <2> QED BY <2>2, <2>3 DEF k
<1> QED BY <1>1, <1>2, <1>3, <1>4, <1>5, <1>6, <1>7


\* What a tick holds agrees with the record's phase, ...
Phased(t, d) ==
  /\ t.pc \in {"start", "started"} => d.phase = "starting"
  /\ t.pc \in {"round", "deliver", "discard", "reject", "accept"} => d.phase = "running"
  /\ t.pc \in {"checkpoint", "commit"} => d.phase = "checkpointing"

\* ... with what the runtime has answered, ...
Heard(t, j) ==
  /\ t.pc = "started" => j.state # "none"
  /\ t.pc = "accept" => PageOf(t.batch, j.log) /\ (t.batch.status = "cancelled" => Over(j))
  /\ t.pc \in {"stop", "finish"} /\ t.outcome = "cancelled" => Over(j)
  /\ t.pc = "finish" => j.state # "live" \/ t.error = "outcome_unknown"
  /\ t.pc = "commit" => j.saved
  /\ t.pc = "discard" => (IsSteer(Head(t.commands)) => Head(t.commands).arg \in j.got)

\* ... and with the queue: the steers it delivers are still in it, each once.
Queued(q, d) ==
  /\ \A n \in 1..Len(q) : IsSteer(q[n]) => q[n] \in Elements(d.commands)
  /\ \A m, n \in 1..Len(q) : IsSteer(q[n]) /\ q[m] = q[n] => m = n
Sends(t, d) ==
  /\ t.cancel => d.execution \in d.cancellation
  /\ ~t.cancel => Queued(t.commands, d)

TickTells(t, d, j) == t.pc # "idle" => Phased(t, d) /\ Heard(t, j) /\ Sends(t, d)

\* What was heard of a job stays true of it.
LEMMA HeardLater ==
  ASSUME NEW t, t.batch \in Batch, NEW j \in JobType, NEW k \in JobType,
         Heard(t, j), Later(j, k)
  PROVE  Heard(t, k)
<1>1. j.log \in Seq(Event) /\ k.log \in Seq(Event)
  BY DEF JobType
<1>2. Over(j) => Over(k)
  BY DEF Over, Later
<1>3. PageOf(t.batch, j.log) => PageOf(t.batch, k.log)
  BY <1>1, PageLater DEF Later
<1>4. /\ j.state # "none" => k.state # "none"
      /\ j.state # "live" => k.state # "live"
      /\ j.saved => k.saved
      /\ j.got \subseteq k.got
  BY DEF Later
<1> QED BY <1>2, <1>3, <1>4 DEF Heard

\* What a tick read of the record stays in it.
LEMMA TickGrows ==
  ASSUME NEW t, NEW d, NEW r, Active(d), Grows(d, r), Phased(t, d), Sends(t, d)
  PROVE  Phased(t, r) /\ Sends(t, r)
<1>1. Phased(t, r)
  BY DEF Grows, Phased
<1>2. Sends(t, r)
  BY DEF Grows, Sends, Queued
<1> QED BY <1>1, <1>2

\* A tick without commands sends nothing.
LEMMA QuietSends ==
  ASSUME NEW t, NEW d, ~t.cancel, t.commands = <<>>
  PROVE  Sends(t, d)
<1>1. 1..Len(t.commands) = {}
  OBVIOUS
<1> QED BY <1>1 DEF Sends, Queued

\* The await of a stage carries no locals.
LEMMA StageTells ==
  ASSUME NEW g, NEW pc \in Stages, NEW d, NEW j,
         pc \in {"start", "started"} => d.phase = "starting",
         pc \in {"round", "deliver"} => d.phase = "running",
         pc \in {"checkpoint", "commit"} => d.phase = "checkpointing",
         pc = "started" => j.state # "none", pc = "commit" => j.saved
  PROVE  TickTells([NoTick EXCEPT !.pc = pc, !.turn = g], d, j)
<1> DEFINE t == [NoTick EXCEPT !.pc = pc, !.turn = g]
<1>1. t.pc = pc /\ ~t.cancel /\ t.commands = <<>>
  BY DEF NoTick
<1> HIDE DEF t
<1>2. Sends(t, d)
  BY <1>1, QuietSends
<1>3. Phased(t, d)
  BY <1>1 DEF Phased, Stages
<1>4. Heard(t, j)
  BY <1>1 DEF Heard, Stages
<1> QED BY <1>2, <1>3, <1>4 DEF TickTells, t

\* The await of a stop: the turn was cancelled only when its job is over.
LEMMA StopTells ==
  ASSUME NEW g, NEW outcome, NEW error, NEW d, NEW j, outcome = "cancelled" => Over(j)
  PROVE  TickTells([[NoTick EXCEPT !.pc = "stop", !.turn = g] EXCEPT
                      !.outcome = outcome, !.error = error], d, j)
<1> DEFINE t == [[NoTick EXCEPT !.pc = "stop", !.turn = g] EXCEPT
                      !.outcome = outcome, !.error = error]
<1>1. t.pc = "stop" /\ ~t.cancel /\ t.commands = <<>> /\ t.outcome = outcome
  BY DEF NoTick
<1> HIDE DEF t
<1>2. Sends(t, d)
  BY <1>1, QuietSends
<1>3. Phased(t, d) /\ Heard(t, j)
  BY <1>1 DEF Phased, Heard
<1> QED BY <1>2, <1>3 DEF TickTells, t

\* The rest of what a tick delivers is queued without the command it delivered.
LEMMA QueuedTail ==
  ASSUME NEW S, NEW q \in Seq(S), q # <<>>, NEW d, NEW r, Queued(q, d),
         \A y \in Elements(d.commands) : y # Head(q) => y \in Elements(r.commands)
  PROVE  Queued(Tail(q), r)
<1>1. /\ Tail(q) \in Seq(S) /\ Len(q) \in Nat /\ Len(q) >= 1 /\ Len(Tail(q)) = Len(q) - 1
      /\ Head(q) = q[1] /\ \A n \in 1..Len(q) - 1 : Tail(q)[n] = q[n + 1]
  BY HeadTailProperties, LenProperties, EmptySeq
<1> DEFINE w == Tail(q)
<1> HIDE DEF w
<1>2. /\ Len(w) = Len(q) - 1 /\ \A n \in 1..Len(w) : w[n] = q[n + 1] /\ n + 1 \in 1..Len(q) /\ n + 1 # 1
  BY <1>1 DEF w
<1>3. ASSUME NEW n \in 1..Len(w), IsSteer(w[n])
      PROVE  w[n] \in Elements(r.commands)
  <2>1. q[n + 1] \in Elements(d.commands) /\ 1 \in 1..Len(q)
    BY <1>1, <1>2, <1>3 DEF Queued
  <2>2. q[n + 1] # q[1]
    BY <1>2, <1>3, <2>1 DEF Queued
  <2> QED BY <1>1, <1>2, <2>1, <2>2
<1>4. ASSUME NEW m \in 1..Len(w), NEW n \in 1..Len(w), IsSteer(w[n]), w[m] = w[n]
      PROVE  m = n
  <2>1. m + 1 = n + 1
    BY <1>2, <1>4 DEF Queued
  <2> QED BY <2>1
<1> QED BY <1>3, <1>4 DEF Queued, w

\* The first page of the queue holds every steer once.
LEMMA QueuedPage ==
  ASSUME NEW U, NEW d, d.commands \in Seq(Command), Once(d, U)
  PROVE  Queued(FirstPage(d.commands), d)
<1> DEFINE q == d.commands
           p == FirstPage(q)
<1>1. \A n \in 1..Len(p) : n \in 1..Len(q) /\ p[n] = q[n]
  <2>0. Len(q) \in Nat /\ Page \in Nat /\ Page >= 1
    BY LenProperties, SessionAssumption
  <2> DEFINE k == IF Len(q) < Page THEN Len(q) ELSE Page
  <2>1. p = SubSeq(q, 1, k) /\ k \in Nat /\ k <= Len(q)
    BY <2>0 DEF FirstPage
  <2> HIDE DEF k, p
  <2>2. CASE k = 0
    <3>1. p = <<>>
      BY <2>0, <2>1, <2>2, SubSeqProperties
    <3> QED BY <3>1
  <2>3. CASE k # 0
    <3>1. 1 \in 1..Len(q) /\ k \in 1..Len(q) /\ 1 \in 1..k + 1
      BY <2>0, <2>1, <2>3
    <3>2. Len(p) = k /\ \A n \in 1..k : p[n] = q[n]
      BY <2>0, <2>1, <2>3, <3>1, SubSeqProperties
    <3> QED BY <2>0, <2>1, <3>2
  <2> QED BY <2>2, <2>3
<1> HIDE DEF p
<1>2. ASSUME NEW n \in 1..Len(p), IsSteer(p[n])
      PROVE  p[n] \in Elements(q) /\ \A m \in 1..Len(p) : p[m] = p[n] => m = n
  BY <1>1, <1>2 DEF Once, Elements
<1> QED BY <1>2 DEF Queued, p

\* A poll answers with a page of the log, and with the end only after it.
LEMMA BatchPage ==
  ASSUME NEW j \in JobType, NEW b \in Batches(j)
  PROVE  PageOf(b, j.log) /\ (b.status = "cancelled" => Over(j))
<1>1. CASE j.state \in {"none", "gone"}
  <2>1. b = [from |-> 0, events |-> <<>>, status |-> "missing"]
    BY <1>1 DEF Batches
  <2> QED BY <2>1 DEF PageOf
<1>2. CASE j.state \notin {"none", "gone"}
  <2>1. PICK m \in 0..Len(j.log), n \in 0..Len(j.log) :
          b = [from |-> m, events |-> SubSeq(j.log, m + 1, n),
               status |-> IF n = Len(j.log) THEN BatchStatus(j) ELSE "running"]
    BY <1>2 DEF Batches
  <2> DEFINE e == SubSeq(j.log, m + 1, n)
  <2>2. b.from = m /\ b.events = e /\ b.status \in {BatchStatus(j), "running"}
    BY <2>1
  <2>3. j.log \in Seq(Event) /\ Len(j.log) \in Nat
    BY LenProperties DEF JobType
  <2>4. b.status = "cancelled" => Over(j)
    BY <1>2, <2>2 DEF BatchStatus, Over
  <2>5. CASE m + 1 > n
    <3>1. e = <<>>
      BY <2>3, <2>5, SubSeqEmpty
    <3> QED BY <2>2, <2>4, <3>1 DEF PageOf
  <2>6. CASE ~(m + 1 > n)
    <3>1. m + 1 \in 1..Len(j.log) /\ n \in 1..Len(j.log) /\ m + 1 \in 1..n + 1
      BY <2>3, <2>6
    <3>2. \A i \in m + 1..n : j.log[i] \in Event
      BY <2>3, <3>1, ElementOfSeq
    <3>3. Len(e) = n - (m + 1) + 1 /\ \A i \in 1..n - (m + 1) + 1 : e[i] = j.log[(m + 1) + i - 1]
      <4>1. m + 1 \in Int /\ n \in Int /\ m + 1 <= n
        BY <2>3, <2>6
      <4> QED BY ONLY <3>2, <4>1, SubSeqProperties
    <3> HIDE DEF e
    <3>4. m \in Int /\ n \in Int /\ Len(e) = n - m
          /\ \A i \in 1..n - m : e[i] = j.log[m + i]
      <4>1. m \in Int /\ n \in Int
        BY <2>3
      <4>2. \A i \in 1..n - m : i \in 1..n - (m + 1) + 1 /\ (m + 1) + i - 1 = m + i
        BY <4>1
      <4> QED BY <3>3, <4>1, <4>2
    <3>5. m + (n - m) <= Len(j.log)
      BY <2>3, <3>1, <3>4
    <3> QED BY <2>2, <2>4, <3>4, <3>5 DEF PageOf
  <2> QED BY <2>5, <2>6
<1> QED BY <1>1, <1>2

\* Discarding a command, in the queue or not.
LEMMA DiscardKeeps ==
  ASSUME NEW J \in [Turn -> JobType], NEW U, NEW d, Rec(d, U, J), Active(d), NEW c \in Command,
         IsSteer(c) => c.arg \in J[d.execution].got \/ c \notin Elements(d.commands)
  PROVE  Tells(d, discard(d, c), U, J)
<1>1. CASE c \in Elements(d.commands)
  BY <1>1, SteerDiscardKeeps
<1>2. CASE c \notin Elements(d.commands)
  <2>1. d \in StoreType
    BY DEF Rec, Good
  <2>2. discard(d, c) = [d EXCEPT !.commands = d.commands]
    BY <1>2 DEF discard, Without
  <2>3. [d EXCEPT !.commands = d.commands] = d
    BY <2>1 DEF StoreType
  <2> QED BY <2>2, <2>3 DEF Tells
<1> QED BY <1>1, <1>2

\* What both leave in the queue.
LEMMA DiscardLeaves ==
  ASSUME NEW d \in StoreType, NEW c, NEW y \in Elements(d.commands), y # c
  PROVE  /\ y \in Elements(discard(d, c).commands)
         /\ c \in Command => y \in Elements(reject(d, c).commands)
<1>1. d.commands \in Seq(Command)
  BY DEF StoreType
<1>2. y \in Elements(Without(d.commands, c))
  <2>1. CASE c \in Elements(d.commands)
    BY <1>1, <2>1, WithoutOthers
  <2>2. CASE c \notin Elements(d.commands)
    BY <2>2 DEF Without
  <2> QED BY <2>1, <2>2
<1>3. discard(d, c).commands = Without(d.commands, c)
  BY DiscardEffect
<1>4. ASSUME c \in Command PROVE reject(d, c).commands = Without(d.commands, c)
  <2>1. CASE c.type = "steer"
    <3>1. c.turn \in Turn
      BY <1>4, <2>1, SteerIs DEF IsSteer
    <3> QED BY <2>1, <3>1, RefusedSteerEffect
  <2>2. CASE c.type # "steer"
    <3>1. reject(d, c) = discard(d, c)
      BY <2>2 DEF reject
    <3> QED BY <1>3, <3>1
  <2> QED BY <2>1, <2>2
<1> QED BY <1>2, <1>3, <1>4

\* Rejecting a command that may be a steer of the queue.
LEMMA RejectKeeps ==
  ASSUME NEW J \in [Turn -> JobType], NEW U, NEW d, Rec(d, U, J), Active(d), NEW c \in Command,
         IsSteer(c) => c \in Elements(d.commands)
  PROVE  Tells(d, reject(d, c), U, J)
<1>1. CASE IsSteer(c)
  BY <1>1, RefusedSteerKeeps
<1>2. CASE ~IsSteer(c)
  <2>1. reject(d, c) = discard(d, c)
    BY <1>2 DEF reject, IsSteer
  <2> QED BY <1>2, <2>1, DiscardKeeps
<1> QED BY <1>1, <1>2

\* A page moves the turn to its checkpoint or leaves it where it is.
LEMMA AcceptBatchPhase ==
  ASSUME NEW d \in StoreType, d.execution \in Turn, NEW b, NEW x
  PROVE  acceptBatch(d, b, x).phase \in {d.phase, "checkpointing"}
<1> DEFINE p == acceptRuntimeEvents(d, Fresh(d, b))
           r == [p EXCEPT !.phase = "checkpointing"]
<1>1. p.phase = d.phase
  BY EventsEffect
<1>2. DOMAIN p = {"life", "phase", "generation", "execution", "input", "cursor",
           "checkpoint", "status", "error", "actions", "turns", "items", "shown", "commands",
           "cancellation", "queued", "accepted", "environment"}
  <2>1. DOMAIN p = DOMAIN d
    BY DEF acceptRuntimeEvents
  <2> QED BY <2>1, StoreDomain
<1> HIDE DEF p
<1>3. r.phase = "checkpointing"
  BY <1>2
<1>4. acceptBatch(d, b, x) = IF b.status = "completed" /\ ~Pending(d, x) THEN r ELSE p
  BY DEF acceptBatch, p
<1> HIDE DEF r
<1> QED BY <1>1, <1>3, <1>4

\* The second invariant.
Told ==
  /\ Rec(db, Sent(db.accepted), job)
  /\ TickTells(tick, db, job[tick.turn])
  /\ \A g \in Turn : Sound(job[g])

\* It holds in a new session.
LEMMA ToldInit == Init => Told
<1> SUFFICES ASSUME Init PROVE Told
  OBVIOUS
<1>1. job \in [Turn -> JobType]
  BY InvInit DEF SessionInv, TypeOK
<1>2. \A g \in Turn : job[g].state = "none" /\ Sound(job[g])
  BY DEF Init, NoJob, Sound
<1>3. db = EmptyStore("live")
  BY DEF Init, NewStore
<1>4. Rec(EmptyStore("live"), Sent(db.accepted), job)
  BY <1>1, <1>2, EmptyKeeps
<1>5. TickTells(tick, db, job[tick.turn])
  BY NoTickGood DEF Init, TickTells
<1> QED BY <1>2, <1>3, <1>4, <1>5 DEF Told

\* The command at the head is dealt with.
LEMMA RestTells ==
  ASSUME NEW t \in TickType, t.commands # <<>>, NEW d, NEW r, NEW j, Sends(t, d),
         r.phase = "running", r.execution = d.execution, d.cancellation \subseteq r.cancellation,
         ~t.cancel =>
           \A y \in Elements(d.commands) : y # Head(t.commands) => y \in Elements(r.commands)
  PROVE  TickTells([t EXCEPT !.pc = "deliver", !.commands = Tail(@)], r, j)
<1> DEFINE q == Tail(t.commands)
           u == [t EXCEPT !.pc = "deliver", !.commands = q]
<1>1. u.pc = "deliver" /\ u.commands = q /\ (u.cancel <=> t.cancel)
  BY DEF TickType
<1>2. t.commands \in Seq(Operations)
  BY DEF TickType, Operations
<1>3. ~t.cancel => Queued(q, r)
  BY <1>2, QueuedTail DEF Sends
<1> HIDE DEF u, q
<1>4. Sends(u, r)
  BY <1>1, <1>3 DEF Sends
<1>5. Phased(u, r) /\ Heard(u, j)
  BY <1>1 DEF Phased, Heard
<1> QED BY <1>4, <1>5 DEF TickTells, u, q

\* A command was answered or refused.
LEMMA AnswerTells ==
  ASSUME NEW t \in TickType, NEW pc \in {"discard", "reject"}, NEW d, NEW j, Sends(t, d),
         d.phase = "running",
         pc = "discard" => (IsSteer(Head(t.commands)) => Head(t.commands).arg \in j.got)
  PROVE  TickTells([t EXCEPT !.pc = pc], d, j)
<1> DEFINE u == [t EXCEPT !.pc = pc]
<1>1. u.pc = pc /\ u.commands = t.commands /\ (u.cancel <=> t.cancel)
  BY DEF TickType
<1> HIDE DEF u
<1>2. Sends(u, d)
  BY <1>1 DEF Sends
<1>3. Phased(u, d) /\ Heard(u, j)
  BY <1>1 DEF Phased, Heard
<1> QED BY <1>2, <1>3 DEF TickTells, u

\* The poll was answered with a page of the log.
LEMMA PollTells ==
  ASSUME NEW t \in TickType, NEW d, NEW j \in JobType, Sends(t, d), d.phase = "running",
         NEW b \in Batches(j)
  PROVE  TickTells([t EXCEPT !.pc = "accept", !.batch = b], d, j)
<1> DEFINE u == [t EXCEPT !.pc = "accept", !.batch = b]
<1>1. u.pc = "accept" /\ u.batch = b /\ u.commands = t.commands /\ (u.cancel <=> t.cancel)
  BY DEF TickType
<1> HIDE DEF u
<1>2. Sends(u, d)
  BY <1>1 DEF Sends
<1>3. Phased(u, d) /\ Heard(u, j)
  BY <1>1, BatchPage DEF Phased, Heard
<1> QED BY <1>2, <1>3 DEF TickTells, u

\* A delivery was not answered: this round delivers no more.
LEMMA RetryTells ==
  ASSUME NEW t \in TickType, t.pc = "deliver", ~t.cancel, NEW d, NEW j, d.phase = "running"
  PROVE  TickTells([t EXCEPT !.commands = <<>>, !.retry = TRUE], d, j)
<1> DEFINE u == [t EXCEPT !.commands = <<>>, !.retry = TRUE]
<1>1. u.pc = "deliver" /\ u.commands = <<>> /\ ~u.cancel
  BY DEF TickType
<1> HIDE DEF u
<1>2. Sends(u, d)
  BY <1>1, QuietSends
<1>3. Phased(u, d) /\ Heard(u, j)
  BY <1>1 DEF Phased, Heard
<1> QED BY <1>2, <1>3 DEF TickTells, u

\* The stop was answered, or given up at the deadline.
LEMMA FinishTells ==
  ASSUME NEW t \in TickType, t.pc = "stop", NEW d, NEW j, Sends(t, d), NEW e,
         t.outcome = "cancelled" => Over(j), j.state # "live" \/ e = "outcome_unknown"
  PROVE  TickTells([t EXCEPT !.pc = "finish", !.error = e], d, j)
<1> DEFINE u == [t EXCEPT !.pc = "finish", !.error = e]
<1>1. u.pc = "finish" /\ u.commands = t.commands /\ (u.cancel <=> t.cancel) /\ u.error = e
      /\ u.outcome = t.outcome
  BY DEF TickType
<1> HIDE DEF u
<1>2. Sends(u, d)
  BY <1>1 DEF Sends
<1>3. Phased(u, d) /\ Heard(u, j)
  BY <1>1 DEF Phased, Heard
<1> QED BY <1>2, <1>3 DEF TickTells, u

\* A round delivers the first page of the queue, or the cancellation.
LEMMA DeliverTells ==
  ASSUME NEW g, NEW U, NEW d, NEW j, d.commands \in Seq(Command), Once(d, U),
         d.phase = "running", d.execution = g
  PROVE  TickTells([[NoTick EXCEPT !.pc = "deliver", !.turn = g] EXCEPT
                      !.cancel = g \in d.cancellation,
                      !.commands = IF g \in d.cancellation THEN <<Cancel(g)>>
                                   ELSE FirstPage(d.commands)], d, j)
<1> DEFINE x == g \in d.cancellation
           q == IF x THEN <<Cancel(g)>> ELSE FirstPage(d.commands)
<1>1. ~x => Queued(q, d)
  BY QueuedPage
<1>2. x => d.execution \in d.cancellation
  OBVIOUS
<1> HIDE DEF x, q
<1> DEFINE u == [[NoTick EXCEPT !.pc = "deliver", !.turn = g] EXCEPT !.cancel = x, !.commands = q]
<1>3. u.pc = "deliver" /\ u.commands = q /\ u.cancel = x
  BY DEF NoTick
<1> HIDE DEF u
<1>4. Sends(u, d)
  BY <1>1, <1>2, <1>3 DEF Sends
<1>5. Phased(u, d) /\ Heard(u, j)
  BY <1>3 DEF Phased, Heard
<1> QED BY <1>4, <1>5 DEF TickTells, u, x, q

\* What a checkpoint call does to a job.
LEMMA SavedMoves ==
  ASSUME NEW j \in JobType, Sound(j), NEW x \in BOOLEAN, j.saved => x,
         x => j.saved \/ j.state = "completed"
  PROVE  Later(j, [j EXCEPT !.saved = x]) /\ Sound([j EXCEPT !.saved = x])
<1> DEFINE k == [j EXCEPT !.saved = x]
<1>1. k.log = j.log /\ k.got = j.got /\ (k.saved <=> x) /\ k.state = j.state
  BY DEF JobType
<1>2. Prefix(j.log, j.log)
  BY PrefixSame DEF JobType
<1> HIDE DEF k
<1>3. Later(j, k)
  BY <1>1, <1>2 DEF Later
<1>4. Sound(k)
  BY <1>1 DEF Sound
<1> QED BY <1>3, <1>4 DEF k

\* Every step of the reconciler keeps it.
LEMMA ReconcilerTold ==
  ASSUME SessionInv, Told, Reconciler
  PROVE  Told'
<1> DEFINE g == tick.turn
           U == Sent(db.accepted)
<1>1. ~At("idle")
  BY DEF Reconciler, At, ExecutorUnavailable, ReconcileTurn, StartAnswered, StartRejected,
         StartUnanswered, MarkRunning, Round, DeliverCancel, DeliverAnswered, Discard,
         DeliverRefused, Reject, DeliverUnanswered, Delivering, Polling, PollAnswered,
         PollUnanswered, RejectBatch, Accepting, AcceptCompletion, AcceptFailure,
         AcceptCancellation, StillOpen, AcceptAndRepeat, AcceptAndEnd, StopAnswered,
         StopUnanswered, StopUnknown, Finish, CheckpointAnswered, CheckpointRejected,
         CheckpointUnanswered, CommitCheckpoint
<1>2. /\ Good(db) /\ Active(db) /\ Fenced /\ db.execution = g /\ g \in Turn
      /\ db.phase \in ActivePhase /\ db \in StoreType /\ db.execution \in Turn
      /\ tick \in TickType /\ job \in [Turn -> JobType] /\ job[g] \in JobType
  BY <1>1, Running DEF Good
<1>3. /\ Rec(db, U, job) /\ Phased(tick, db) /\ Heard(tick, job[g]) /\ Sends(tick, db)
      /\ Sound(job[g])
  BY <1>1, <1>2 DEF Told, TickTells, At
<1>4. \A h \in Turn : Sound(job[h])
  BY DEF Told
<1>5. ASSUME NEW d, Tells(db, d, U, job), Seal(d)
      PROVE  Told'
  <2>1. db' = d /\ tick' = NoTick /\ job' = job
    BY <1>2, <1>5 DEF Seal, EndTick
  <2>2. Rec(d, Sent(d.accepted), job)
    BY <1>5 DEF Tells
  <2> QED BY <1>4, <2>1, <2>2, NoTickGood DEF Told, TickTells
<1>6. ASSUME NEW n, n.turn = g, NEW d, Tells(db, d, U, job), TickTells(n, d, job[g]),
             tick' = n, db' = d, job' = job
      PROVE  Told'
  <2>1. Rec(d, Sent(d.accepted), job)
    BY <1>6 DEF Tells
  <2> QED BY <1>4, <1>6, <2>1 DEF Told
<1>7. ASSUME NEW n, n.turn = g, NEW d, Tells(db, d, U, job), TickTells(n, d, job[g]),
             Transact(n, d)
      PROVE  Told'
  BY <1>2, <1>6, <1>7 DEF Transact, Goto
<1>8. Tells(db, db, U, job)
  BY <1>3 DEF Tells
<1>9. ASSUME NEW n, n.turn = g, TickTells(n, db, job[g]), Local(n)
      PROVE  Told'
  BY <1>6, <1>8, <1>9 DEF Local
<1>10. ASSUME NEW j \in JobType, Later(job[g], j), Sound(j), NEW K, K = [job EXCEPT ![g] = j]
       PROVE  Rec(db, U, K) /\ K[g] = j /\ \A h \in Turn : Sound(K[h])
  <2>1. K \in [Turn -> JobType] /\ K[g] = j
    BY <1>2, <1>10
  <2>2. Laters(job, K) /\ \A h \in Turn : Sound(K[h])
    BY <1>2, <1>4, <1>10, <2>1, OneJob
  <2> QED BY <1>2, <1>3, <2>1, <2>2, RecLater
<1>11. ASSUME NEW n, n.turn = g, NEW j \in JobType, Later(job[g], j), Sound(j),
              TickTells(n, db, j), DriverCall(n, j)
       PROVE  Told'
  <2> DEFINE K == [job EXCEPT ![g] = j]
  <2>1. Rec(db, U, K) /\ K[g] = j /\ \A h \in Turn : Sound(K[h])
    BY <1>10, <1>11
  <2>2. tick' = n /\ db' = db /\ job' = K
    BY <1>11 DEF DriverCall
  <2> HIDE DEF K
  <2> QED BY <1>11, <2>1, <2>2 DEF Told
<1>12. ASSUME NEW j \in JobType, Later(job[g], j), Sound(j), Unanswered(j)
       PROVE  Told'
  <2> DEFINE K == [job EXCEPT ![g] = j]
  <2>1. Rec(db, U, K) /\ \A h \in Turn : Sound(K[h])
    BY <1>10, <1>12
  <2>2. tick' = NoTick /\ db' = db /\ job' = K
    BY <1>12 DEF Unanswered, EndTick
  <2> HIDE DEF K
  <2> QED BY <2>1, <2>2, NoTickGood DEF Told, TickTells
<1>13. ASSUME NEW pc \in Stages, NEW d, NEW j,
              pc \in {"start", "started"} => d.phase = "starting",
              pc \in {"round", "deliver"} => d.phase = "running",
              pc \in {"checkpoint", "commit"} => d.phase = "checkpointing",
              pc = "started" => j.state # "none", pc = "commit" => j.saved
       PROVE  TickTells(Stage(pc), d, j) /\ Stage(pc).turn = g
  BY <1>2, <1>13, StageTells, StageGood DEF Stage
<1>14. ASSUME NEW o \in {"failed", "cancelled"}, NEW e \in Error, NEW d, NEW j,
              o = "cancelled" => Over(j)
       PROVE  TickTells(StopWith(o, e), d, j) /\ StopWith(o, e).turn = g
  BY <1>2, <1>14, StopTells, StopGood DEF StopWith, Stage
<1>15. ASSUME NEW e \in Error, NEW d, NEW j
       PROVE  TickTells(StopAndFail(e), d, j) /\ StopAndFail(e).turn = g
  BY <1>14 DEF StopAndFail
<1>16. /\ Later(job[g], job[g]) /\ Later(job[g], Stopped(job[g])) /\ Sound(Stopped(job[g]))
       /\ Stopped(job[g]).state # "live" /\ Stopped(job[g]) \in JobType
  BY <1>2, <1>3, JobMoves, JobTypes
<1>17. ASSUME tick.commands # <<>>
       PROVE  /\ Operation \in Operations /\ Operation = Head(tick.commands)
              /\ ~tick.cancel => Operation \in Command
              /\ IsSteer(Operation) => Apply(job[g], Operation).got = job[g].got \cup {Operation.arg}
              /\ Takes(job[g], Operation) =>
                   /\ Apply(job[g], Operation) \in JobType
                   /\ Later(job[g], Apply(job[g], Operation)) /\ Sound(Apply(job[g], Operation))
  <2>1. tick.commands \in Seq(Operations) /\ (~tick.cancel => tick.commands \in Seq(Command))
    BY <1>2 DEF TickType, Operations, SessionInv, TickShape
  <2>2. /\ Operation \in Operations /\ Operation = Head(tick.commands)
        /\ ~tick.cancel => Operation \in Command
    BY <1>17, <2>1, HeadTailProperties DEF Operation
  <2>3. Takes(job[g], Operation) => job[g].state # "none"
    BY DEF Takes
  <2>4. IsSteer(Operation) => Apply(job[g], Operation).got = job[g].got \cup {Operation.arg}
    BY <1>2 DEF Apply, IsSteer, JobType
  <2>5. Apply(job[g], Operation) \in JobType
    BY <1>2, <2>2, JobTypes DEF Operations
  <2> QED BY <1>2, <1>3, <2>2, <2>3, <2>4, <2>5, JobMoves
<1>18. /\ tick.pc \in {"round", "deliver", "discard", "reject", "accept"} => db.phase = "running"
       /\ tick.commands # <<>> => Rest("deliver").turn = g /\ [tick EXCEPT !.pc = "discard"].turn = g
            /\ [tick EXCEPT !.pc = "reject"].turn = g
  BY <1>2, <1>3 DEF Phased, Rest, TickType
<1> HIDE DEF U
<1>19. CASE ExecutorUnavailable
  <2>1. Tells(db, complete(db, "failed", "executor_unavailable"), U, job)
    BY <1>2, <1>3, <1>19, CompleteKeeps DEF ExecutorUnavailable, Seal, Terminal, Error
  <2> QED BY <1>5, <1>19, <2>1 DEF ExecutorUnavailable
<1>20. CASE ReconcileTurn
  <2>1. CASE deployed = "other"
    BY <1>9, <1>15, <1>20, <2>1 DEF ReconcileTurn, Error
  <2>2. CASE deployed # "other" /\ db.phase = "checkpointing"
    <3>1. TickTells(Stage("checkpoint"), db, job[g]) /\ Stage("checkpoint").turn = g
      BY <1>13, <2>2 DEF Stages
    <3> QED BY <1>9, <1>20, <2>2, <3>1 DEF ReconcileTurn
  <2>3. CASE deployed # "other" /\ db.phase # "checkpointing" /\ late
    BY <1>9, <1>15, <1>20, <2>3 DEF ReconcileTurn, Error
  <2>4. CASE deployed # "other" /\ db.phase = "starting" /\ ~late
    <3>1. TickTells(Stage("start"), db, job[g]) /\ Stage("start").turn = g
      BY <1>13, <2>4 DEF Stages
    <3> QED BY <1>9, <1>20, <2>4, <3>1 DEF ReconcileTurn
  <2>5. CASE deployed # "other" /\ db.phase = "running" /\ ~late
    <3>1. TickTells(Stage("round"), db, job[g]) /\ Stage("round").turn = g
      BY <1>13, <2>5 DEF Stages
    <3> QED BY <1>9, <1>20, <2>5, <3>1 DEF ReconcileTurn
  <2> QED BY <1>2, <2>1, <2>2, <2>3, <2>4, <2>5 DEF ActivePhase
<1>21. CASE StartAnswered
  <2> DEFINE j == Started(job[g], db.input)
             K == [job EXCEPT ![g] = j]
  <2>1. j \in JobType
    BY <1>2, JobTypes DEF StoreType
  <2>2. K \in [Turn -> JobType] /\ K[g] = j
    BY <1>2, <2>1
  <2>3. db.phase = "starting"
    BY <1>3, <1>21 DEF Phased, At, StartAnswered
  <2>4. Rec(db, U, K) /\ K[g].state # "none" /\ \A h \in Turn : Sound(K[h])
    BY <1>2, <1>3, <1>4, <2>2, <2>3, RecStarts
  <2>5. tick' = Stage("started") /\ db' = db /\ job' = K
    BY <1>21 DEF StartAnswered, DriverCall
  <2> HIDE DEF K, j
  <2>6. TickTells(Stage("started"), db, K[g]) /\ Stage("started").turn = g
    BY <1>13, <2>3, <2>4 DEF Stages
  <2> QED BY <2>4, <2>5, <2>6 DEF Told, U
<1>22. CASE StartRejected
  BY <1>9, <1>15, <1>22 DEF StartRejected, Error
<1>23. CASE StartUnanswered
  <2> DEFINE j == Started(job[g], db.input)
             K == [job EXCEPT ![g] = j]
  <2>1. j \in JobType
    BY <1>2, JobTypes DEF StoreType
  <2>2. K \in [Turn -> JobType] /\ K[g] = j
    BY <1>2, <2>1
  <2>3. db.phase = "starting"
    BY <1>3, <1>23 DEF Phased, At, StartUnanswered
  <2>4. Rec(db, U, K) /\ K[g].state # "none" /\ \A h \in Turn : Sound(K[h])
    BY <1>2, <1>3, <1>4, <2>2, <2>3, RecStarts
  <2>5. CASE Unanswered(job[g])
    BY <1>2, <1>3, <1>12, <1>16, <2>5
  <2>6. CASE Unanswered(j)
    <3>1. tick' = NoTick /\ db' = db /\ job' = K
      BY <2>6 DEF Unanswered, EndTick
    <3> HIDE DEF K, j
    <3> QED BY <2>4, <3>1, NoTickGood DEF Told, TickTells, U
  <2> QED BY <1>23, <2>5, <2>6 DEF StartUnanswered
<1>24. CASE MarkRunning
  <2>1. db.phase = "starting" /\ job[g].state # "none"
    BY <1>3, <1>24 DEF Phased, Heard, At, MarkRunning
  <2>2. Tells(db, markRunning(db), U, job)
    BY <1>2, <1>3, <2>1, MarkRunningKeeps
  <2>3. markRunning(db).phase = "running"
    BY <1>2, MarkRunningEffect
  <2>4. TickTells(Stage("round"), markRunning(db), job[g]) /\ Stage("round").turn = g
    BY <1>13, <2>3 DEF Stages
  <2> QED BY <1>7, <1>24, <2>2, <2>4 DEF MarkRunning
<1>25. CASE Round
  <2> DEFINE t == [Stage("deliver") EXCEPT
                     !.cancel = g \in db.cancellation,
                     !.commands = IF g \in db.cancellation THEN <<Cancel(g)>>
                                  ELSE FirstPage(db.commands)]
  <2>1. TickTells(t, db, job[g])
    <3>1. db.commands \in Seq(Command) /\ Once(db, U) /\ db.phase = "running"
      BY <1>2, <1>3, <1>18, <1>25 DEF Rec, StoreType, Round, At
    <3> QED BY <1>2, <3>1, DeliverTells DEF Stage
  <2>2. t.turn = g
    BY <1>25, RoundTick DEF Round
  <2>3. TickTells(StopAndFail("request_timeout"), db, job[g]) /\ StopAndFail("request_timeout").turn = g
    BY <1>15 DEF Error
  <2>4. /\ tick' = IF late THEN StopAndFail("request_timeout") ELSE t
        /\ db' = db /\ job' = job
    BY <1>2, <1>25 DEF Round, Goto
  <2> HIDE DEF t
  <2>5. CASE late
    BY <1>6, <1>8, <2>3, <2>4, <2>5
  <2>6. CASE ~late
    BY <1>6, <1>8, <2>1, <2>2, <2>4, <2>6
  <2> QED BY <2>5, <2>6
<1>26. CASE DeliverCancel
  <2>1. tick.commands # <<>> /\ tick.cancel /\ db.phase = "running"
    BY <1>18, <1>26 DEF DeliverCancel, Delivering, At
  <2>2. PICK j \in {job[g]} \cup (IF Takes(job[g], Operation) THEN {Apply(job[g], Operation)} ELSE {}) :
          DriverCall(Rest("deliver"), j)
    BY <1>26 DEF DeliverCancel
  <2>3. j \in JobType /\ Later(job[g], j) /\ Sound(j)
    BY <1>2, <1>3, <1>16, <1>17, <2>1, <2>2
  <2>4. TickTells(Rest("deliver"), db, j)
    BY <1>2, <1>3, <2>1, RestTells DEF Rest
  <2> QED BY <1>11, <1>18, <2>1, <2>2, <2>3, <2>4
<1>27. CASE DeliverAnswered
  <2>1. /\ tick.commands # <<>> /\ ~tick.cancel /\ db.phase = "running"
        /\ Takes(job[g], Operation)
        /\ DriverCall([tick EXCEPT !.pc = "discard"], Apply(job[g], Operation))
    BY <1>18, <1>27 DEF DeliverAnswered, Delivering, At
  <2> DEFINE j == Apply(job[g], Operation)
  <2>2. j \in JobType /\ Later(job[g], j) /\ Sound(j)
    BY <1>17, <2>1
  <2>3. IsSteer(Head(tick.commands)) => Head(tick.commands).arg \in j.got
    BY <1>17, <2>1
  <2> HIDE DEF j
  <2>4. TickTells([tick EXCEPT !.pc = "discard"], db, j)
    BY <1>2, <1>3, <2>1, <2>3, AnswerTells
  <2> QED BY <1>11, <1>18, <2>1, <2>2, <2>4 DEF j
<1>28. CASE Discard
  <2>1. /\ tick.commands # <<>> /\ ~tick.cancel /\ db.phase = "running"
        /\ Transact(Rest("deliver"), discard(db, Operation))
    BY <1>1, <1>18, <1>28 DEF Discard, At, SessionInv, TickShape
  <2>2. Operation \in Command /\ Operation = Head(tick.commands)
    BY <1>17, <2>1
  <2>3. IsSteer(Operation) => Operation.arg \in job[db.execution].got
    BY <1>2, <1>3, <1>28, <2>2 DEF Heard, Discard, At
  <2>4. Tells(db, discard(db, Operation), U, job)
    BY <1>2, <1>3, <2>2, <2>3, DiscardKeeps
  <2> DEFINE r == discard(db, Operation)
  <2>5. r.phase = db.phase /\ r.execution = db.execution /\ r.cancellation = db.cancellation
    BY <1>2, DiscardEffect
  <2>6. \A y \in Elements(db.commands) : y # Head(tick.commands) => y \in Elements(r.commands)
    BY <1>2, <2>2, DiscardLeaves
  <2> HIDE DEF r
  <2>7. TickTells(Rest("deliver"), r, job[g])
    BY <1>2, <1>3, <2>1, <2>5, <2>6, RestTells DEF Rest
  <2> QED BY <1>7, <1>18, <2>1, <2>4, <2>7 DEF r
<1>29. CASE DeliverRefused
  <2>1. tick.commands # <<>> /\ ~tick.cancel /\ db.phase = "running"
    BY <1>18, <1>29 DEF DeliverRefused, Delivering, At
  <2>2. TickTells([tick EXCEPT !.pc = "reject"], db, job[g])
    BY <1>2, <1>3, <2>1, AnswerTells
  <2> QED BY <1>9, <1>18, <1>29, <2>1, <2>2 DEF DeliverRefused
<1>30. CASE Reject
  <2>1. /\ tick.commands # <<>> /\ ~tick.cancel /\ db.phase = "running"
        /\ Transact(Rest("deliver"), reject(db, Operation))
    BY <1>1, <1>18, <1>30 DEF Reject, At, SessionInv, TickShape
  <2>2. Operation \in Command /\ Operation = Head(tick.commands)
    BY <1>17, <2>1
  <2>3. IsSteer(Operation) => Operation \in Elements(db.commands)
    <3>1. Queued(tick.commands, db)
      BY <1>3, <2>1 DEF Sends
    <3>2. Operation = tick.commands[1] /\ 1 \in 1..Len(tick.commands)
      <4>1. tick.commands \in Seq(Operations)
        BY <1>2 DEF TickType, Operations
      <4> QED BY <2>1, <2>2, <4>1, HeadTailProperties, LenProperties, EmptySeq
    <3> QED BY <3>1, <3>2 DEF Queued
  <2>4. Tells(db, reject(db, Operation), U, job)
    BY <1>2, <1>3, <2>2, <2>3, RejectKeeps
  <2> DEFINE r == reject(db, Operation)
  <2>5. r.phase = db.phase /\ r.execution = db.execution /\ r.cancellation = db.cancellation
    <3>1. CASE IsSteer(Operation)
      BY <1>2, <2>2, <3>1, SteerIs, RefusedSteerEffect DEF IsSteer
    <3>2. CASE ~IsSteer(Operation)
      <4>1. r = discard(db, Operation)
        BY <3>2 DEF reject, IsSteer
      <4> HIDE DEF r
      <4> QED BY <1>2, <4>1, DiscardEffect
    <3> QED BY <3>1, <3>2
  <2>6. \A y \in Elements(db.commands) : y # Head(tick.commands) => y \in Elements(r.commands)
    BY <1>2, <2>2, DiscardLeaves
  <2> HIDE DEF r
  <2>7. TickTells(Rest("deliver"), r, job[g])
    BY <1>2, <1>3, <2>1, <2>5, <2>6, RestTells DEF Rest
  <2> QED BY <1>7, <1>18, <2>1, <2>4, <2>7 DEF r
<1>31. CASE DeliverUnanswered
  <2>1. tick.commands # <<>> /\ ~tick.cancel /\ tick.pc = "deliver" /\ db.phase = "running"
    BY <1>18, <1>31 DEF DeliverUnanswered, Delivering, At
  <2> DEFINE t == [tick EXCEPT !.commands = <<>>, !.retry = TRUE]
  <2>2. PICK j \in {job[g]} \cup (IF Takes(job[g], Operation) THEN {Apply(job[g], Operation)} ELSE {}) :
          DriverCall(t, j)
    BY <1>31 DEF DeliverUnanswered
  <2>3. j \in JobType /\ Later(job[g], j) /\ Sound(j)
    BY <1>2, <1>3, <1>16, <1>17, <2>1, <2>2
  <2>4. TickTells(t, db, j) /\ t.turn = g
    BY <1>2, <2>1, RetryTells DEF TickType
  <2> HIDE DEF t
  <2> QED BY <1>11, <2>2, <2>3, <2>4
<1>32. CASE PollAnswered
  <2>1. PICK b \in Batches(job[g]) : Local([tick EXCEPT !.pc = "accept", !.batch = b])
    BY <1>32 DEF PollAnswered
  <2> DEFINE t == [tick EXCEPT !.pc = "accept", !.batch = b]
  <2>2. TickTells(t, db, job[g])
    <3>1. db.phase = "running"
      BY <1>18, <1>32 DEF PollAnswered, Polling, At
    <3> QED BY <1>2, <1>3, <2>1, <3>1, PollTells
  <2>3. t.turn = g
    BY <1>2 DEF TickType
  <2> HIDE DEF t
  <2> QED BY <1>9, <2>1, <2>2, <2>3 DEF t
<1>33. CASE PollUnanswered
  BY <1>2, <1>3, <1>12, <1>16, <1>33 DEF PollUnanswered
<1>34. CASE RejectBatch
  <2>1. TickTells(StopAndFail("invalid_runtime_cursor"), db, job[g])
        /\ StopAndFail("invalid_runtime_cursor").turn = g
    BY <1>15 DEF Error
  <2>2. tick' = StopAndFail("invalid_runtime_cursor") /\ db' = db /\ job' = job
    BY <1>2, <1>34 DEF RejectBatch, Goto
  <2> QED BY <1>6, <1>8, <2>1, <2>2
<1>35. ASSUME Accepting
       PROVE  /\ Tells(db, Accepted, U, job) /\ Accepted.phase \in {"running", "checkpointing"}
              /\ tick.batch.status = "cancelled" => Over(job[g])
  <2>1. tick.pc = "accept" /\ ~Gap(db, tick.batch) /\ tick.batch \in Batch
    BY <1>2, <1>35 DEF Accepting, At, TickType
  <2>2. db.phase = "running" /\ PageOf(tick.batch, job[g].log)
        /\ (tick.batch.status = "cancelled" => Over(job[g]))
        /\ (tick.cancel => db.execution \in db.cancellation)
    BY <1>3, <2>1 DEF Phased, Heard, Sends
  <2> DEFINE b == tick.batch
             x == tick.cancel
  <2> HIDE DEF b, x
  <2>3. Tells(db, acceptBatch(db, b, x), U, job) /\ acceptBatch(db, b, x).phase \in {db.phase, "checkpointing"}
    <3>1. b \in Batch /\ ~Gap(db, b) /\ PageOf(b, job[db.execution].log)
      BY <1>2, <2>1, <2>2 DEF b
    <3>2. x => db.execution \in db.cancellation
      BY <2>2 DEF x
    <3> QED BY <1>2, <1>3, <2>2, <3>1, <3>2, AcceptBatchKeeps, AcceptBatchPhase
  <2> QED BY <2>2, <2>3 DEF Accepted, b, x
<1>36. CASE AcceptCompletion
  <2>1. Accepting /\ Accepted.phase = "checkpointing" /\ Transact(Stage("checkpoint"), Accepted)
    BY <1>36 DEF AcceptCompletion
  <2>2. TickTells(Stage("checkpoint"), Accepted, job[g]) /\ Stage("checkpoint").turn = g
    BY <1>13, <2>1 DEF Stages
  <2> QED BY <1>7, <1>35, <2>1, <2>2
<1>37. CASE AcceptFailure
  <2>1. PICK e \in Error : Accepting /\ Transact(StopAndFail(e), Accepted)
    BY <1>37 DEF AcceptFailure, Error
  <2> QED BY <1>7, <1>15, <1>35, <2>1
<1>38. CASE AcceptCancellation
  <2>1. Accepting /\ tick.batch.status = "cancelled" /\ Transact(StopWith("cancelled", "none"), Accepted)
    BY <1>38 DEF AcceptCancellation
  <2>2. TickTells(StopWith("cancelled", "none"), Accepted, job[g]) /\ StopWith("cancelled", "none").turn = g
    BY <1>14, <1>35, <2>1 DEF Error
  <2> QED BY <1>7, <1>35, <2>1, <2>2
<1>39. CASE AcceptAndRepeat
  <2>1. Accepting /\ Accepted.phase # "checkpointing" /\ Transact(Stage("round"), Accepted)
    BY <1>39 DEF AcceptAndRepeat, StillOpen
  <2>2. TickTells(Stage("round"), Accepted, job[g]) /\ Stage("round").turn = g
    BY <1>13, <1>35, <2>1 DEF Stages
  <2> QED BY <1>7, <1>35, <2>1, <2>2
<1>40. CASE AcceptAndEnd
  <2>1. db' = Accepted /\ tick' = NoTick /\ job' = job /\ Tells(db, Accepted, U, job)
    BY <1>2, <1>35, <1>40 DEF AcceptAndEnd, StillOpen, EndTick
  <2>2. Rec(Accepted, Sent(Accepted.accepted), job)
    BY <2>1 DEF Tells, U
  <2> QED BY <1>4, <2>1, <2>2, NoTickGood DEF Told, TickTells
<1>41. CASE StopAnswered
  <2> DEFINE e == tick.error
             t == [tick EXCEPT !.pc = "finish", !.error = e]
             j == Stopped(job[g])
  <2>1. tick.pc = "stop" /\ DriverCall(t, j)
    <3>1. t = [tick EXCEPT !.pc = "finish"]
      BY <1>2 DEF TickType
    <3> QED BY <1>41, <3>1 DEF StopAnswered, At
  <2>2. j \in JobType /\ Later(job[g], j) /\ Sound(j) /\ j.state # "live"
    BY <1>16
  <2>3. tick.outcome = "cancelled" => Over(j)
    BY <1>3, <2>1, <2>2 DEF Heard, Over, Later
  <2> HIDE DEF e, j
  <2>4. TickTells(t, db, j)
    BY <1>2, <1>3, <2>1, <2>2, <2>3, FinishTells
  <2>5. t.turn = g
    BY <1>2 DEF TickType
  <2> HIDE DEF t
  <2> QED BY <1>11, <2>1, <2>2, <2>4, <2>5
<1>42. CASE StopUnanswered
  <2>1. PICK j \in {job[g], Stopped(job[g])} : Unanswered(j)
    BY <1>42 DEF StopUnanswered
  <2> QED BY <1>2, <1>3, <1>12, <1>16, <2>1
<1>43. CASE StopUnknown
  <2> DEFINE e == IF tick.outcome = "failed" THEN "outcome_unknown" ELSE tick.error
             t == [tick EXCEPT !.pc = "finish", !.error = e]
  <2>1. PICK j \in {job[g], Stopped(job[g])} : DriverCall(t, j)
    BY <1>43 DEF StopUnknown
  <2>2. tick.pc = "stop" /\ tick.outcome \in {"failed", "cancelled"}
    BY <1>43 DEF StopUnknown, At, SessionInv, TickShape
  <2>3. j \in JobType /\ Later(job[g], j) /\ Sound(j)
    BY <1>2, <1>3, <1>16, <2>1
  <2>4. tick.outcome = "cancelled" => Over(j)
    BY <1>3, <2>2, <2>3 DEF Heard, Over, Later
  <2>5. j.state # "live" \/ e = "outcome_unknown"
    BY <2>2, <2>4 DEF Over
  <2> HIDE DEF e
  <2>6. TickTells(t, db, j)
    BY <1>2, <1>3, <2>2, <2>4, <2>5, FinishTells
  <2>7. t.turn = g
    BY <1>2 DEF TickType
  <2> HIDE DEF t
  <2> QED BY <1>11, <2>1, <2>3, <2>6, <2>7
<1>44. CASE Finish
  <2>1. tick.outcome \in {"failed", "cancelled"} /\ tick.error \in Error
    BY <1>2, <1>44 DEF Finish, At, SessionInv, TickShape, TickType
  <2>2. Seal(complete(db, tick.outcome, tick.error)) /\ (db.queued # <<>> => db.generation < MaxTurn)
    BY <1>44 DEF Finish, Seal
  <2>3. Tells(db, complete(db, tick.outcome, tick.error), U, job)
    BY <1>2, <1>3, <2>1, <2>2, CompleteKeeps DEF Terminal
  <2> QED BY <1>5, <2>2, <2>3
<1>45. CASE CheckpointAnswered
  <2>1. tick.pc = "checkpoint" /\ (job[g].saved \/ job[g].state = "completed")
    BY <1>45 DEF CheckpointAnswered, At
  <2> DEFINE j == [job[g] EXCEPT !.saved = TRUE]
  <2>2. j \in JobType /\ Later(job[g], j) /\ Sound(j) /\ j.saved
    <3>1. j \in JobType
      BY <1>2, JobTypes
    <3>2. j.saved
      BY <1>2 DEF JobType
    <3> QED BY <1>2, <1>3, <2>1, <3>1, <3>2, JobMoves
  <2>3. DriverCall(Stage("commit"), j)
    BY <1>45 DEF CheckpointAnswered
  <2> HIDE DEF j
  <2>4. TickTells(Stage("commit"), db, j) /\ Stage("commit").turn = g
    <3>1. db.phase = "checkpointing"
      BY <1>3, <2>1 DEF Phased
    <3> QED BY <1>13, <2>2, <3>1 DEF Stages
  <2> QED BY <1>11, <2>2, <2>3, <2>4
<1>46. CASE CheckpointRejected
  BY <1>9, <1>15, <1>46 DEF CheckpointRejected, Error
<1>47. CASE CheckpointUnanswered
  <2>1. PICK x \in {job[g].saved, job[g].saved \/ job[g].state = "completed"} :
           LET j == [job[g] EXCEPT !.saved = x] IN
           IF late THEN DriverCall(StopAndFail("checkpoint_unavailable"), j) ELSE Unanswered(j)
    BY <1>47 DEF CheckpointUnanswered
  <2>2. x \in BOOLEAN /\ (job[g].saved => x) /\ (x => job[g].saved \/ job[g].state = "completed")
    BY <1>2, <2>1 DEF JobType
  <2> DEFINE j == [job[g] EXCEPT !.saved = x]
  <2>3. j \in JobType /\ Later(job[g], j) /\ Sound(j)
    BY <1>2, <1>3, <2>2, JobTypes, SavedMoves
  <2>4. DriverCall(StopAndFail("checkpoint_unavailable"), j) \/ Unanswered(j)
    BY <2>1
  <2> HIDE DEF j
  <2>5. TickTells(StopAndFail("checkpoint_unavailable"), db, j)
        /\ StopAndFail("checkpoint_unavailable").turn = g
    BY <1>15 DEF Error
  <2> QED BY <1>11, <1>12, <2>3, <2>4, <2>5
<1>48. CASE CommitCheckpoint
  <2>1. job[g].saved /\ Seal(commitCheckpoint(db)) /\ (db.queued # <<>> => db.generation < MaxTurn)
    BY <1>3, <1>48 DEF CommitCheckpoint, Heard, At, Seal
  <2>2. Tells(db, commitCheckpoint(db), U, job)
    BY <1>2, <1>3, <2>1, CommitKeeps
  <2> QED BY <1>5, <2>1, <2>2
<1> QED
  BY <1>19, <1>20, <1>21, <1>22, <1>23, <1>24, <1>25, <1>26, <1>27, <1>28, <1>29, <1>30,
     <1>31, <1>32, <1>33, <1>34, <1>36, <1>37, <1>38, <1>39, <1>40, <1>41, <1>42, <1>43,
     <1>44, <1>45, <1>46, <1>47, <1>48 DEF Reconciler

\* A running tick and an accepted request.
LEMMA SubmitTold ==
  ASSUME SessionInv, Told, NEW r \in Request, Submit(r)
  PROVE  Told'
<1>1. tick' = tick /\ job' = job /\ job \in [Turn -> JobType]
  BY DEF Submit, SessionInv, TypeOK
<1>2. CASE Accepts(db, r)
  <2> DEFINE q == acceptInput(db, r)
  <2>1. db' = q
    BY <1>2 DEF Submit
  <2>2. Rec(q, Sent(q.accepted), job) /\ Grows(db, q)
    BY <1>1, <1>2, AcceptInputKeeps DEF Told, Accepts, Submit
  <2> HIDE DEF q
  <2>3. TickTells(tick, q, job[tick.turn])
    <3>1. CASE tick.pc = "idle"
      BY <3>1 DEF TickTells
    <3>2. CASE tick.pc # "idle"
      <4>1. Active(db)
        BY <3>2, Running DEF At
      <4> QED BY <2>2, <3>2, <4>1, TickGrows DEF Told, TickTells
    <3> QED BY <3>1, <3>2
  <2> QED BY <1>1, <2>1, <2>2, <2>3 DEF Told
<1>3. CASE ~Accepts(db, r)
  <2>1. db' = db
    BY <1>3 DEF Submit
  <2> QED BY <1>1, <2>1 DEF Told
<1> QED BY <1>2, <1>3

\* Deletion, purge and environment reports.
LEMMA OwnerTold ==
  ASSUME SessionInv, Told, Delete \/ Purge \/ Environment
  PROVE  Told'
<1> DEFINE U == Sent(db.accepted)
<1>1. job \in [Turn -> JobType] /\ (~Active(db) => tick.pc = "idle") /\ Rec(db, U, job)
      /\ Good(db) /\ db \in StoreType /\ \A g \in Turn : Sound(job[g])
  BY Running DEF SessionInv, TypeOK, At, Told, Rec, Good
<1>2. CASE Delete
  <2> DEFINE K == [g \in Turn |-> Stopped(job[g])]
             q == markDeleted(db)
  <2>1. ~Active(db) /\ db.life = "live" /\ db' = q /\ tick' = tick /\ (job' = job \/ job' = K)
    BY <1>2 DEF Delete
  <2>2. Rec(q, Sent(q.accepted), job)
    <3>1. Tells(db, q, U, job)
      BY <1>1, <2>1, DeletedKeeps
    <3> QED BY <3>1 DEF Tells
  <2>3. Rec(q, Sent(q.accepted), K) /\ \A g \in Turn : Sound(K[g])
    <3>1. \A g \in Turn : job[g] \in JobType
      BY <1>1
    <3>2. \A g \in Turn : Stopped(job[g]) \in JobType /\ Later(job[g], Stopped(job[g])) /\ Sound(Stopped(job[g]))
      BY <1>1, <3>1, JobMoves, JobTypes
    <3>3. K \in [Turn -> JobType] /\ Laters(job, K) /\ \A g \in Turn : Sound(K[g])
      BY <3>2 DEF Laters
    <3> HIDE DEF K, q
    <3> QED BY <1>1, <2>2, <3>3, RecLater
  <2> HIDE DEF K, q
  <2>4. tick'.pc = "idle"
    BY <1>1, <2>1
  <2> QED BY <1>1, <2>1, <2>2, <2>3, <2>4 DEF Told, TickTells
<1>3. CASE Purge
  <2> DEFINE q == EmptyStore("purged")
  <2>1. db.life = "deleted" /\ db' = q /\ tick' = tick /\ job' = job
    BY <1>3 DEF Purge, purgeRecords
  <2>2. Rec(q, Sent(q.accepted), job)
    BY <1>1, EmptyKeeps
  <2>3. tick.pc = "idle"
    BY <1>1, <2>1 DEF Good, OpenTurn
  <2> HIDE DEF q
  <2> QED BY <1>1, <2>1, <2>2, <2>3 DEF Told, TickTells
<1>4. CASE Environment
  <2>1. PICK s \in EnvReport : EnvironmentStatus(s)
    BY <1>4 DEF Environment
  <2> DEFINE q == applyEnvironmentStatus(db, s)
  <2>2. s \in EnvStatus /\ db' = q /\ tick' = tick /\ job' = job
    BY <2>1, SessionAssumption DEF EnvironmentStatus
  <2>3. Tells(db, q, U, job)
    <3>1. CASE s = "failed" /\ ~Active(db)
      BY <1>1, <3>1, FailedSetupKeeps
    <3>2. CASE s # "failed" \/ Active(db)
      BY <1>1, <2>2, <3>2, EnvironmentKeeps
    <3> QED BY <3>1, <3>2
  <2>4. TickTells(tick, q, job[tick.turn])
    <3>1. CASE tick.pc = "idle"
      BY <3>1 DEF TickTells
    <3>2. CASE tick.pc # "idle"
      <4>1. Active(db)
        BY <1>1, <3>2
      <4>2. Grows(db, q)
        BY <1>1, <4>1, EnvironmentEffect DEF Grows
      <4> HIDE DEF q
      <4> QED BY <3>2, <4>1, <4>2, TickGrows DEF Told, TickTells
    <3> QED BY <3>1, <3>2
  <2> HIDE DEF q
  <2>5. Rec(q, Sent(q.accepted), job)
    BY <2>3 DEF Tells
  <2> QED BY <1>1, <2>2, <2>4, <2>5 DEF Told
<1> QED BY <1>2, <1>3, <1>4

\* The platform and the runtime.
LEMMA WorldTold ==
  ASSUME SessionInv, Told, Platform \/ Runtime
  PROVE  Told'
<1>1. job \in [Turn -> JobType] /\ tick \in TickType /\ (~At("idle") => tick.turn \in Turn)
  BY DEF SessionInv, TypeOK, TickShape
<1>2. CASE AlarmFires
  <2> DEFINE t == [NoTick EXCEPT !.pc = "turn", !.turn = db.execution]
  <2>1. db' = db /\ job' = job /\ (tick' = tick \/ tick' = t)
    BY <1>2 DEF AlarmFires
  <2>2. ASSUME NEW j PROVE TickTells(t, db, j)
    <3>1. t.pc = "turn" /\ ~t.cancel /\ t.commands = <<>>
      BY DEF NoTick
    <3> HIDE DEF t
    <3>2. Sends(t, db) /\ Phased(t, db) /\ Heard(t, j)
      BY <3>1, QuietSends DEF Phased, Heard
    <3> QED BY <3>2 DEF TickTells
  <2> HIDE DEF t
  <2> QED BY <2>1, <2>2 DEF Told
<1>3. CASE DeadlinePasses
  BY <1>3 DEF DeadlinePasses, Told
<1>4. CASE Evict
  BY <1>4, NoTickGood DEF Evict, Told, TickTells
<1>5. CASE Runtime
  <2>1. PICK g \in Turn :
          \E j \in JobType : JobStep(g, j) /\ Later(job[g], j) /\ Sound(j)
    <3>1. PICK g \in Turn :
            \/ \E e \in Event : JobEmits(g, e)
            \/ JobCompletes(g) \/ JobCancelled(g) \/ JobFails(g) \/ JobVanishes(g)
      BY <1>5 DEF Runtime
    <3>2. job[g] \in JobType /\ Sound(job[g])
      BY <1>1 DEF Told
    <3>3. CASE \E e \in Event : JobEmits(g, e)
      <4>1. PICK e \in Event : JobEmits(g, e)
        BY <3>3
      <4> DEFINE j == [job[g] EXCEPT !.log = Append(@, e)]
      <4>2. JobStep(g, j) /\ job[g].state = "live"
        BY <4>1 DEF JobEmits
      <4>3. j \in JobType /\ Later(job[g], j) /\ Sound(j)
        BY <3>2, <4>2, JobTypes, JobMoves
      <4> HIDE DEF j
      <4> QED BY <4>2, <4>3
    <3>4. CASE JobCompletes(g) \/ JobCancelled(g) \/ JobFails(g)
      <4>1. PICK s \in {"completed", "cancelled", "failed"} :
              job[g].state = "live" /\ JobStep(g, [job[g] EXCEPT !.state = s])
        BY <3>4 DEF JobCompletes, JobCancelled, JobFails
      <4> DEFINE j == [job[g] EXCEPT !.state = s]
      <4>2. j \in JobType /\ Later(job[g], j) /\ Sound(j)
        BY <3>2, <4>1, JobTypes, JobMoves
      <4> HIDE DEF j
      <4> QED BY <4>1, <4>2 DEF j
    <3>5. CASE JobVanishes(g)
      <4> DEFINE j == [job[g] EXCEPT !.state = "gone"]
      <4>1. job[g].state # "none" /\ JobStep(g, j)
        BY <3>5 DEF JobVanishes
      <4>2. j \in JobType /\ Later(job[g], j) /\ Sound(j)
        BY <3>2, <4>1, JobTypes, JobMoves
      <4> HIDE DEF j
      <4> QED BY <4>1, <4>2
    <3> QED BY <3>1, <3>3, <3>4, <3>5
  <2>2. PICK j \in JobType : JobStep(g, j) /\ Later(job[g], j) /\ Sound(j)
    BY <2>1
  <2> DEFINE K == [job EXCEPT ![g] = j]
  <2>3. db' = db /\ tick' = tick /\ job' = K
    BY <2>2 DEF JobStep
  <2>4. K \in [Turn -> JobType] /\ Laters(job, K) /\ \A h \in Turn : Sound(K[h])
    <3>1. K \in [Turn -> JobType]
      BY <1>1
    <3> QED BY <1>1, <2>2, <3>1, OneJob DEF Told
  <2> HIDE DEF K
  <2>5. Rec(db, Sent(db.accepted), K)
    BY <1>1, <2>4, RecLater DEF Told
  <2>6. TickTells(tick, db, K[tick.turn])
    <3>1. CASE tick.pc = "idle"
      BY <3>1 DEF TickTells
    <3>2. CASE tick.pc # "idle"
      <4>1. tick.turn \in Turn /\ tick.batch \in Batch
        BY <1>1, <3>2 DEF At, TickType
      <4>2. job[tick.turn] \in JobType /\ K[tick.turn] \in JobType /\ Later(job[tick.turn], K[tick.turn])
        BY <1>1, <2>4, <4>1 DEF Laters
      <4>3. Phased(tick, db) /\ Sends(tick, db) /\ Heard(tick, job[tick.turn])
        BY <3>2 DEF Told, TickTells
      <4> QED BY <4>1, <4>2, <4>3, HeardLater DEF TickTells
    <3> QED BY <3>1, <3>2
  <2> QED BY <2>3, <2>4, <2>5, <2>6 DEF Told
<1> QED BY <1>2, <1>3, <1>4, <1>5 DEF Platform

\* Every step keeps the second invariant.
LEMMA ToldNext == SessionInv /\ Told /\ [Next]_vars => Told'
<1> SUFFICES ASSUME SessionInv, Told, [Next]_vars PROVE Told'
  OBVIOUS
<1>1. CASE Client
  BY <1>1, SubmitTold, OwnerTold DEF Client
<1>2. CASE Environment
  BY <1>2, OwnerTold
<1>3. CASE Platform \/ Runtime
  BY <1>3, WorldTold
<1>4. CASE Reconciler
  BY <1>4, ReconcilerTold
<1>5. CASE UNCHANGED vars
  BY <1>5 DEF vars, Told
<1> QED BY <1>1, <1>2, <1>3, <1>4, <1>5 DEF Next

\* What clients are told is true in every state.
THEOREM ToldAlways == Spec => []Told
<1>1. Init => SessionInv /\ Told
  BY InvInit, ToldInit
<1>2. (SessionInv /\ Told) /\ [Next]_vars => (SessionInv /\ Told)'
  BY InvNext, ToldNext
<1> QED BY <1>1, <1>2, PTL DEF Spec

\* session.status and the turn's status tell what the record holds.
THEOREM StatusIsTruthful == Spec => []StatusTruthful
<1>1. Told => StatusTruthful
  BY DEF Told, Rec, Truth, StatusTruthful
<1> QED BY <1>1, ToldAlways, PTL

\* A message is in at most one transcript.
THEOREM InputShownOnce == Spec => []InputOnce
<1>1. Told => InputOnce
  <2> SUFFICES ASSUME Told, NEW i \in Input
               PROVE  /\ Cardinality({g \in Turn : i \in db.items[g]}) <= 1
                      /\ i \in Elements(db.queued) => \A g \in Turn : i \notin db.items[g]
    BY DEF InputOnce
  <2>1. Once(db, Sent(db.accepted))
    BY DEF Told, Rec
  <2> DEFINE G == {g \in Turn : i \in db.items[g]}
  <2>2. Cardinality(G) <= 1
    <3>1. CASE G = {}
      BY <3>1, FS_EmptySet
    <3>2. CASE G # {}
      <4>1. PICK g \in Turn : i \in db.items[g]
        BY <3>2
      <4>2. G = {g}
        BY <2>1, <4>1 DEF Once
      <4> HIDE DEF G
      <4>3. Cardinality(G) = 1
        BY <4>2, FS_Singleton
      <4> QED BY <4>3
    <3> QED BY <3>1, <3>2
  <2>3. i \in Elements(db.queued) => \A g \in Turn : i \notin db.items[g]
    BY <2>1 DEF Once, Elements
  <2> QED BY <2>2, <2>3
<1> QED BY <1>1, ToldAlways, PTL

\* The events of a turn are its job's, in order, each once.
THEOREM EventsKeepOrder == Spec => []EventsInOrder
<1>1. SessionInv /\ Told => EventsInOrder
  <2> SUFFICES ASSUME SessionInv, Told, NEW g \in Turn
               PROVE  /\ Len(db.shown[g]) <= Len(job[g].log)
                      /\ db.shown[g] = SubSeq(job[g].log, 1, Len(db.shown[g]))
                      /\ g = db.execution => db.cursor = Len(db.shown[g])
    BY DEF EventsInOrder
  <2> DEFINE s == db.shown[g]
             l == job[g].log
  <2>1. s \in Seq(Event) /\ l \in Seq(Event)
    <3>1. db.shown \in [Turn -> Seq(Event)] /\ job[g] \in JobType
      BY DEF SessionInv, TypeOK, StoreType
    <3> QED BY <3>1 DEF JobType
  <2>2. Prefix(s, l) /\ (g = db.execution => db.cursor = Len(s))
    BY DEF Told, Rec, Logged, Active, Turn
  <2> HIDE DEF s, l
  <2>3. Len(s) \in Nat /\ Len(l) \in Nat /\ Len(s) <= Len(l) /\ \A n \in 1..Len(s) : s[n] = l[n]
    BY <2>1, <2>2, LenProperties DEF Prefix
  <2>4. \A n \in 1..Len(s) : l[n] \in Event
    BY <2>1, <2>3, ElementOfSeq
  <2> DEFINE p == SubSeq(l, 1, Len(s))
  <2>5. p \in Seq(Event) /\ Len(p) = Len(s) /\ \A n \in 1..Len(s) : p[n] = l[n]
    <3>1. /\ p \in Seq(Event) /\ Len(p) = (IF 1 <= Len(s) THEN Len(s) - 1 + 1 ELSE 0)
          /\ \A n \in 1..Len(s) - 1 + 1 : p[n] = l[1 + n - 1]
      BY <2>3, <2>4, SubSeqProperties
    <3>2. \A n \in 1..Len(s) : n \in 1..Len(s) - 1 + 1 /\ 1 + n - 1 = n
      BY <2>3
    <3> HIDE DEF p
    <3> QED BY <2>3, <3>1, <3>2
  <2> HIDE DEF p
  <2>6. s = p
    BY <2>1, <2>3, <2>5, SeqEqual
  <2> QED BY <2>2, <2>3, <2>6 DEF s, l, p
<1> QED BY <1>1, Invariance, ToldAlways, PTL

\* The committed checkpoint is that of the last completed turn, and the harness has it.
THEOREM CheckpointIsLast == Spec => []CheckpointOfLastCompleted
<1>1. SessionInv /\ Told => CheckpointOfLastCompleted
  <2> SUFFICES ASSUME SessionInv, Told, db.life # "purged"
               PROVE  LET done == {g \in Turn : db.turns[g] = "completed"} IN
                      /\ \A g \in done : g <= db.checkpoint
                      /\ db.checkpoint # 0 => db.checkpoint \in done /\ job[db.checkpoint].saved
    BY DEF CheckpointOfLastCompleted
  <2>1. db.checkpoint \in 0..MaxTurn
    BY DEF SessionInv, TypeOK, StoreType
  <2>2. db.checkpoint # 0 => db.checkpoint \in Turn
    BY <2>1, SessionAssumption DEF Turn
  <2> QED BY <2>2 DEF Told, Rec, Saved
<1> QED BY <1>1, Invariance, ToldAlways, PTL

\* How a turn is sealed: its outcome, its error and what runs next.
LEMMA CompleteOutcome ==
  ASSUME NEW d, Good(d), Active(d), NEW s \in Terminal, NEW e \in Error,
         d.queued # <<>> => d.generation < MaxTurn
  PROVE  LET r == complete(d, s, e) IN
         /\ r.turns[d.execution] = s /\ r.error = e
         /\ (d.queued # <<>> /\ s # "cancelled" /\ r.phase # "failed") =>
              r.input = Elements(FirstPage(d.queued))
<1> DEFINE q == sealTurn(d, s, e)
           i == Elements(FirstPage(d.queued))
           b == begin(q, i)
           r == complete(d, s, e)
<1>0. d \in StoreType /\ d.execution \in Turn /\ d.generation \in 0..MaxTurn
      /\ d.execution = d.generation
  BY ActiveFacts
<1>1. q.error = e /\ q.turns[d.execution] = s /\ q.generation = d.generation
  BY <1>0, SealEffect
<1>2. Good(q) /\ ~Active(q) /\ q.life = "live"
  BY SealedFields DEF Moves
<1>3. r = IF d.queued = <<>> \/ s = "cancelled" \/ q.phase = "failed" THEN q ELSE addInput(b, i)
  BY DEF complete
<1>4. CASE d.queued = <<>> \/ s = "cancelled" \/ q.phase = "failed"
  BY <1>1, <1>3, <1>4
<1>5. CASE ~(d.queued = <<>> \/ s = "cancelled" \/ q.phase = "failed")
  <2>1. d.generation < MaxTurn /\ r = addInput(b, i)
    BY <1>3, <1>5
  <2>2. i \in SUBSET Input
    <3>1. d.queued \in Seq(Input)
      BY <1>0 DEF StoreType
    <3>2. Elements(d.queued) \subseteq Input
      BY <3>1, ElementOfSeq DEF Elements
    <3> QED BY <3>1, <3>2, FirstPageElements
  <2> HIDE DEF q, i, r
  <2>3. b.error = q.error /\ b.execution = d.generation + 1 /\ b.input = i
    BY <1>1, <1>2, BeginEffect DEF Good
  <2>4. b \in StoreType /\ b.execution \in Turn /\ b.turns[d.execution] = q.turns[d.execution]
    <3>1. b \in StoreType
          /\ \A h \in Turn : b.turns[h] = IF h = q.generation + 1 THEN "queued" ELSE q.turns[h]
      BY <1>1, <1>2, <2>1, <2>2, BeginFields DEF Good
    <3>2. d.execution # q.generation + 1 /\ d.generation + 1 \in Turn
      BY <1>0, <1>1, <2>1, SessionAssumption DEF Turn
    <3> QED BY <1>0, <2>3, <3>1, <3>2
  <2> HIDE DEF b
  <2>5. r.turns = b.turns /\ r.error = b.error /\ r.input = b.input
    BY <2>1, <2>4, AddInputEffect
  <2> QED BY <1>1, <2>3, <2>4, <2>5 DEF r, i
<1> QED BY <1>4, <1>5

\* The steps that seal a turn.
LEMMA SealingSteps ==
  ASSUME SessionInv, SessionInv', [Next]_vars, NEW g \in Turn, Seals(g)
  PROVE  /\ Good(db) /\ Active(db) /\ g = db.execution /\ g = tick.turn
         /\ \/ ExecutorUnavailable /\ db' = complete(db, "failed", "executor_unavailable")
            \/ Finish /\ db' = complete(db, tick.outcome, tick.error)
            \/ CommitCheckpoint /\ db' = commitCheckpoint(db)
         /\ db.queued # <<>> => db.generation < MaxTurn
<1>1. Good(db) /\ Good(db') /\ Active(db) /\ g = db.execution
  BY DEF SessionInv, TypeOK, OneOpenTurn, QueuesCurrent, Good, Seals, Active, Turn
<1>2. db'.execution # db.execution
  <2> SUFFICES ASSUME db'.execution = g PROVE FALSE
    BY <1>1
  <2>1. OpenTurn(db')
    BY <1>1 DEF Good
  <2>2. db'.turns[g] \in Open
    BY <2>1 DEF OpenTurn, Open
  <2> QED BY <2>2 DEF Seals, Open, Terminal
<1>3. CASE Client
  <2>1. PICK r \in Request : Submit(r)
    BY <1>1, <1>3 DEF Client, Delete, Purge, Good, OpenTurn
  <2>2. CASE Accepts(db, r)
    <3>1. db' = acceptInput(db, r)
      BY <2>1, <2>2 DEF Submit
    <3> QED BY <1>1, <1>2, <2>2, <3>1, AcceptInputMoves DEF Accepts
  <2>3. CASE ~Accepts(db, r)
    BY <1>2, <2>1, <2>3 DEF Submit
  <2> QED BY <2>2, <2>3
<1>4. CASE Environment
  <2>1. PICK s \in EnvReport : EnvironmentStatus(s)
    BY <1>4 DEF Environment
  <2>2. s \in EnvStatus /\ db' = applyEnvironmentStatus(db, s)
    BY <2>1, SessionAssumption DEF EnvironmentStatus
  <2> QED BY <1>1, <1>2, <2>2, EnvironmentGood
<1>5. CASE Platform \/ Runtime
  BY <1>2, <1>5 DEF Platform, AlarmFires, DeadlinePasses, Evict, Runtime, JobEmits, JobCompletes,
                    JobCancelled, JobFails, JobVanishes, JobStep
<1>6. CASE Reconciler
  <2>1. ~At("idle")
    BY <1>6 DEF Reconciler, At, ExecutorUnavailable, ReconcileTurn, StartAnswered, StartRejected,
         StartUnanswered, MarkRunning, Round, DeliverCancel, DeliverAnswered, Discard,
         DeliverRefused, Reject, DeliverUnanswered, Delivering, Polling, PollAnswered,
         PollUnanswered, RejectBatch, Accepting, AcceptCompletion, AcceptFailure,
         AcceptCancellation, StillOpen, AcceptAndRepeat, AcceptAndEnd, StopAnswered,
         StopUnanswered, StopUnknown, Finish, CheckpointAnswered, CheckpointRejected,
         CheckpointUnanswered, CommitCheckpoint
  <2>2. Fenced /\ db.execution = tick.turn /\ tick \in TickType
    BY <2>1, Running
  <2>3. CASE ReconcileTurn \/ StartAnswered \/ StartRejected \/ StartUnanswered
    BY <1>2, <2>3 DEF ReconcileTurn, StartAnswered, StartRejected, StartUnanswered, Local,
                      DriverCall, Unanswered
  <2>4. CASE Round \/ RejectBatch \/ PollAnswered \/ PollUnanswered
    BY <1>2, <2>4 DEF Round, RejectBatch, PollAnswered, PollUnanswered, Local, Unanswered
  <2>5. CASE DeliverCancel \/ DeliverAnswered \/ DeliverRefused \/ DeliverUnanswered
    BY <1>2, <2>5 DEF DeliverCancel, DeliverAnswered, DeliverRefused, DeliverUnanswered, Local,
                      DriverCall
  <2>6. CASE StopAnswered \/ StopUnanswered \/ StopUnknown
    BY <1>2, <2>6 DEF StopAnswered, StopUnanswered, StopUnknown, DriverCall, Unanswered
  <2>7. CASE CheckpointAnswered \/ CheckpointRejected \/ CheckpointUnanswered
    <3>1. UNCHANGED db
      BY <2>7 DEF CheckpointAnswered, CheckpointRejected, CheckpointUnanswered, DriverCall, Local,
                  Unanswered
    <3> QED BY <1>2, <3>1
  <2>8. CASE MarkRunning
    BY <1>1, <1>2, <2>2, <2>8, MarkRunningStays DEF MarkRunning, Transact, Stays
  <2>9. CASE Discard
    BY <1>1, <1>2, <2>2, <2>9, DiscardStays DEF Discard, Transact, Stays
  <2>10. CASE Reject
    <3>1. tick.commands \in Seq(Command) /\ tick.commands # <<>>
      BY <2>10 DEF Reject, At, SessionInv, TickShape
    <3>2. Operation \in Command
      BY <3>1, HeadTailProperties DEF Operation
    <3> QED BY <1>1, <1>2, <2>2, <2>10, <3>2, RejectStays DEF Reject, Transact, Stays
  <2>11. CASE AcceptCompletion \/ AcceptFailure \/ AcceptCancellation \/ AcceptAndRepeat
              \/ AcceptAndEnd
    <3>1. Accepting /\ db' = Accepted
      BY <2>2, <2>11 DEF AcceptCompletion, AcceptFailure, AcceptCancellation, AcceptAndRepeat,
                         AcceptAndEnd, StillOpen, Transact
    <3>2. Stays(db, Accepted)
      BY <1>1, <2>2, <3>1, AcceptBatchStays DEF Accepting, Accepted, TickType
    <3> QED BY <1>2, <3>1, <3>2 DEF Stays
  <2>12. CASE ExecutorUnavailable
    BY <1>1, <2>2, <2>12 DEF ExecutorUnavailable, Seal
  <2>13. CASE Finish
    BY <1>1, <2>2, <2>13 DEF Finish, Seal
  <2>14. CASE CommitCheckpoint
    BY <1>1, <2>2, <2>14 DEF CommitCheckpoint, Seal
  <2> QED BY <1>6, <2>3, <2>4, <2>5, <2>6, <2>7, <2>8, <2>9, <2>10, <2>11, <2>12, <2>13, <2>14
          DEF Reconciler
<1>7. CASE UNCHANGED vars
  BY <1>2, <1>7 DEF vars
<1> QED BY <1>3, <1>4, <1>5, <1>6, <1>7 DEF Next

\* A turn is sealed as completed only over input its job took, and over a job that may
\* still act only as such.
SealedWell ==
  \A g \in Turn : Seals(g) =>
    /\ db'.turns[g] = "completed" /\ g \notin db.cancellation => db.items[g] \subseteq job[g].got
    /\ job[g].state = "live" => db'.error \in {"outcome_unknown", "executor_unavailable"}
    /\ db'.turns[g] # "cancelled" /\ db'.phase # "failed" /\ db.queued # <<>> =>
         db'.input = Elements(FirstPage(db.queued))

\* Every step that seals a turn does so.
LEMMA SealsWell ==
  ASSUME SessionInv, SessionInv', Told, [Next]_vars
  PROVE  SealedWell
<1> SUFFICES ASSUME NEW g \in Turn, Seals(g)
    PROVE
    /\ db'.turns[g] = "completed" /\ g \notin db.cancellation => db.items[g] \subseteq job[g].got
    /\ job[g].state = "live" => db'.error \in {"outcome_unknown", "executor_unavailable"}
    /\ db'.turns[g] # "cancelled" /\ db'.phase # "failed" /\ db.queued # <<>> =>
         db'.input = Elements(FirstPage(db.queued))
  BY DEF SealedWell
<1>1. /\ Good(db) /\ Active(db) /\ g = db.execution /\ g = tick.turn
      /\ \/ ExecutorUnavailable /\ db' = complete(db, "failed", "executor_unavailable")
         \/ Finish /\ db' = complete(db, tick.outcome, tick.error)
         \/ CommitCheckpoint /\ db' = commitCheckpoint(db)
      /\ db.queued # <<>> => db.generation < MaxTurn
  BY SealingSteps
<1>0. Good(db) /\ Active(db) /\ (db.queued # <<>> => db.generation < MaxTurn)
  BY <1>1
<1>2. CASE ExecutorUnavailable /\ db' = complete(db, "failed", "executor_unavailable")
  <2>1. "failed" \in Terminal /\ "executor_unavailable" \in Error
    BY DEF Terminal, Error
  <2> DEFINE r == complete(db, "failed", "executor_unavailable")
  <2>2. /\ r.turns[db.execution] = "failed" /\ r.error = "executor_unavailable"
        /\ (db.queued # <<>> /\ r.phase # "failed") => r.input = Elements(FirstPage(db.queued))
    BY ONLY <1>0, <2>1, CompleteOutcome
  <2>3. db' = r
    BY <1>2
  <2> HIDE DEF r
  <2> QED BY <1>1, <2>2, <2>3
<1>3. CASE Finish /\ db' = complete(db, tick.outcome, tick.error)
  <2>1. tick.outcome \in Terminal /\ tick.outcome # "completed" /\ tick.error \in Error
        /\ tick.pc = "finish"
    BY <1>3 DEF Finish, At, SessionInv, TickShape, Terminal, TypeOK, TickType
  <2>2. job[g].state # "live" \/ tick.error = "outcome_unknown"
    BY <1>1, <2>1 DEF Told, TickTells, Heard
  <2> DEFINE r == complete(db, tick.outcome, tick.error)
  <2>3. /\ r.turns[db.execution] = tick.outcome /\ r.error = tick.error
        /\ (db.queued # <<>> /\ tick.outcome # "cancelled" /\ r.phase # "failed") =>
             r.input = Elements(FirstPage(db.queued))
    BY ONLY <1>0, <2>1, CompleteOutcome
  <2>4. db' = r
    BY <1>3
  <2> HIDE DEF r
  <2> QED BY <1>1, <2>1, <2>2, <2>3, <2>4
<1>4. CASE CommitCheckpoint /\ db' = commitCheckpoint(db)
  <2>1. job[g].saved /\ db.phase = "checkpointing"
    BY <1>1, <1>4 DEF CommitCheckpoint, At, Told, TickTells, Heard, Phased
  <2>2. job[g].state # "live"
    BY <2>1 DEF Told, Sound
  <2>3. g \notin db.cancellation => db.items[g] \subseteq job[g].got
    <3>1. Taken(db, job)
      BY DEF Told, Rec
    <3>2. g \notin db.cancellation => Elements(db.commands) = {}
      BY <1>1, <2>1, <3>1 DEF Taken, Elements
    <3> QED BY <1>1, <2>1, <3>1, <3>2 DEF Taken
  <2> DEFINE p == [db EXCEPT !.checkpoint = db.execution]
  <2>4. Good(p) /\ Active(p) /\ p.queued = db.queued /\ p.generation = db.generation
        /\ p.execution = db.execution
    <3>1. db \in StoreType /\ db.execution \in 0..MaxTurn
      BY <1>1 DEF Good, StoreType
    <3>2. p \in StoreType
      BY <3>1 DEF StoreType
    <3>3. /\ p.life = db.life /\ p.phase = db.phase /\ p.generation = db.generation
          /\ p.execution = db.execution /\ p.turns = db.turns /\ p.actions = db.actions
          /\ p.commands = db.commands /\ p.cancellation = db.cancellation /\ p.queued = db.queued
      BY <3>1, StoreDomain
    <3> HIDE DEF p
    <3> QED BY <1>1, <3>2, <3>3 DEF Good, OpenTurn, Current, Active
  <2>5. db' = complete(p, "completed", "none") /\ "completed" \in Terminal /\ "none" \in Error
    BY <1>4 DEF commitCheckpoint, Terminal, Error
  <2> HIDE DEF p
  <2> DEFINE r == complete(p, "completed", "none")
  <2>6. /\ r.turns[p.execution] = "completed"
        /\ (p.queued # <<>> /\ r.phase # "failed") => r.input = Elements(FirstPage(p.queued))
    <3>1. Good(p) /\ Active(p) /\ (p.queued # <<>> => p.generation < MaxTurn)
      BY <1>0, <2>4
    <3> QED BY ONLY <2>5, <3>1, CompleteOutcome
  <2>7. db' = r
    BY <2>5
  <2> HIDE DEF r
  <2> QED BY <1>1, <2>2, <2>3, <2>4, <2>6, <2>7
<1> QED BY <1>1, <1>2, <1>3, <1>4

\* The messages that wait for the next turn are no more than there are.
LEMMA QueuedFits ==
  ASSUME NEW q \in Seq(Input), IsFiniteSet(Input), \A m, n \in 1..Len(q) : q[m] = q[n] => m = n
  PROVE  Len(q) <= Cardinality(Input)
<1>1. Len(q) \in Nat /\ q \in [1..Len(q) -> Input]
  BY LenProperties
<1>2. IsFiniteSet(1..Len(q)) /\ Cardinality(1..Len(q)) = Len(q)
  BY <1>1, FS_Interval
<1>3. Cardinality(Input) \in Nat
  BY FS_CardinalityType
<1>4. ~(Cardinality(Input) < Cardinality(1..Len(q)))
  BY <1>1, <1>2, FS_PigeonHole
<1> QED BY <1>1, <1>2, <1>3, <1>4

\* A turn completes only over input the runtime took, and is sealed over a live runtime
\* only as unknown or without an executor.
THEOREM SealedOverItsInput == Spec => CompletedTurnTookItsInput /\ SealedRuntimeContained
<1>1. SealedWell =>
        /\ [\A g \in Turn :
              Seals(g) /\ db'.turns[g] = "completed" /\ g \notin db.cancellation
                => db.items[g] \subseteq job[g].got]_vars
        /\ [\A g \in Turn :
              Seals(g) /\ job[g].state = "live"
                => db'.error \in {"outcome_unknown", "executor_unavailable"}]_vars
  BY DEF SealedWell
<1>2. SessionInv /\ SessionInv' /\ Told /\ [Next]_vars => SealedWell
  BY SealsWell
<1> QED BY <1>1, <1>2, Invariance, ToldAlways, PTL
        DEF Spec, CompletedTurnTookItsInput, SealedRuntimeContained

\* With no more messages than one page of the store holds, input the runtime refused
\* always runs as the next turn: all three promises of a sealed turn.
THEOREM SealedTruthfullyWithinAPage ==
  ASSUME IsFiniteSet(Input), Cardinality(Input) <= Page
  PROVE  Spec => SealedTruthfully
<1>1. SessionInv /\ SessionInv' /\ Told /\ [Next]_vars =>
        [\A g \in Turn :
           Seals(g) /\ db'.turns[g] # "cancelled" /\ db'.phase # "failed"
             => Elements(db.queued) \subseteq db'.input]_vars
  <2> SUFFICES ASSUME SessionInv, SessionInv', Told, [Next]_vars, NEW g \in Turn,
                      Seals(g), db'.turns[g] # "cancelled", db'.phase # "failed"
               PROVE  Elements(db.queued) \subseteq db'.input
    OBVIOUS
  <2>1. db.queued \in Seq(Input) /\ \A m, n \in 1..Len(db.queued) : db.queued[m] = db.queued[n] => m = n
    BY DEF SessionInv, TypeOK, StoreType, Told, Rec, Once
  <2>2. CASE db.queued = <<>>
    <3>1. Elements(db.queued) = {}
      BY <2>2 DEF Elements
    <3> QED BY <3>1
  <2>3. CASE db.queued # <<>>
    <3>1. db'.input = Elements(FirstPage(db.queued))
      BY <2>3, SealsWell DEF SealedWell
    <3> DEFINE q == db.queued
    <3> HIDE DEF q
    <3>2. FirstPage(q) = q
      <4>1. q \in Seq(Input) /\ Len(q) <= Cardinality(Input)
        BY <2>1, QueuedFits DEF q
      <4>2. Len(q) \in Nat /\ Page \in Nat /\ Cardinality(Input) \in Nat
        BY <4>1, LenProperties, FS_CardinalityType, SessionAssumption
      <4>3. (IF Len(q) < Page THEN Len(q) ELSE Page) = Len(q)
        BY <4>1, <4>2
      <4>4. FirstPage(q) = SubSeq(q, 1, Len(q))
        BY <4>3 DEF FirstPage
      <4>5. \A n \in 1..Len(q) : q[n] \in Input
        BY <4>1, ElementOfSeq
      <4> DEFINE p == SubSeq(q, 1, Len(q))
      <4>6. /\ p \in Seq(Input) /\ Len(p) = (IF 1 <= Len(q) THEN Len(q) - 1 + 1 ELSE 0)
            /\ \A n \in 1..Len(q) - 1 + 1 : p[n] = q[1 + n - 1]
        BY <4>2, <4>5, SubSeqProperties
      <4> HIDE DEF p
      <4>7. Len(p) = Len(q) /\ \A n \in 1..Len(p) : p[n] = q[n]
        <5>1. \A n \in 1..Len(q) : n \in 1..Len(q) - 1 + 1 /\ 1 + n - 1 = n
          BY <4>2
        <5> QED BY <4>2, <4>6, <5>1
      <4> QED BY <4>1, <4>4, <4>6, <4>7, SeqEqual DEF p
    <3> QED BY <3>1, <3>2 DEF q
  <2> QED BY <2>2, <2>3
<1>2. Spec => RefusedSteerRuns
  BY <1>1, Invariance, ToldAlways, PTL DEF Spec, RefusedSteerRuns
<1> QED BY <1>2, SealedOverItsInput, PTL DEF SealedTruthfully
=============================================================================
