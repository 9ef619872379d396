-------------------------- MODULE SupervisorProofs --------------------------
(***************************************************************************)
(* Proofs about Supervisor, for any turns, calls, children, commands and   *)
(* limits of the log, and about Codex, for any threads, calls and bounds.  *)
(*                                                                         *)
(* The argument about Supervisor has two layers.  The first is about one   *)
(* job: whatever is done to it, its outcome stays consistent with its      *)
(* pending calls and its log (Outcome), and once settled nothing of it     *)
(* changes (Absorbs).  The second is about the slot: only the job that has *)
(* it may be running, and the request that has the lifecycle permit knows  *)
(* how far it got (RequestShape); that is why a start finds the job before *)
(* it stopped, a checkpoint a completed one, and a command one it has not  *)
(* reached yet.                                                            *)
(***************************************************************************)
EXTENDS MCHandover, SequenceTheorems, FiniteSetTheorems, WellFoundedInduction, TLAPS

Stage == {"none", "starting", "up", "children", "interrupt", "teardown", "stopped"}
\* The processes of the runtime may exist.
Running == {"starting", "up", "children", "interrupt", "teardown"}
LogEvent == {Output} \cup {<<e, k>> : e \in {"opened", "closed"}, k \in Child}
Id == {m.id : m \in Command}

JobType ==
  [status : Active \cup Terminal, cancelling : BOOLEAN, closing : BOOLEAN,
   events : Seq(LogEvent), stopRequested : BOOLEAN, aborted : BOOLEAN, stage : Stage,
   native : BOOLEAN, task : {"running", "settling", "done"},
   raised : SUBSET (Call \cup ChildCall), pending : SUBSET (Call \cup ChildCall),
   children : [Child -> {"none", "asked", "in_progress", "refused", "ended"}],
   doomed : SUBSET Child,
   operations : [Id -> {"none", "underway", "ok", "rejected", "failed"}],
   applied : [Id -> 0..2], saved : {"none", "capturing", "saved"}]

\* The log is closed over the children, unless the job failed or was cancelled.
ClosesChild(j, k) ==
  \/ j.status \in {"failed", "cancelled"}
  \/ Contains(j.events, <<"closed", k>>)
  \/ j.status \in Active /\ j.children[k] = "in_progress"
Waits(j) == ~settled(j) /\ ~j.cancelling => (j.status = "waiting" <=> OwnPending(j) # {})
Consistent(j) ==
  /\ j.closing => settled(j)
  /\ j.cancelling => j.status # "completed"
  /\ \A k \in Child : Contains(j.events, <<"opened", k>>) => ClosesChild(j, k)
Outcome(j) == Consistent(j) /\ Waits(j)

\* A command is counted when it reaches the runtime, after its id was remembered.
Counted(j) ==
  \A id \in Id : j.applied[id] <= 1 /\ (j.operations[id] = "none" => j.applied[id] = 0)

JobOK(j) ==
  /\ j \in JobType /\ Outcome(j) /\ Counted(j)
  /\ j.native <=> j.stage \in Running
  /\ j.saved # "none" => j.status = "completed" /\ j.stage = "stopped"

\* What a step may do to a job that is settled, and what callbacks leave alone.
Absorbs(j, l) == settled(j) => l.status = j.status /\ l.events = j.events
Untouched(j, l) ==
  /\ l.stage = j.stage /\ l.native = j.native /\ l.saved = j.saved
  /\ l.operations = j.operations /\ l.applied = j.applied

-----------------------------------------------------------------------------
(***************************************************************************)
(* The operators on a job                                                  *)
(***************************************************************************)
\* A terminal outcome is not an active one.
LEMMA StatusDisjoint ==
  \A s : ~(s \in Active /\ s \in Terminal)
BY DEF Active, Terminal

\* setStatus: a settled or sealed job keeps its outcome; a cancelling one completes as
\* cancelled.
LEMMA SetStatusFacts ==
  ASSUME NEW j \in JobType, NEW s \in Active \cup Terminal
  PROVE  /\ setStatus(j, s) \in JobType
         /\ Sealed(j) => setStatus(j, s) = j
         /\ ~Sealed(j) /\ ~j.cancelling => setStatus(j, s).status = s
         /\ ~Sealed(j) /\ j.cancelling =>
              setStatus(j, s).status = IF s \in {"completed", "cancelled"} THEN "cancelled" ELSE j.status
         /\ Untouched(j, setStatus(j, s)) /\ Absorbs(j, setStatus(j, s))
         /\ setStatus(j, s).events = j.events /\ setStatus(j, s).pending = j.pending
         /\ setStatus(j, s).children = j.children
         /\ setStatus(j, s).closing = j.closing /\ setStatus(j, s).cancelling = j.cancelling
<1>1. CASE Sealed(j)
  <2>1. setStatus(j, s) = j
    BY <1>1 DEF setStatus
  <2> QED BY <1>1, <2>1 DEF Untouched, Absorbs
<1>2. CASE ~Sealed(j) /\ ~j.cancelling
  <2>1. setStatus(j, s) = [j EXCEPT !.status = s]
    BY <1>2 DEF setStatus
  <2> QED BY <1>2, <2>1 DEF Untouched, Absorbs, JobType, Sealed
<1>3. CASE ~Sealed(j) /\ j.cancelling
  <2>1. setStatus(j, s) = IF s \in {"completed", "cancelled"} THEN [j EXCEPT !.status = "cancelled"] ELSE j
    BY <1>3 DEF setStatus
  <2>2. CASE s \in {"completed", "cancelled"}
    <3>1. setStatus(j, s) = [j EXCEPT !.status = "cancelled"]
      BY <2>1, <2>2
    <3> QED BY <1>3, <2>2, <3>1 DEF Untouched, Absorbs, JobType, Sealed, Terminal
  <2>3. CASE ~(s \in {"completed", "cancelled"})
    BY <1>3, <2>1, <2>3 DEF Untouched, Absorbs
  <2> QED BY <2>2, <2>3
<1> QED BY <1>1, <1>2, <1>3

\* fail: an outcome that was set stays.
LEMMA FailFacts ==
  ASSUME NEW j \in JobType
  PROVE  /\ fail(j) \in JobType
         /\ Sealed(j) => fail(j) = j
         /\ ~Sealed(j) => fail(j).status = "failed"
         /\ Untouched(j, fail(j)) /\ Absorbs(j, fail(j))
         /\ fail(j).events = j.events /\ fail(j).pending = j.pending
         /\ fail(j).children = j.children
         /\ fail(j).closing = j.closing /\ fail(j).cancelling = j.cancelling
<1>1. CASE Sealed(j)
  <2>1. fail(j) = j
    BY <1>1 DEF fail
  <2> QED BY <1>1, <2>1 DEF Untouched, Absorbs
<1>2. CASE ~Sealed(j)
  <2>1. fail(j) = [j EXCEPT !.status = "failed"]
    BY <1>2 DEF fail
  <2>2. fail(j) \in JobType /\ fail(j).status = "failed"
    BY <2>1 DEF JobType, Terminal
  <2>3. /\ Untouched(j, fail(j))
        /\ fail(j).events = j.events /\ fail(j).pending = j.pending
        /\ fail(j).children = j.children
        /\ fail(j).closing = j.closing /\ fail(j).cancelling = j.cancelling
    BY <2>1 DEF JobType, Untouched
  <2> QED BY <1>2, <2>2, <2>3 DEF Absorbs, Sealed
<1> QED BY <1>1, <1>2

\* requestCancel, as the stop sequence begins.
LEMMA RequestCancelFacts ==
  ASSUME NEW j \in JobType
  PROVE  /\ requestCancel(j) \in JobType
         /\ requestCancel(j).status = j.status
         /\ Untouched(j, requestCancel(j)) /\ Absorbs(j, requestCancel(j))
         /\ requestCancel(j).events = j.events /\ requestCancel(j).pending = j.pending
         /\ requestCancel(j).children = j.children
         /\ requestCancel(j).closing = j.closing
         /\ Sealed(j) => requestCancel(j) = j
BY DEF requestCancel, Untouched, Absorbs, JobType

\* close seals the log; a job without an outcome was cancelled.
LEMMA CloseFacts ==
  ASSUME NEW j \in JobType
  PROVE  /\ close(j) \in JobType
         /\ close(j).status = IF settled(j) THEN j.status ELSE "cancelled"
         /\ close(j).closing /\ settled(close(j))
         /\ Untouched(j, close(j)) /\ Absorbs(j, close(j))
         /\ close(j).events = j.events /\ close(j).cancelling = j.cancelling
         /\ close(j).pending = j.pending /\ close(j).children = j.children
<1> DEFINE s == IF settled(j) THEN j.status ELSE "cancelled"
<1>1. s \in Active \cup Terminal /\ s \in Terminal /\ (settled(j) => s = j.status)
  BY DEF Terminal, settled
<1>2. close(j) = [j EXCEPT !.closing = TRUE, !.status = s]
  BY DEF close
<1> HIDE DEF s
<1>3. close(j) \in JobType
  BY <1>1, <1>2 DEF JobType
<1>4. /\ close(j).status = s /\ close(j).closing /\ Untouched(j, close(j))
      /\ close(j).events = j.events /\ close(j).cancelling = j.cancelling
      /\ close(j).pending = j.pending /\ close(j).children = j.children
  BY <1>2 DEF JobType, Untouched
<1> QED BY <1>1, <1>3, <1>4 DEF Absorbs, settled, s

\* What a log that has room takes, or up to its limit.
LEMMA PrefixFacts ==
  ASSUME NEW S, NEW s \in Seq(S), NEW n \in Int, n <= Len(s)
  PROVE  SubSeq(s, 1, n) \in Seq(S)
<1>1. Len(s) \in Nat
  BY LenProperties
<1>2. CASE n >= 1
  <2>1. 1 \in 1..Len(s) /\ n \in 1..Len(s) /\ 1 \in 1..n+1
    BY <1>1, <1>2
  <2> QED BY <2>1, SubSeqProperties
<1>3. CASE ~(n >= 1)
  BY <1>3
<1> QED BY <1>2, <1>3

\* What is in a concatenation.
LEMMA ContainsConcat ==
  ASSUME NEW S, NEW a \in Seq(S), NEW b \in Seq(S)
  PROVE  a \o b \in Seq(S) /\ \A e : Contains(a \o b, e) <=> Contains(a, e) \/ Contains(b, e)
<1>1. /\ a \o b \in Seq(S) /\ Len(a \o b) = Len(a) + Len(b)
      /\ \A n \in 1..Len(a) + Len(b) :
           (a \o b)[n] = IF n <= Len(a) THEN a[n] ELSE b[n - Len(a)]
  BY ConcatProperties
<1>2. Len(a) \in Nat /\ Len(b) \in Nat
  BY LenProperties
<1>3. ASSUME NEW e, Contains(a \o b, e) PROVE Contains(a, e) \/ Contains(b, e)
  <2>1. PICK n \in 1..Len(a) + Len(b) : (a \o b)[n] = e
    BY <1>1, <1>3 DEF Contains
  <2>2. CASE n <= Len(a)
    BY <1>1, <1>2, <2>1, <2>2 DEF Contains
  <2>3. CASE ~(n <= Len(a))
    <3>1. n - Len(a) \in 1..Len(b) /\ b[n - Len(a)] = e
      BY <1>1, <1>2, <2>1, <2>3
    <3> QED BY <3>1 DEF Contains
  <2> QED BY <2>2, <2>3
<1>4. ASSUME NEW e, Contains(a, e) PROVE Contains(a \o b, e)
  <2>1. PICK n \in 1..Len(a) : a[n] = e
    BY <1>4 DEF Contains
  <2>2. n \in 1..Len(a) + Len(b) /\ (a \o b)[n] = e
    BY <1>1, <1>2, <2>1
  <2> QED BY <1>1, <2>2 DEF Contains
<1>5. ASSUME NEW e, Contains(b, e) PROVE Contains(a \o b, e)
  <2>1. PICK n \in 1..Len(b) : b[n] = e
    BY <1>5 DEF Contains
  <2>2. n + Len(a) \in 1..Len(a) + Len(b) /\ n \in Nat /\ n > 0
    BY <1>2
  <2>3. (a \o b)[n + Len(a)] = b[n]
    BY <1>1, <1>2, <2>2
  <2> QED BY <1>1, <2>1, <2>2, <2>3 DEF Contains
<1> QED BY <1>1, <1>3, <1>4, <1>5

\* The log of a job that stops as it is filled.
LEMMA LogStops ==
  ASSUME NEW j \in JobType, NEW log \in Seq(LogEvent)
  PROVE  [j EXCEPT !.events = log, !.stopRequested = TRUE] \in JobType
<1> DEFINE m == [j EXCEPT !.events = log]
<1>1. m \in JobType
  BY DEF JobType
<1>2. [j EXCEPT !.events = log, !.stopRequested = TRUE] = [m EXCEPT !.stopRequested = TRUE]
  OBVIOUS
<1> HIDE DEF m
<1>3. [m EXCEPT !.stopRequested = TRUE] \in JobType
  BY <1>1 DEF JobType
<1> QED BY ONLY <1>2, <1>3

\* emit: the events are all logged, or the job fails; nothing is logged once it is settled.
LEMMA EmitFacts ==
  ASSUME NEW j \in JobType, NEW ev \in Seq(LogEvent)
  PROVE  LET l == emit(j, ev)
         IN /\ l \in JobType /\ Untouched(j, l) /\ Absorbs(j, l)
            /\ l.pending = j.pending /\ l.children = j.children
            /\ l.closing = j.closing /\ l.cancelling = j.cancelling
            /\ Sealed(j) => l.status = j.status /\ l.events = j.events
            /\ ~Sealed(j) => \/ l.status = "failed"
                             \/ /\ l.status = j.status
                                /\ \A e : Contains(l.events, e) <=>
                                            Contains(j.events, e) \/ Contains(ev, e)
<1> DEFINE l == emit(j, ev)
<1>1. CASE j.closing \/ ev = <<>>
  <2>1. l = j
    BY <1>1 DEF emit
  <2>2. ev = <<>> => \A e : ~Contains(ev, e)
    BY DEF Contains
  <2> QED BY <1>1, <2>1, <2>2 DEF Untouched, Absorbs, Sealed
<1>2. CASE ~(j.closing \/ ev = <<>>) /\ settled(j)
  <2> DEFINE stops == j.stopRequested \/ j.status = "failed"
  <2>1. stops \in BOOLEAN /\ l = [j EXCEPT !.stopRequested = stops]
    BY <1>2 DEF emit
  <2> HIDE DEF stops
  <2>2. l \in JobType /\ Untouched(j, l) /\ Absorbs(j, l) /\ l.status = j.status
        /\ l.pending = j.pending /\ l.children = j.children /\ l.events = j.events
        /\ l.closing = j.closing /\ l.cancelling = j.cancelling
    BY <2>1 DEF JobType, Untouched, Absorbs
  <2> QED BY <1>2, <2>2 DEF Sealed
<1>3. CASE ~(j.closing \/ ev = <<>>) /\ ~settled(j)
  <2>1. j.events \in Seq(LogEvent) /\ Len(j.events) \in Nat /\ Len(ev) \in Nat /\ MaxLog \in Nat
    BY SupervisorAssumption, LenProperties DEF JobType
  <2>2. CASE Len(j.events) + Len(ev) <= MaxLog
    <3> DEFINE events == j.events \o ev
    <3>1. /\ events \in Seq(LogEvent)
          /\ \A e : Contains(events, e) <=> Contains(j.events, e) \/ Contains(ev, e)
      BY <2>1, ContainsConcat
    <3>2. l = [j EXCEPT !.events = events]
      BY <1>3, <2>2 DEF emit, appended
    <3> HIDE DEF events
    <3>3. /\ l \in JobType /\ Untouched(j, l) /\ l.status = j.status /\ l.events = events
          /\ l.pending = j.pending /\ l.children = j.children
          /\ l.closing = j.closing /\ l.cancelling = j.cancelling
      BY <3>1, <3>2 DEF JobType, Untouched
    <3> QED BY <1>3, <3>1, <3>3 DEF Sealed, Absorbs
  <2>3. CASE ~(Len(j.events) + Len(ev) <= MaxLog)
    <3> DEFINE n == MaxLog - Len(j.events)
               piece == SubSeq(ev, 1, n)
               events == j.events \o piece
    <3>1. n \in Int /\ n <= Len(ev)
      BY <2>1, <2>3
    <3>2. events \in Seq(LogEvent)
      BY <2>1, <3>1, PrefixFacts, ContainsConcat
    <3>3. l = [fail(j) EXCEPT !.events = events, !.stopRequested = TRUE]
      <4>1. fail(j).events = j.events
        BY FailFacts
      <4> QED BY <1>3, <2>3, <4>1 DEF emit, appended
    <3> HIDE DEF events
    <3>4. /\ fail(j) \in JobType /\ fail(j).status = "failed" /\ Untouched(j, fail(j))
          /\ fail(j).pending = j.pending /\ fail(j).children = j.children
          /\ fail(j).closing = j.closing /\ fail(j).cancelling = j.cancelling
      <4>1. ~Sealed(j)
        BY <1>3 DEF Sealed
      <4> QED BY <4>1, FailFacts
    <3>5. l \in JobType
      BY <3>2, <3>3, <3>4, LogStops
    <3>6. /\ l.status = fail(j).status /\ Untouched(fail(j), l)
          /\ l.pending = fail(j).pending /\ l.children = fail(j).children
          /\ l.closing = fail(j).closing /\ l.cancelling = fail(j).cancelling
      BY <3>3, <3>4 DEF JobType, Untouched
    <3> QED BY <1>3, <3>4, <3>5, <3>6 DEF Sealed, Absorbs, Untouched
  <2> QED BY <2>2, <2>3
<1> QED BY <1>1, <1>2, <1>3

\* The closing of a child, and the opening that is logged with the child at work, keep the
\* log closed over the children.
LEMMA EmitConsistent ==
  ASSUME NEW j \in JobType, NEW ev \in Seq(LogEvent),
         j.closing => settled(j), j.cancelling => j.status # "completed",
         \A k \in Child :
           Contains(j.events, <<"opened", k>>) \/ (~settled(j) /\ Contains(ev, <<"opened", k>>)) =>
             ClosesChild(j, k) \/ (~settled(j) /\ Contains(ev, <<"closed", k>>))
  PROVE  Consistent(emit(j, ev)) /\ (Waits(j) => Waits(emit(j, ev)))
<1> DEFINE l == emit(j, ev)
<1>1. /\ l.pending = j.pending /\ l.children = j.children
      /\ l.closing = j.closing /\ l.cancelling = j.cancelling
      /\ Sealed(j) => l.status = j.status /\ l.events = j.events
      /\ ~Sealed(j) => \/ l.status = "failed"
                       \/ /\ l.status = j.status
                          /\ \A e : Contains(l.events, e) <=>
                                      Contains(j.events, e) \/ Contains(ev, e)
  BY EmitFacts
<1> HIDE DEF l
<1>2. CASE Sealed(j)
  <2>1. settled(j)
    BY <1>2 DEF Sealed
  <2> QED BY <1>1, <1>2, <2>1 DEF Consistent, Waits, OwnPending, settled, ClosesChild, l
<1>3. CASE ~Sealed(j) /\ l.status = "failed"
  BY <1>1, <1>3 DEF Consistent, Waits, ClosesChild, settled, Terminal, Sealed, l
<1>4. CASE ~Sealed(j) /\ l.status # "failed"
  <2>1. /\ l.status = j.status /\ ~settled(j) /\ ~settled(l) /\ ~j.closing
        /\ \A e : Contains(l.events, e) <=> Contains(j.events, e) \/ Contains(ev, e)
    BY <1>1, <1>4 DEF Sealed, settled
  <2>2. Waits(j) => Waits(l)
    BY <1>1, <2>1 DEF Waits, OwnPending
  <2>3. ASSUME NEW k \in Child, Contains(l.events, <<"opened", k>>) PROVE ClosesChild(l, k)
    BY <1>1, <2>1, <2>3 DEF ClosesChild
  <2> QED BY <1>1, <2>1, <2>2, <2>3 DEF Consistent, l
<1> QED BY <1>2, <1>3, <1>4

\* The log of one event.
LEMMA OneEvent ==
  ASSUME NEW S, NEW x \in S
  PROVE  <<x>> \in Seq(S) /\ \A e : Contains(<<x>>, e) <=> e = x
<1>1. <<x>> \in Seq(S) /\ Len(<<x>>) = 1 /\ <<x>>[1] = x
  OBVIOUS
<1>2. \A i : i \in 1..1 <=> i = 1
  OBVIOUS
<1> QED BY <1>1, <1>2 DEF Contains

\* The events of the log, told apart.
LEMMA EventKinds ==
  ASSUME NEW k \in Child, NEW h \in Child
  PROVE  /\ Output \in LogEvent /\ <<"opened", k>> \in LogEvent /\ <<"closed", k>> \in LogEvent
         /\ Output # <<"opened", k>> /\ <<"opened", k>> # <<"closed", h>>
         /\ (<<"opened", k>> = <<"opened", h>> => k = h)
         /\ (<<"closed", k>> = <<"closed", h>> => k = h)
<1>1. Output \in LogEvent /\ <<"opened", k>> \in LogEvent /\ <<"closed", k>> \in LogEvent
  BY DEF LogEvent
<1>2. Len(Output) = 1 /\ Len(<<"opened", k>>) = 2
  BY DEF Output
<1>3. <<"opened", k>>[1] = "opened" /\ <<"closed", h>>[1] = "closed"
  OBVIOUS
<1>4. (<<"opened", k>> = <<"opened", h>> => k = h) /\ (<<"closed", k>> = <<"closed", h>> => k = h)
  OBVIOUS
<1> QED BY <1>1, <1>2, <1>3, <1>4

\* A child changes its state.
LEMMA BecomesFacts ==
  ASSUME NEW j \in JobType, NEW k \in Child,
         NEW state \in {"none", "asked", "in_progress", "refused", "ended"}
  PROVE  LET l == Becomes(j, k, state)
         IN /\ l \in JobType /\ Untouched(j, l) /\ Absorbs(j, l)
            /\ l.status = j.status /\ l.events = j.events /\ l.pending = j.pending
            /\ l.closing = j.closing /\ l.cancelling = j.cancelling
            /\ \A h \in Child : l.children[h] = IF h = k THEN state ELSE j.children[h]
<1> DEFINE children == [j.children EXCEPT ![k] = state]
           l == Becomes(j, k, state)
<1>1. /\ children \in [Child -> {"none", "asked", "in_progress", "refused", "ended"}]
      /\ \A h \in Child : children[h] = IF h = k THEN state ELSE j.children[h]
  BY DEF JobType
<1>2. l = [j EXCEPT !.children = children]
  BY DEF Becomes
<1> HIDE DEF children
<1>3. l \in JobType
  BY <1>1, <1>2 DEF JobType
<1>4. /\ Untouched(j, l) /\ Absorbs(j, l) /\ l.status = j.status /\ l.events = j.events
      /\ l.pending = j.pending /\ l.closing = j.closing /\ l.cancelling = j.cancelling
      /\ l.children = children
  BY <1>2 DEF JobType, Untouched, Absorbs
<1> QED BY <1>1, <1>3, <1>4

\* Children end, and with them their calls; the job's own calls wait on.
LEMMA EndedFacts ==
  ASSUME NEW j \in JobType, NEW S \in SUBSET Child
  PROVE  LET l == Ended(j, S)
         IN /\ l \in JobType /\ Untouched(j, l) /\ Absorbs(j, l)
            /\ l.status = j.status /\ l.events = j.events /\ OwnPending(l) = OwnPending(j)
            /\ l.closing = j.closing /\ l.cancelling = j.cancelling
            /\ \A h \in Child : l.children[h] = IF h \in S THEN "ended" ELSE j.children[h]
<1> DEFINE children == [k \in Child |-> IF k \in S THEN "ended" ELSE j.children[k]]
           pending == j.pending \ {c \in ChildCall : c[1] \in S}
           l == Ended(j, S)
<1>1. children \in [Child -> {"none", "asked", "in_progress", "refused", "ended"}]
  BY DEF JobType
<1>2. pending \in SUBSET (Call \cup ChildCall) /\ pending \cap Call = j.pending \cap Call
  BY SupervisorAssumption DEF JobType
<1>3. \A h \in Child : children[h] = IF h \in S THEN "ended" ELSE j.children[h]
  OBVIOUS
<1>4. l = [j EXCEPT !.children = children, !.pending = pending]
  BY DEF Ended
<1> HIDE DEF children, pending
<1>5. l \in JobType
  BY <1>1, <1>2, <1>4 DEF JobType
<1>6. /\ Untouched(j, l) /\ Absorbs(j, l) /\ l.status = j.status /\ l.events = j.events
      /\ l.pending = pending /\ l.closing = j.closing /\ l.cancelling = j.cancelling
      /\ l.children = children
  BY <1>4 DEF JobType, Untouched, Absorbs
<1> QED BY <1>2, <1>3, <1>5, <1>6 DEF OwnPending

\* A call waits.
LEMMA RaisedFacts ==
  ASSUME NEW j \in JobType, NEW c \in Call \cup ChildCall
  PROVE  LET l == Raised(j, c)
         IN /\ l \in JobType /\ Untouched(j, l) /\ Absorbs(j, l)
            /\ l.status = j.status /\ l.events = j.events /\ l.pending = j.pending \cup {c}
            /\ l.closing = j.closing /\ l.cancelling = j.cancelling /\ l.children = j.children
<1> DEFINE raised == j.raised \cup {c}
           pending == j.pending \cup {c}
           l == Raised(j, c)
<1>1. raised \in SUBSET (Call \cup ChildCall) /\ pending \in SUBSET (Call \cup ChildCall)
  BY DEF JobType
<1>2. l = [j EXCEPT !.raised = raised, !.pending = pending]
  BY DEF Raised
<1> HIDE DEF raised, pending
<1>3. l \in JobType
  BY <1>1, <1>2 DEF JobType
<1>4. /\ Untouched(j, l) /\ Absorbs(j, l) /\ l.status = j.status /\ l.events = j.events
      /\ l.pending = pending /\ l.closing = j.closing /\ l.cancelling = j.cancelling
      /\ l.children = j.children
  BY <1>2 DEF JobType, Untouched, Absorbs
<1> QED BY <1>3, <1>4 DEF pending

-----------------------------------------------------------------------------
(***************************************************************************)
(* What callbacks and the stop sequence make of a job.                     *)
(***************************************************************************)
Kept(j, l) == JobOK(l) /\ Untouched(j, l) /\ Absorbs(j, l)

\* A job whose stage and commands are left alone is all right if its outcome is.
LEMMA KeptJob ==
  ASSUME NEW j, NEW l, JobOK(j), l \in JobType, Outcome(l), Untouched(j, l), Absorbs(j, l)
  PROVE  Kept(j, l)
<1>1. Counted(l)
  BY DEF JobOK, Counted, Untouched
<1>2. l.native <=> l.stage \in Running
  BY DEF JobOK, Untouched
<1>3. l.saved # "none" => l.status = "completed" /\ l.stage = "stopped"
  BY DEF JobOK, Untouched, Absorbs, settled, Terminal
<1> QED BY <1>1, <1>2, <1>3 DEF JobOK, Kept

\* What both steps leave alone.
LEMMA Composed ==
  ASSUME NEW j, NEW l, NEW m, Untouched(j, l), Absorbs(j, l), Untouched(l, m), Absorbs(l, m)
  PROVE  Untouched(j, m) /\ Absorbs(j, m)
BY DEF Untouched, Absorbs, settled

\* Output is logged, whatever was raised or refused with it.
LEMMA OutputKept ==
  ASSUME NEW j, JobOK(j), NEW l \in JobType, Untouched(j, l), Absorbs(j, l),
         l.status = j.status, l.events = j.events, OwnPending(l) = OwnPending(j),
         l.closing = j.closing, l.cancelling = j.cancelling,
         \A k \in Child : j.children[k] = "in_progress" => l.children[k] = "in_progress"
  PROVE  Kept(j, emit(l, <<Output>>)) /\ Outcome(l)
<1>1. Outcome(l)
  BY DEF JobOK, Outcome, Consistent, ClosesChild, Waits, settled
<1>2. /\ <<Output>> \in Seq(LogEvent)
      /\ \A k \in Child : ~Contains(<<Output>>, <<"opened", k>>)
  <2>1. Output \in LogEvent
    BY DEF LogEvent
  <2> QED BY <2>1, OneEvent, EventKinds
<1>3. Outcome(emit(l, <<Output>>))
  BY <1>1, <1>2, EmitConsistent DEF Outcome, Consistent
<1>4. emit(l, <<Output>>) \in JobType /\ Untouched(l, emit(l, <<Output>>)) /\ Absorbs(l, emit(l, <<Output>>))
  BY <1>2, EmitFacts
<1> QED BY <1>1, <1>3, <1>4, Composed, KeptJob

\* A failed job owes nothing.
LEMMA FailKept ==
  ASSUME NEW j \in JobType, Outcome(j)
  PROVE  fail(j) \in JobType /\ Outcome(fail(j)) /\ Untouched(j, fail(j)) /\ Absorbs(j, fail(j))
<1>1. /\ fail(j) \in JobType /\ Untouched(j, fail(j)) /\ Absorbs(j, fail(j))
      /\ fail(j).closing = j.closing /\ fail(j).cancelling = j.cancelling
      /\ Sealed(j) => fail(j) = j
      /\ ~Sealed(j) => fail(j).status = "failed"
  BY FailFacts
<1>2. CASE Sealed(j)
  BY <1>1, <1>2
<1>3. CASE ~Sealed(j)
  BY <1>1, <1>3 DEF Outcome, Consistent, ClosesChild, Waits, settled, Terminal
<1> QED BY <1>1, <1>2, <1>3

\* emit of output.
LEMMA EmitKept ==
  ASSUME NEW j, JobOK(j)
  PROVE  Kept(j, emit(j, <<Output>>))
<1>1. j \in JobType /\ Untouched(j, j) /\ Absorbs(j, j)
  BY DEF JobOK, Untouched, Absorbs
<1> QED BY <1>1, OutputKept

\* externalTool: a job that shows a waiting status has the call it waits for.
LEMMA RaiseKept ==
  ASSUME NEW j, JobOK(j), NEW c \in Call
  PROVE  Kept(j, setStatus(emit(Raised(j, c), <<Output>>), "waiting"))
<1> DEFINE r == Raised(j, c)
           l == emit(r, <<Output>>)
           m == setStatus(l, "waiting")
<1>1. /\ r \in JobType /\ Untouched(j, r) /\ Absorbs(j, r)
      /\ r.status = j.status /\ r.events = j.events /\ r.pending = j.pending \cup {c}
      /\ r.closing = j.closing /\ r.cancelling = j.cancelling /\ r.children = j.children
  BY RaisedFacts DEF JobOK
<1>2. /\ <<Output>> \in Seq(LogEvent)
      /\ \A k \in Child : ~Contains(<<Output>>, <<"opened", k>>)
  <2>1. Output \in LogEvent
    BY DEF LogEvent
  <2> QED BY <2>1, OneEvent, EventKinds
<1> HIDE DEF r
<1>3. Consistent(r)
  BY <1>1 DEF JobOK, Outcome, Consistent, ClosesChild, settled
<1>4. Consistent(l)
  BY <1>1, <1>2, <1>3, EmitConsistent DEF Consistent
<1>5. l \in JobType /\ Untouched(r, l) /\ Absorbs(r, l) /\ l.pending = r.pending
  BY <1>1, <1>2, EmitFacts
<1> HIDE DEF l
<1>6. "waiting" \in Active \cup Terminal
  BY DEF Active
<1>7. /\ m \in JobType /\ Untouched(l, m) /\ Absorbs(l, m)
      /\ m.events = l.events /\ m.pending = l.pending /\ m.children = l.children
      /\ m.closing = l.closing /\ m.cancelling = l.cancelling
      /\ Sealed(l) => m = l
      /\ ~Sealed(l) /\ ~l.cancelling => m.status = "waiting"
      /\ ~Sealed(l) /\ l.cancelling => m.status = l.status
  BY <1>5, <1>6, SetStatusFacts
<1>8. c \in OwnPending(m)
  BY <1>1, <1>5, <1>7 DEF OwnPending
<1> HIDE DEF m
<1>9. Consistent(m) /\ Waits(m)
  <2>1. CASE Sealed(l)
    <3>1. settled(l) /\ m = l
      BY <1>4, <1>7, <2>1 DEF Sealed, Consistent
    <3> QED BY <1>4, <3>1 DEF Waits
  <2>2. CASE ~Sealed(l) /\ ~l.cancelling
    BY <1>4, <1>7, <1>8, <2>2 DEF Consistent, Waits, ClosesChild, Active, Sealed, settled, Terminal
  <2>3. CASE ~Sealed(l) /\ l.cancelling
    BY <1>4, <1>7, <2>3 DEF Consistent, Waits, ClosesChild, settled, Sealed
  <2> QED BY <2>1, <2>2, <2>3
<1>10. Untouched(j, m) /\ Absorbs(j, m)
  BY <1>1, <1>5, <1>7, Composed
<1>11. Kept(j, m)
  BY <1>7, <1>9, <1>10, KeptJob DEF Outcome
<1> QED BY <1>11 DEF m, l, r

\* run: the native turn ends, and the job completes once its children are through.
LEMMA TaskKept ==
  ASSUME NEW j, JobOK(j), NEW t \in {"settling", "done"}
  PROVE  /\ Kept(j, [j EXCEPT !.task = t])
         /\ InProgress(j) = {} => Kept(j, [setStatus(j, "completed") EXCEPT !.task = t])
         /\ Kept(j, [fail(j) EXCEPT !.task = t])
<1>1. ASSUME NEW l, l \in JobType, Outcome(l), Untouched(j, l), Absorbs(j, l)
      PROVE  Kept(j, [l EXCEPT !.task = t])
  <2> DEFINE m == [l EXCEPT !.task = t]
  <2>1. /\ m \in JobType /\ Untouched(l, m) /\ m.status = l.status /\ m.events = l.events
        /\ m.pending = l.pending /\ m.children = l.children
        /\ m.closing = l.closing /\ m.cancelling = l.cancelling
    BY <1>1 DEF JobType, Untouched
  <2> HIDE DEF m
  <2>2. Outcome(m) /\ Absorbs(l, m)
    BY <1>1, <2>1 DEF Outcome, Consistent, ClosesChild, Waits, OwnPending, settled, Absorbs
  <2>3. Untouched(j, m) /\ Absorbs(j, m)
    BY <1>1, <2>1, <2>2, Composed
  <2>4. Kept(j, m)
    BY <2>1, <2>2, <2>3, KeptJob
  <2> QED BY <2>4 DEF m
<1>2. j \in JobType /\ Outcome(j) /\ Untouched(j, j) /\ Absorbs(j, j)
  BY DEF JobOK, Untouched, Absorbs
<1>3. Kept(j, [j EXCEPT !.task = t])
  BY <1>1, <1>2
<1>4. ASSUME InProgress(j) = {} PROVE Kept(j, [setStatus(j, "completed") EXCEPT !.task = t])
  <2> DEFINE l == setStatus(j, "completed")
  <2>1. "completed" \in Active \cup Terminal
    BY DEF Terminal
  <2>2. /\ l \in JobType /\ Untouched(j, l) /\ Absorbs(j, l)
        /\ l.events = j.events /\ l.pending = j.pending /\ l.children = j.children
        /\ l.closing = j.closing /\ l.cancelling = j.cancelling
        /\ Sealed(j) => l = j
        /\ ~Sealed(j) /\ ~j.cancelling => l.status = "completed"
        /\ ~Sealed(j) /\ j.cancelling => l.status = "cancelled"
    BY <1>2, <2>1, SetStatusFacts
  <2> HIDE DEF l
  <2>3. Outcome(l)
    <3>1. CASE Sealed(j)
      BY <1>2, <2>2, <3>1
    <3>2. CASE ~Sealed(j)
      <4>1. l.status \in {"completed", "cancelled"} /\ settled(l) /\ (l.cancelling => l.status # "completed")
        BY <2>2, <3>2 DEF settled, Terminal
      <4>2. ASSUME NEW k \in Child, Contains(l.events, <<"opened", k>>) PROVE ClosesChild(l, k)
        <5>1. ClosesChild(j, k) /\ j.status \notin {"failed", "cancelled"} /\ j.children[k] # "in_progress"
          BY <1>2, <1>4, <2>2, <3>2, <4>2 DEF Outcome, Consistent, InProgress, Sealed, settled, Terminal
        <5> QED BY <2>2, <5>1 DEF ClosesChild
      <4> QED BY <4>1, <4>2 DEF Outcome, Consistent, Waits
    <3> QED BY <3>1, <3>2
  <2>4. Kept(j, [l EXCEPT !.task = t])
    BY <1>1, <2>2, <2>3
  <2> QED BY <2>4 DEF l
<1>5. Kept(j, [fail(j) EXCEPT !.task = t])
  <2>1. fail(j) \in JobType /\ Outcome(fail(j)) /\ Untouched(j, fail(j)) /\ Absorbs(j, fail(j))
    BY <1>2, FailKept
  <2> QED BY <1>1, <2>1
<1> QED BY <1>3, <1>4, <1>5

\* executeCode left effects it cannot contain.
LEMMA UncertainKept ==
  ASSUME NEW j \in JobType, Outcome(j), NEW a \in BOOLEAN
  PROVE  LET l == [fail(j) EXCEPT !.aborted = a, !.stopRequested = TRUE]
             m == [fail(j) EXCEPT !.stopRequested = TRUE]
         IN /\ l \in JobType /\ Outcome(l) /\ Untouched(j, l) /\ Absorbs(j, l)
            /\ m \in JobType /\ Outcome(m) /\ Untouched(j, m) /\ Absorbs(j, m)
<1> DEFINE f == fail(j)
           l == [f EXCEPT !.aborted = a, !.stopRequested = TRUE]
           m == [f EXCEPT !.stopRequested = TRUE]
<1>1. f \in JobType /\ Outcome(f) /\ Untouched(j, f) /\ Absorbs(j, f)
  BY FailKept
<1> HIDE DEF f
<1>2. /\ l \in JobType /\ Untouched(f, l) /\ l.status = f.status /\ l.events = f.events
      /\ l.pending = f.pending /\ l.children = f.children
      /\ l.closing = f.closing /\ l.cancelling = f.cancelling
  BY <1>1 DEF JobType, Untouched
<1>3. /\ m \in JobType /\ Untouched(f, m) /\ m.status = f.status /\ m.events = f.events
      /\ m.pending = f.pending /\ m.children = f.children
      /\ m.closing = f.closing /\ m.cancelling = f.cancelling
  BY <1>1 DEF JobType, Untouched
<1> HIDE DEF l, m
<1>4. Outcome(l) /\ Absorbs(f, l)
  BY <1>1, <1>2 DEF Outcome, Consistent, ClosesChild, Waits, OwnPending, settled, Absorbs
<1>5. Outcome(m) /\ Absorbs(f, m)
  BY <1>1, <1>3 DEF Outcome, Consistent, ClosesChild, Waits, OwnPending, settled, Absorbs
<1>6. Untouched(j, l) /\ Absorbs(j, l) /\ Untouched(j, m) /\ Absorbs(j, m)
  BY <1>1, <1>2, <1>3, <1>4, <1>5, Composed
<1> QED BY <1>2, <1>3, <1>4, <1>5, <1>6 DEF l, m, f

\* The children that end are closed in the log by the same step.
LEMMA ClosingKept ==
  ASSUME NEW j, JobOK(j), NEW S \in SUBSET Child, NEW ev \in Seq(LogEvent),
         \A k \in Child : /\ ~Contains(ev, <<"opened", k>>)
                          /\ k \in S => Contains(ev, <<"closed", k>>)
  PROVE  Kept(j, emit(Ended(j, S), ev))
<1> DEFINE d == Ended(j, S)
           l == emit(d, ev)
<1>1. /\ d \in JobType /\ Untouched(j, d) /\ Absorbs(j, d)
      /\ d.status = j.status /\ d.events = j.events /\ OwnPending(d) = OwnPending(j)
      /\ d.closing = j.closing /\ d.cancelling = j.cancelling
      /\ \A h \in Child : d.children[h] = IF h \in S THEN "ended" ELSE j.children[h]
  BY EndedFacts DEF JobOK
<1> HIDE DEF d
<1>2. Waits(d) /\ (d.closing => settled(d)) /\ (d.cancelling => d.status # "completed")
  BY <1>1 DEF JobOK, Outcome, Consistent, Waits, settled
<1>3. ASSUME NEW k \in Child,
             Contains(d.events, <<"opened", k>>) \/ (~settled(d) /\ Contains(ev, <<"opened", k>>))
      PROVE  ClosesChild(d, k) \/ (~settled(d) /\ Contains(ev, <<"closed", k>>))
  <2>1. ClosesChild(j, k)
    BY <1>1, <1>3 DEF JobOK, Outcome, Consistent
  <2>2. CASE k \in S
    BY <1>1, <2>1, <2>2, StatusDisjoint DEF ClosesChild, settled
  <2>3. CASE k \notin S
    BY <1>1, <2>1, <2>3 DEF ClosesChild
  <2> QED BY <2>2, <2>3
<1>4. Consistent(l) /\ Waits(l)
  BY <1>1, <1>2, <1>3, EmitConsistent
<1>5. l \in JobType /\ Untouched(d, l) /\ Absorbs(d, l)
  BY <1>1, EmitFacts
<1> HIDE DEF l
<1>6. Untouched(j, l) /\ Absorbs(j, l)
  BY <1>1, <1>5, Composed
<1>7. Kept(j, l)
  BY <1>4, <1>5, <1>6, KeptJob DEF Outcome
<1> QED BY <1>7 DEF l, d

\* terminate
LEMMA TerminateKept ==
  ASSUME NEW j, JobOK(j), NEW k \in InProgress(j)
  PROVE  Kept(j, terminate(j, k))
<1>1. k \in Child /\ {k} \in SUBSET Child
  BY DEF InProgress
<1>2. /\ <<<<"closed", k>>>> \in Seq(LogEvent)
      /\ \A e : Contains(<<<<"closed", k>>>>, e) <=> e = <<"closed", k>>
  BY <1>1, OneEvent, EventKinds
<1>3. \A h \in Child : /\ ~Contains(<<<<"closed", k>>>>, <<"opened", h>>)
                       /\ h \in {k} => Contains(<<<<"closed", k>>>>, <<"closed", h>>)
  BY <1>1, <1>2, EventKinds
<1>4. terminate(j, k) = emit(Ended(j, {k}), <<<<"closed", k>>>>)
  BY DEF terminate
<1> QED BY <1>1, <1>2, <1>3, <1>4, ClosingKept

\* cancelAll: the doomed children still at work end together, in any order.
LEMMA CancelAllKept ==
  ASSUME NEW j, JobOK(j), NEW order \in Orders(j.doomed \cap InProgress(j))
  PROVE  Kept(j, cancelAll(j, order))
<1> DEFINE S == j.doomed \cap InProgress(j)
           ev == [i \in DOMAIN order |-> <<"closed", order[i]>>]
           n == Cardinality(S)
<1>1. S \in SUBSET Child /\ IsFiniteSet(S)
  BY SupervisorAssumption, FS_Subset DEF InProgress
<1>2. n \in Nat
  BY <1>1, FS_CardinalityType
<1>3. order \in [1..n -> S] /\ \A k \in S : \E i \in DOMAIN order : order[i] = k
  BY DEF Orders
<1> HIDE DEF S, n
<1>4. DOMAIN order = 1..n /\ \A i \in 1..n : <<"closed", order[i]>> \in LogEvent
  BY <1>1, <1>3, EventKinds
<1>5. ev \in Seq(LogEvent) /\ Len(ev) = n /\ \A i \in 1..n : ev[i] = <<"closed", order[i]>>
  <2>1. ev \in [1..n -> LogEvent]
    BY <1>4
  <2> QED BY <1>2, <1>4, <2>1
<1> HIDE DEF ev
<1>6. ASSUME NEW k \in Child
      PROVE  ~Contains(ev, <<"opened", k>>) /\ (k \in S => Contains(ev, <<"closed", k>>))
  <2>1. \A i \in 1..n : order[i] \in Child
    BY <1>1, <1>3
  <2>2. \A i \in 1..n : ev[i] # <<"opened", k>>
    BY <1>5, <2>1, EventKinds
  <2>3. ASSUME k \in S PROVE Contains(ev, <<"closed", k>>)
    <3>1. PICK i \in 1..n : order[i] = k
      BY <1>3, <1>4, <2>3
    <3> QED BY <1>5, <3>1 DEF Contains
  <2> QED BY <1>5, <2>2, <2>3 DEF Contains
<1>7. Kept(j, emit(Ended(j, S), ev))
  BY <1>1, <1>5, <1>6, ClosingKept
<1> QED BY <1>7 DEF cancelAll, S, ev

\* A delegated child at work, refused or at a call of its own; the loss of one fails the job.
LEMMA DelegationKept ==
  ASSUME NEW j, JobOK(j), NEW k \in Child
  PROVE  /\ j.children[k] = "none" => Kept(j, Becomes(j, k, "asked"))
         /\ j.children[k] = "asked" =>
              /\ Kept(j, emit(Becomes(j, k, "in_progress"), <<<<"opened", k>>>>))
              /\ Kept(j, emit(Becomes(j, k, "refused"), <<Output>>))
         /\ \A c \in ChildCall : Kept(j, emit(Raised(j, c), <<Output>>))
         /\ k \in InProgress(j) =>
              Kept(j, [fail(terminate(j, k)) EXCEPT !.stopRequested = TRUE])
<1>1. j \in JobType
  BY DEF JobOK
<1>2. ASSUME j.children[k] = "none" PROVE Kept(j, Becomes(j, k, "asked"))
  <2> DEFINE l == Becomes(j, k, "asked")
  <2>1. /\ l \in JobType /\ Untouched(j, l) /\ Absorbs(j, l)
        /\ l.status = j.status /\ l.events = j.events /\ l.pending = j.pending
        /\ l.closing = j.closing /\ l.cancelling = j.cancelling
        /\ \A h \in Child : l.children[h] = IF h = k THEN "asked" ELSE j.children[h]
    BY <1>1, BecomesFacts
  <2> HIDE DEF l
  <2>2. Kept(j, emit(l, <<Output>>)) /\ Outcome(l)
    BY <1>2, <2>1, OutputKept DEF OwnPending
  <2>3. Kept(j, l)
    BY <2>1, <2>2, KeptJob
  <2> QED BY <2>3 DEF l
<1>3. ASSUME j.children[k] = "asked"
      PROVE  Kept(j, emit(Becomes(j, k, "in_progress"), <<<<"opened", k>>>>))
  <2> DEFINE d == Becomes(j, k, "in_progress")
             ev == <<<<"opened", k>>>>
             l == emit(d, ev)
  <2>1. /\ d \in JobType /\ Untouched(j, d) /\ Absorbs(j, d)
        /\ d.status = j.status /\ d.events = j.events /\ d.pending = j.pending
        /\ d.closing = j.closing /\ d.cancelling = j.cancelling
        /\ \A h \in Child : d.children[h] = IF h = k THEN "in_progress" ELSE j.children[h]
    BY <1>1, BecomesFacts
  <2>2. ev \in Seq(LogEvent) /\ \A e : Contains(ev, e) <=> e = <<"opened", k>>
    BY OneEvent, EventKinds
  <2> HIDE DEF d, ev
  <2>3. Waits(d) /\ (d.closing => settled(d)) /\ (d.cancelling => d.status # "completed")
    BY <2>1 DEF JobOK, Outcome, Consistent, Waits, OwnPending, settled
  <2>4. ASSUME NEW h \in Child,
               Contains(d.events, <<"opened", h>>) \/ (~settled(d) /\ Contains(ev, <<"opened", h>>))
        PROVE  ClosesChild(d, h)
    <3>1. d.status \in Active \cup Terminal
      BY <2>1 DEF JobType
    <3>2. CASE Contains(d.events, <<"opened", h>>)
      <4>1. ClosesChild(j, h)
        BY <2>1, <3>2 DEF JobOK, Outcome, Consistent
      <4> QED BY <1>3, <2>1, <4>1 DEF ClosesChild
    <3>3. CASE ~settled(d) /\ Contains(ev, <<"opened", h>>)
      <4>1. h = k
        BY <2>2, <3>3, EventKinds
      <4> QED BY <2>1, <3>1, <3>3, <4>1 DEF ClosesChild, settled
    <3> QED BY <2>4, <3>2, <3>3
  <2>5. Consistent(l) /\ Waits(l)
    BY <2>1, <2>2, <2>3, <2>4, EmitConsistent
  <2>6. l \in JobType /\ Untouched(d, l) /\ Absorbs(d, l)
    BY <2>1, <2>2, EmitFacts
  <2> HIDE DEF l
  <2>7. Untouched(j, l) /\ Absorbs(j, l)
    BY <2>1, <2>6, Composed
  <2>8. Kept(j, l)
    BY <2>5, <2>6, <2>7, KeptJob DEF Outcome
  <2> QED BY <2>8 DEF l, d, ev
<1>4. ASSUME j.children[k] = "asked" PROVE Kept(j, emit(Becomes(j, k, "refused"), <<Output>>))
  <2> DEFINE l == Becomes(j, k, "refused")
  <2>1. /\ l \in JobType /\ Untouched(j, l) /\ Absorbs(j, l)
        /\ l.status = j.status /\ l.events = j.events /\ l.pending = j.pending
        /\ l.closing = j.closing /\ l.cancelling = j.cancelling
        /\ \A h \in Child : l.children[h] = IF h = k THEN "refused" ELSE j.children[h]
    BY <1>1, BecomesFacts
  <2> HIDE DEF l
  <2>2. Kept(j, emit(l, <<Output>>))
    BY <1>4, <2>1, OutputKept DEF OwnPending
  <2> QED BY <2>2 DEF l
<1>5. ASSUME NEW c \in ChildCall PROVE Kept(j, emit(Raised(j, c), <<Output>>))
  <2> DEFINE l == Raised(j, c)
  <2>1. /\ l \in JobType /\ Untouched(j, l) /\ Absorbs(j, l)
        /\ l.status = j.status /\ l.events = j.events /\ l.pending = j.pending \cup {c}
        /\ l.closing = j.closing /\ l.cancelling = j.cancelling /\ l.children = j.children
    BY <1>1, RaisedFacts
  <2> HIDE DEF l
  <2>2. OwnPending(l) = OwnPending(j)
    BY <2>1, SupervisorAssumption DEF OwnPending
  <2>3. Kept(j, emit(l, <<Output>>))
    BY <2>1, <2>2, OutputKept
  <2> QED BY <2>3 DEF l
<1>6. ASSUME k \in InProgress(j)
      PROVE  Kept(j, [fail(terminate(j, k)) EXCEPT !.stopRequested = TRUE])
  <2> DEFINE d == terminate(j, k)
             m == [fail(d) EXCEPT !.stopRequested = TRUE]
  <2>1. JobOK(d) /\ Untouched(j, d) /\ Absorbs(j, d)
    BY <1>6, TerminateKept DEF Kept
  <2> HIDE DEF d
  <2>2. d \in JobType /\ Outcome(d)
    BY <2>1 DEF JobOK
  <2>3. m \in JobType /\ Outcome(m) /\ Untouched(d, m) /\ Absorbs(d, m)
    BY <2>2, UncertainKept
  <2> HIDE DEF m
  <2>4. Untouched(j, m) /\ Absorbs(j, m)
    BY <2>1, <2>3, Composed
  <2>5. Kept(j, m)
    BY <2>3, <2>4, KeptJob
  <2> QED BY <2>5 DEF m, d
<1> QED BY <1>2, <1>3, <1>4, <1>5, <1>6

-----------------------------------------------------------------------------
(***************************************************************************)
(* What the stop sequence and the commands make of a job.                  *)
(***************************************************************************)
SameCommands(j, l) == l.operations = j.operations /\ l.applied = j.applied
\* A step of the stop sequence or of a start takes the job to a stage.
Staged(j, l, s) == JobOK(l) /\ SameCommands(j, l) /\ Absorbs(j, l) /\ l.stage = s

\* A job that leaves a stage in which nothing can be saved.
LEMMA StagedJob ==
  ASSUME NEW j, NEW l, NEW s \in Stage, JobOK(j), l \in JobType, Outcome(l),
         SameCommands(j, l), Absorbs(j, l), l.saved = j.saved,
         l.stage = s, l.native <=> s \in Running, j.stage # "stopped"
  PROVE  Staged(j, l, s)
<1>1. Counted(l)
  BY DEF JobOK, Counted, SameCommands
<1>2. l.saved = "none"
  BY DEF JobOK
<1> QED BY <1>1, <1>2 DEF JobOK, Staged

\* BeginStop: the first caller starts the sequence, the others join it.
LEMMA BeginStopFacts ==
  ASSUME NEW j, JobOK(j)
  PROVE  Staged(j, BeginStop(j), IF j.stage \in {"starting", "up"} THEN "children" ELSE j.stage)
<1>1. CASE j.stage \notin {"starting", "up"}
  BY <1>1 DEF BeginStop, Staged, SameCommands, Absorbs
<1>2. CASE j.stage \in {"starting", "up"}
  <2> DEFINE r == requestCancel(j)
             doomed == InProgress(j)
             l == [r EXCEPT !.stage = "children", !.doomed = doomed]
  <2>1. BeginStop(j) = l /\ doomed \in SUBSET Child /\ j \in JobType /\ Outcome(j)
    BY <1>2 DEF BeginStop, InProgress, JobOK
  <2>2. /\ r \in JobType /\ r.status = j.status /\ Untouched(j, r) /\ Absorbs(j, r)
        /\ r.events = j.events /\ r.pending = j.pending /\ r.children = j.children
        /\ r.closing = j.closing
        /\ Sealed(j) => r = j
    BY <2>1, RequestCancelFacts
  <2>3. Outcome(r)
    BY <2>1, <2>2 DEF Outcome, Consistent, ClosesChild, Waits, OwnPending, Sealed, settled, Terminal,
                      requestCancel
  <2> HIDE DEF r, doomed
  <2>4. l \in JobType
    BY <2>1, <2>2 DEF JobType, Stage
  <2>5. /\ l.stage = "children" /\ l.native = r.native /\ l.saved = r.saved
        /\ l.operations = r.operations /\ l.applied = r.applied /\ l.status = r.status
        /\ l.events = r.events /\ l.pending = r.pending /\ l.children = r.children
        /\ l.closing = r.closing /\ l.cancelling = r.cancelling
    BY <2>2 DEF JobType
  <2> HIDE DEF l
  <2>6. Outcome(l) /\ Absorbs(j, l) /\ SameCommands(j, l) /\ l.saved = j.saved
    BY <2>2, <2>3, <2>5 DEF Outcome, Consistent, ClosesChild, Waits, OwnPending, settled, Absorbs,
                           Untouched, SameCommands
  <2>7. l.native <=> "children" \in Running
    BY <1>2, <2>2, <2>5 DEF JobOK, Untouched, Running
  <2>8. Staged(j, l, "children")
    BY <1>2, <2>4, <2>5, <2>6, <2>7, StagedJob DEF Stage
  <2> QED BY <1>2, <2>1, <2>8
<1> QED BY <1>1, <1>2

\* A job that moves on to the next stage of its start or stop, its processes still there.
LEMMA AdvanceStaged ==
  ASSUME NEW j, JobOK(j), NEW l, Kept(j, l), NEW s \in Running, j.stage \in Running
  PROVE  Staged(j, [l EXCEPT !.stage = s], s)
<1> DEFINE m == [l EXCEPT !.stage = s]
<1>1. l \in JobType /\ Outcome(l) /\ Untouched(j, l) /\ Absorbs(j, l)
  BY DEF Kept, JobOK
<1>2. s \in Stage
  BY DEF Stage, Running
<1>3. /\ m \in JobType /\ m.stage = s /\ m.native = l.native /\ m.saved = l.saved
      /\ m.operations = l.operations /\ m.applied = l.applied /\ m.status = l.status
      /\ m.events = l.events /\ m.pending = l.pending /\ m.children = l.children
      /\ m.closing = l.closing /\ m.cancelling = l.cancelling
  BY <1>1, <1>2 DEF JobType
<1> HIDE DEF m
<1>4. Outcome(m) /\ Absorbs(j, m) /\ SameCommands(j, m) /\ m.saved = j.saved
  BY <1>1, <1>3 DEF Outcome, Consistent, ClosesChild, Waits, OwnPending, settled, Absorbs,
                    Untouched, SameCommands
<1>5. m.native <=> s \in Running
  BY <1>1, <1>3 DEF JobOK, Untouched
<1>6. j.stage # "stopped"
  BY DEF Running
<1>7. Staged(j, m, s)
  BY <1>2, <1>3, <1>4, <1>5, <1>6, StagedJob
<1> QED BY <1>7 DEF m

\* close, abort and abandon.
LEMMA InterruptedStaged ==
  ASSUME NEW j, JobOK(j), j.stage = "interrupt"
  PROVE  Staged(j, [close(j) EXCEPT !.stage = "teardown", !.aborted = TRUE, !.pending = @ \ Call],
                "teardown")
<1> DEFINE l == close(j)
           pending == l.pending \ Call
           m == [l EXCEPT !.stage = "teardown", !.aborted = TRUE, !.pending = pending]
<1>1. j \in JobType /\ Outcome(j)
  BY DEF JobOK
<1>2. /\ l \in JobType /\ l.closing /\ settled(l) /\ Untouched(j, l) /\ Absorbs(j, l)
      /\ l.status = IF settled(j) THEN j.status ELSE "cancelled"
      /\ l.events = j.events /\ l.cancelling = j.cancelling
      /\ l.pending = j.pending /\ l.children = j.children
  BY <1>1, CloseFacts
<1>3. pending \in SUBSET (Call \cup ChildCall)
  BY <1>2 DEF JobType
<1> HIDE DEF l, pending
<1>4. m \in JobType
  BY <1>2, <1>3 DEF JobType, Stage
<1>5. /\ m.stage = "teardown" /\ m.native = l.native /\ m.saved = l.saved
      /\ m.operations = l.operations /\ m.applied = l.applied /\ m.status = l.status
      /\ m.events = l.events /\ m.children = l.children
      /\ m.closing = l.closing /\ m.cancelling = l.cancelling
  BY <1>2 DEF JobType
<1> HIDE DEF m
<1>6. Absorbs(j, m) /\ SameCommands(j, m) /\ m.saved = j.saved /\ settled(m)
  BY <1>2, <1>5 DEF settled, Absorbs, Untouched, SameCommands
<1>7. Outcome(m)
  <2>1. m.cancelling => m.status # "completed"
    BY <1>1, <1>2, <1>5 DEF Outcome, Consistent
  <2>2. ASSUME NEW k \in Child, Contains(m.events, <<"opened", k>>) PROVE ClosesChild(m, k)
    <3>1. ClosesChild(j, k)
      BY <1>1, <1>2, <1>5, <2>2 DEF Outcome, Consistent
    <3>2. CASE settled(j)
      BY <1>2, <1>5, <3>1, <3>2 DEF ClosesChild
    <3>3. CASE ~settled(j)
      BY <1>2, <1>5, <3>3 DEF ClosesChild
    <3> QED BY <3>2, <3>3
  <2> QED BY <1>6, <2>1, <2>2 DEF Outcome, Consistent, Waits
<1>8. m.native <=> "teardown" \in Running
  BY <1>2, <1>5 DEF JobOK, Untouched, Running
<1>9. Staged(j, m, "teardown")
  BY <1>4, <1>5, <1>6, <1>7, <1>8, StagedJob DEF Stage
<1> QED BY <1>9 DEF m, l, pending

\* teardown: the runtime's processes are gone.
LEMMA TornDownStaged ==
  ASSUME NEW j, JobOK(j), j.stage = "teardown"
  PROVE  Staged(j, [j EXCEPT !.stage = "stopped", !.native = FALSE, !.stopRequested = TRUE], "stopped")
<1> DEFINE m == [j EXCEPT !.stage = "stopped", !.native = FALSE, !.stopRequested = TRUE]
<1>1. j \in JobType /\ Outcome(j)
  BY DEF JobOK
<1>2. m \in JobType
  BY <1>1 DEF JobType, Stage
<1>3. /\ m.stage = "stopped" /\ m.native = FALSE /\ m.saved = j.saved
      /\ m.operations = j.operations /\ m.applied = j.applied /\ m.status = j.status
      /\ m.events = j.events /\ m.pending = j.pending /\ m.children = j.children
      /\ m.closing = j.closing /\ m.cancelling = j.cancelling
  BY <1>1 DEF JobType
<1> HIDE DEF m
<1>4. Outcome(m) /\ Absorbs(j, m) /\ SameCommands(j, m)
  BY <1>1, <1>3 DEF Outcome, Consistent, ClosesChild, Waits, OwnPending, settled, Absorbs, SameCommands
<1>5. m.native <=> "stopped" \in Running
  BY <1>3 DEF Running
<1>6. Staged(j, m, "stopped")
  BY <1>2, <1>3, <1>4, <1>5, StagedJob DEF Stage
<1> QED BY <1>6 DEF m

\* start: the job of a turn that never ran.
LEMMA BeginStartStaged ==
  ASSUME NEW j, JobOK(j), j.stage = "none"
  PROVE  Staged(j, [j EXCEPT !.stage = "starting", !.native = TRUE], "starting")
<1> DEFINE m == [j EXCEPT !.stage = "starting", !.native = TRUE]
<1>1. j \in JobType /\ Outcome(j)
  BY DEF JobOK
<1>2. m \in JobType
  BY <1>1 DEF JobType, Stage
<1>3. /\ m.stage = "starting" /\ m.native = TRUE /\ m.saved = j.saved
      /\ m.operations = j.operations /\ m.applied = j.applied /\ m.status = j.status
      /\ m.events = j.events /\ m.pending = j.pending /\ m.children = j.children
      /\ m.closing = j.closing /\ m.cancelling = j.cancelling
  BY <1>1 DEF JobType
<1> HIDE DEF m
<1>4. Outcome(m) /\ Absorbs(j, m) /\ SameCommands(j, m)
  BY <1>1, <1>3 DEF Outcome, Consistent, ClosesChild, Waits, OwnPending, settled, Absorbs, SameCommands
<1>5. m.native <=> "starting" \in Running
  BY <1>3 DEF Running
<1>6. Staged(j, m, "starting")
  BY <1>2, <1>3, <1>4, <1>5, StagedJob DEF Stage
<1> QED BY <1>6 DEF m

\* captureHome: of a completed turn whose processes are gone.
LEMMA SavedStaged ==
  ASSUME NEW j, JobOK(j), j.status = "completed", j.stage = "stopped",
         NEW s \in {"none", "capturing", "saved"}
  PROVE  Staged(j, [j EXCEPT !.saved = s], "stopped")
<1> DEFINE m == [j EXCEPT !.saved = s]
<1>1. j \in JobType /\ Outcome(j)
  BY DEF JobOK
<1>2. m \in JobType
  BY <1>1 DEF JobType
<1>3. /\ m.stage = j.stage /\ m.native = j.native
      /\ m.operations = j.operations /\ m.applied = j.applied /\ m.status = j.status
      /\ m.events = j.events /\ m.pending = j.pending /\ m.children = j.children
      /\ m.closing = j.closing /\ m.cancelling = j.cancelling
  BY <1>1 DEF JobType
<1> HIDE DEF m
<1>4. Outcome(m) /\ Absorbs(j, m) /\ SameCommands(j, m) /\ Counted(m)
  BY <1>1, <1>3 DEF Outcome, Consistent, ClosesChild, Waits, OwnPending, settled, Absorbs, SameCommands,
                    JobOK, Counted
<1>5. JobOK(m)
  BY <1>2, <1>3, <1>4 DEF JobOK
<1>6. Staged(j, m, "stopped")
  BY <1>3, <1>4, <1>5 DEF Staged
<1> QED BY <1>6 DEF m

\* Operations: an id is remembered with its verdict.
LEMMA RemembersFacts ==
  ASSUME NEW j, JobOK(j), NEW id \in Id, NEW v \in {"underway", "ok", "rejected", "failed"}
  PROVE  LET l == Remembers(j, id, v)
         IN /\ JobOK(l) /\ Absorbs(j, l) /\ l.stage = j.stage
            /\ l.applied = j.applied /\ l.operations[id] # "none"
<1> DEFINE operations == [j.operations EXCEPT ![id] = v]
           l == Remembers(j, id, v)
<1>1. j \in JobType /\ Outcome(j) /\ Counted(j)
  BY DEF JobOK
<1>2. /\ operations \in [Id -> {"none", "underway", "ok", "rejected", "failed"}]
      /\ operations[id] = v
      /\ \A i \in Id : operations[i] = "none" => j.operations[i] = "none"
  BY <1>1 DEF JobType
<1>3. l = [j EXCEPT !.operations = operations]
  BY DEF Remembers
<1> HIDE DEF operations
<1>4. l \in JobType
  BY <1>1, <1>2, <1>3 DEF JobType
<1>5. /\ l.stage = j.stage /\ l.native = j.native /\ l.saved = j.saved
      /\ l.operations = operations /\ l.applied = j.applied /\ l.status = j.status
      /\ l.events = j.events /\ l.pending = j.pending /\ l.children = j.children
      /\ l.closing = j.closing /\ l.cancelling = j.cancelling
  BY <1>1, <1>3 DEF JobType
<1> HIDE DEF l
<1>6. Outcome(l) /\ Absorbs(j, l)
  BY <1>1, <1>5 DEF Outcome, Consistent, ClosesChild, Waits, OwnPending, settled, Absorbs
<1>7. Counted(l)
  BY <1>1, <1>2, <1>5 DEF Counted
<1>8. JobOK(l)
  BY <1>4, <1>5, <1>6, <1>7 DEF JobOK
<1>9. l.operations[id] # "none"
  BY <1>2, <1>5
<1> QED BY <1>5, <1>6, <1>8, <1>9 DEF l

\* A command reaches the runtime for the first time.
LEMMA ReachedFacts ==
  ASSUME NEW j, JobOK(j), request.command.id \in Id,
         j.operations[request.command.id] # "none", j.applied[request.command.id] = 0
  PROVE  JobOK(Reached(j)) /\ Absorbs(j, Reached(j)) /\ Reached(j).stage = j.stage
<1> DEFINE id == request.command.id
           n == IF j.applied[id] < 2 THEN j.applied[id] + 1 ELSE j.applied[id]
           applied == [j.applied EXCEPT ![id] = n]
           l == Reached(j)
<1>1. j \in JobType /\ Outcome(j) /\ Counted(j)
  BY DEF JobOK
<1>2. n = 1
  OBVIOUS
<1>3. l = [j EXCEPT !.applied = applied]
  BY DEF Reached
<1>4. applied \in [Id -> 0..2]
  BY <1>1, <1>2 DEF JobType
<1>5. \A i \in Id : applied[i] <= 1 /\ (j.operations[i] = "none" => applied[i] = 0)
  BY <1>1, <1>2 DEF JobType, Counted
<1> HIDE DEF n, applied
<1>6. l \in JobType
  BY <1>1, <1>3, <1>4 DEF JobType
<1>7. /\ l.stage = j.stage /\ l.native = j.native /\ l.saved = j.saved
      /\ l.operations = j.operations /\ l.applied = applied /\ l.status = j.status
      /\ l.events = j.events /\ l.pending = j.pending /\ l.children = j.children
      /\ l.closing = j.closing /\ l.cancelling = j.cancelling
  BY <1>1, <1>3 DEF JobType
<1> HIDE DEF l
<1>8. Outcome(l) /\ Absorbs(j, l)
  BY <1>1, <1>7 DEF Outcome, Consistent, ClosesChild, Waits, OwnPending, settled, Absorbs
<1>9. Counted(l)
  BY <1>5, <1>7 DEF Counted
<1>10. JobOK(l)
  BY <1>6, <1>7, <1>8, <1>9 DEF JobOK
<1> QED BY <1>7, <1>8, <1>10 DEF l

\* A client's result, for the job's own runtime or for a child.
LEMMA ResultKept ==
  ASSUME NEW j, JobOK(j)
  PROVE  /\ \A c \in Call : TakesResult(j, c) => Kept(j, answered(j, c))
         /\ request.command.call \in ChildCall => Kept(j, Unpended(j))
<1>1. j \in JobType /\ Outcome(j)
  BY DEF JobOK
<1>2. ASSUME NEW c PROVE
        LET d == [j EXCEPT !.pending = @ \ {c}]
        IN /\ d \in JobType /\ Untouched(j, d) /\ Absorbs(j, d)
           /\ d.status = j.status /\ d.events = j.events /\ d.pending = j.pending \ {c}
           /\ d.closing = j.closing /\ d.cancelling = j.cancelling /\ d.children = j.children
           /\ Consistent(d)
  <2> DEFINE pending == j.pending \ {c}
             d == [j EXCEPT !.pending = pending]
  <2>1. pending \in SUBSET (Call \cup ChildCall)
    BY <1>1 DEF JobType
  <2> HIDE DEF pending
  <2>2. d \in JobType
    BY <1>1, <2>1 DEF JobType
  <2>3. /\ Untouched(j, d) /\ Absorbs(j, d)
        /\ d.status = j.status /\ d.events = j.events /\ d.pending = pending
        /\ d.closing = j.closing /\ d.cancelling = j.cancelling /\ d.children = j.children
    BY <1>1 DEF JobType, Untouched, Absorbs
  <2> HIDE DEF d
  <2>4. Consistent(d)
    BY <1>1, <2>3 DEF Outcome, Consistent, ClosesChild, settled
  <2> QED BY <2>2, <2>3, <2>4 DEF d, pending
<1>3. ASSUME NEW c \in Call, TakesResult(j, c) PROVE Kept(j, answered(j, c))
  <2> DEFINE d == [j EXCEPT !.pending = @ \ {c}]
             s == IF OwnPending(j) \ {c} # {} THEN "waiting" ELSE "running"
             l == setStatus(d, s)
  <2>1. /\ d \in JobType /\ Untouched(j, d) /\ Absorbs(j, d)
        /\ d.status = j.status /\ d.events = j.events /\ d.pending = j.pending \ {c}
        /\ d.closing = j.closing /\ d.cancelling = j.cancelling /\ d.children = j.children
        /\ Consistent(d)
    BY <1>2
  <2>2. OwnPending(d) = OwnPending(j) \ {c}
    BY <2>1 DEF OwnPending
  <2> HIDE DEF d
  <2>3. /\ s \in Active \cup Terminal /\ s \in Active
        /\ s = "waiting" <=> OwnPending(d) # {}
    BY <2>2 DEF Active
  <2> HIDE DEF s
  <2>4. ~Sealed(d) /\ d.status \in Active
    BY <1>3, <2>1 DEF TakesResult, Sealed, settled, Active, Terminal
  <2>5. /\ l \in JobType /\ Untouched(d, l) /\ Absorbs(d, l)
        /\ l.events = d.events /\ l.pending = d.pending /\ l.children = d.children
        /\ l.closing = d.closing /\ l.cancelling = d.cancelling
        /\ ~Sealed(d) /\ ~d.cancelling => l.status = s
        /\ ~Sealed(d) /\ d.cancelling =>
             l.status = IF s \in {"completed", "cancelled"} THEN "cancelled" ELSE d.status
    BY <2>1, <2>3, SetStatusFacts
  <2> HIDE DEF l
  <2>6. l.status \in Active /\ (~d.cancelling => l.status = s)
    BY <2>3, <2>4, <2>5 DEF Active
  <2>7. Consistent(l)
    <3>1. l.status # "completed" /\ ~settled(l)
      BY <2>6 DEF Active, settled, Terminal
    <3>2. ~l.closing
      BY <2>4, <2>5 DEF Sealed
    <3>3. ASSUME NEW k \in Child, Contains(l.events, <<"opened", k>>) PROVE ClosesChild(l, k)
      <4>1. ClosesChild(d, k) /\ d.status \notin {"failed", "cancelled"}
        BY <2>1, <2>4, <2>5, <3>3 DEF Consistent, Active
      <4> QED BY <2>5, <2>6, <4>1 DEF ClosesChild
    <3> QED BY <3>1, <3>2, <3>3 DEF Consistent
  <2>8. Waits(l)
    BY <2>3, <2>5, <2>6 DEF Waits, OwnPending
  <2>9. Untouched(j, l) /\ Absorbs(j, l)
    BY <2>1, <2>5, Composed
  <2>10. Kept(j, l)
    BY <2>5, <2>7, <2>8, <2>9, KeptJob DEF Outcome
  <2> QED BY <2>10 DEF answered, l, s, d
<1>4. ASSUME request.command.call \in ChildCall PROVE Kept(j, Unpended(j))
  <2> DEFINE c == request.command.call
             d == [j EXCEPT !.pending = @ \ {c}]
  <2>1. /\ d \in JobType /\ Untouched(j, d) /\ Absorbs(j, d)
        /\ d.status = j.status /\ d.events = j.events /\ d.pending = j.pending \ {c}
        /\ d.closing = j.closing /\ d.cancelling = j.cancelling /\ d.children = j.children
        /\ Consistent(d)
    BY <1>2
  <2>2. OwnPending(d) = OwnPending(j)
    BY <1>4, <2>1, SupervisorAssumption DEF OwnPending
  <2>3. Unpended(j) = d
    BY DEF Unpended
  <2> HIDE DEF d
  <2>4. Waits(d)
    BY <1>1, <2>1, <2>2 DEF Outcome, Waits, settled
  <2>5. Kept(j, d)
    BY <2>1, <2>4, KeptJob DEF Outcome
  <2> QED BY <2>3, <2>5
<1> QED BY <1>3, <1>4

-----------------------------------------------------------------------------
(***************************************************************************)
(* The invariant                                                           *)
(***************************************************************************)
RequestType ==
  [op : {"none", "start", "checkpoint", "control"}, turn : 0..MaxTurn, command : Command \cup {"none"},
   at : {"idle", "admitted", "transition", "stopping", "starting", "failing", "capturing", "applying"}]
PageType == [cursor : Nat, status : Terminal]

\* Only the active job runs; the jobs of later turns are untouched.
SlotShape ==
  \A g \in Turn : /\ g # slot => job[g].stage \in {"none", "stopped"}
                  /\ g > slot => job[g].stage = "none"
ToldFinal ==
  \A g \in Turn : \A p \in told[g] :
    settled(job[g]) /\ p = [cursor |-> Len(job[g].events), status |-> job[g].status]
JobInv ==
  /\ slot \in 0..MaxTurn /\ job \in [Turn -> JobType] /\ told \in [Turn -> SUBSET PageType]
  /\ \A g \in Turn : JobOK(job[g])
  /\ SlotShape /\ ToldFinal

\* How far the request that has the lifecycle permit got.
Asking == request.op = "start" /\ request.at \in {"admitted", "transition", "stopping"}
StartShape ==
  /\ Asking => request.turn \in Turn /\ request.turn > slot
  /\ At("start", "admitted") => slot = 0
  /\ At("start", "starting") => job[slot].stage = "starting"
CheckpointShape ==
  request.op = "checkpoint" =>
    /\ job[slot].status = "completed"
    /\ request.at = "capturing" => job[slot].stage = "stopped"
ControlShape ==
  request.op = "control" =>
    /\ request.command \in Command
    /\ job[slot].operations[request.command.id] # "none"
    /\ job[slot].applied[request.command.id] = 0
    /\ Command_("tool_result") /\ request.at = "applying" => request.command.call \in ChildCall
RequestShape ==
  /\ ~Unasked /\ ~At("start", "admitted") => slot # 0
  /\ StartShape /\ CheckpointShape /\ ControlShape

SupInv == JobInv /\ request \in RequestType /\ RequestShape

\* A step that leaves everything but the transition permits alone.
LEMMA SameInv ==
  ASSUME SupInv, slot' = slot, told' = told, request' = request, job' = job
  PROVE  SupInv'
BY DEF SupInv, JobInv, SlotShape, ToldFinal, RequestShape, StartShape, CheckpointShape, ControlShape,
       Unasked, At, Asking, Command_

\* The active job, or one whose stage the step leaves alone.
LEMMA JobStep ==
  ASSUME JobInv, NEW g \in Turn, NEW l, Only(g, l), JobOK(l), Absorbs(job[g], l),
         slot' = slot, told' = told, g = slot \/ l.stage = job[g].stage
  PROVE  JobInv'
<1>1. /\ job' \in [Turn -> JobType] /\ job'[g] = l
      /\ \A h \in Turn : h # g => job'[h] = job[h]
  BY DEF JobInv, Only, JobOK
<1>2. \A h \in Turn : JobOK(job'[h])
  BY <1>1 DEF JobInv
<1>3. SlotShape'
  <2> SUFFICES ASSUME NEW h \in Turn
               PROVE  /\ h # slot => job'[h].stage \in {"none", "stopped"}
                      /\ h > slot => job'[h].stage = "none"
    BY DEF SlotShape
  <2>1. g \in Int /\ slot \in Int
    BY DEF JobInv, Turn
  <2>2. CASE h # g
    BY <1>1, <2>2 DEF JobInv, SlotShape
  <2>3. CASE h = g /\ g = slot
    BY <2>1, <2>3
  <2>4. CASE h = g /\ g # slot
    BY <1>1, <2>4 DEF JobInv, SlotShape
  <2> QED BY <2>2, <2>3, <2>4
<1>4. ToldFinal'
  <2> SUFFICES ASSUME NEW h \in Turn, NEW p \in told[h]
               PROVE  settled(job'[h]) /\ p = [cursor |-> Len(job'[h].events), status |-> job'[h].status]
    BY DEF ToldFinal
  <2>1. settled(job[h]) /\ p = [cursor |-> Len(job[h].events), status |-> job[h].status]
    BY DEF JobInv, ToldFinal
  <2>2. job'[h].status = job[h].status /\ job'[h].events = job[h].events
    BY <1>1, <2>1 DEF Absorbs
  <2> QED BY <2>1, <2>2 DEF settled
<1> QED BY <1>1, <1>2, <1>3, <1>4 DEF JobInv

\* A request that is not served in this step is where it was.
LEMMA ShapeKept ==
  ASSUME SupInv, NEW g \in Turn, NEW l, Only(g, l), SameCommands(job[g], l), Absorbs(job[g], l),
         slot' = slot, request' = request,
         l.stage = job[g].stage \/ job[g].stage \notin {"starting", "stopped"}
  PROVE  request' \in RequestType /\ RequestShape'
<1>1. job'[g] = l /\ \A h \in Turn : h # g => job'[h] = job[h]
  BY DEF SupInv, JobInv, Only
<1>2. request' \in RequestType
  BY DEF SupInv
<1>3. ~Unasked' /\ ~At("start", "admitted")' => slot' # 0 /\ slot \in Turn
  BY DEF SupInv, RequestShape, Unasked, At, JobInv, Turn
<1>4. StartShape'
  <2>1. Asking' => request'.turn \in Turn /\ request'.turn > slot'
    BY DEF SupInv, RequestShape, StartShape, Asking
  <2>2. At("start", "admitted")' => slot' = 0
    BY DEF SupInv, RequestShape, StartShape, At
  <2>3. At("start", "starting")' => job'[slot].stage = "starting"
    BY <1>1, <1>3 DEF SupInv, RequestShape, StartShape, At, Unasked
  <2> QED BY <2>1, <2>2, <2>3 DEF StartShape
<1>5. CheckpointShape'
  BY <1>1, <1>3 DEF SupInv, RequestShape, CheckpointShape, At, Unasked, Absorbs, settled, Terminal
<1>6. ControlShape'
  BY <1>1, <1>3 DEF SupInv, RequestShape, ControlShape, At, Unasked, SameCommands, Command_
<1> QED BY <1>2, <1>3, <1>4, <1>5, <1>6 DEF RequestShape

\* Only the active job has processes.
LEMMA RunningIsActive ==
  ASSUME JobInv, NEW g \in Turn, job[g].native \/ job[g].stage \notin {"none", "stopped"}
  PROVE  g = slot /\ JobOK(job[g])
BY DEF JobInv, SlotShape, JobOK, Running

\* Every callback of the runtime keeps its job consistent.
LEMMA NativeKept ==
  ASSUME JobInv, NEW g \in Turn, Native(g)
  PROVE  \E l : Callback(g, l) /\ Kept(job[g], l)
<1> DEFINE j == job[g]
<1>1. JobOK(j) /\ j \in JobType /\ Outcome(j)
  BY DEF JobInv, JobOK
<1>2. CASE Emit(g)
  BY <1>1, <1>2, EmitKept DEF Emit
<1>3. CASE TaskEnds(g)
  <2>1. Kept(j, [j EXCEPT !.task = "settling"])
    BY <1>1, TaskKept
  <2> QED BY <1>3, <2>1 DEF TaskEnds
<1>4. CASE TaskSettles(g)
  <2>1. Kept(j, [setStatus(j, "completed") EXCEPT !.task = "done"])
    BY <1>1, <1>4, TaskKept DEF TaskSettles
  <2> QED BY <1>4, <2>1 DEF TaskSettles
<1>5. CASE TaskFails(g)
  <2>1. Kept(j, [fail(j) EXCEPT !.task = "done"])
    BY <1>1, TaskKept
  <2> QED BY <1>5, <2>1 DEF TaskFails
<1>6. CASE CodeUncertain(g)
  <2> DEFINE l == [fail(j) EXCEPT !.aborted = TRUE, !.stopRequested = TRUE]
  <2>1. l \in JobType /\ Outcome(l) /\ Untouched(j, l) /\ Absorbs(j, l)
    BY <1>1, UncertainKept
  <2> HIDE DEF l
  <2>2. Kept(j, l)
    BY <1>1, <2>1, KeptJob
  <2> QED BY <1>6, <2>2 DEF CodeUncertain, l
<1>7. ASSUME NEW c \in Call, RaiseCall(g, c) PROVE \E l : Callback(g, l) /\ Kept(j, l)
  <2>1. Kept(j, setStatus(emit(Raised(j, c), <<Output>>), "waiting"))
    BY <1>1, RaiseKept
  <2> QED BY <1>7, <2>1 DEF RaiseCall
<1>8. ASSUME NEW k \in Child, SpawnAsked(g, k) \/ SpawnAnswered(g, k) \/ SpawnRefused(g, k)
      PROVE \E l : Callback(g, l) /\ Kept(j, l)
  <2>1. CASE SpawnAsked(g, k)
    BY <1>1, <2>1, DelegationKept DEF SpawnAsked
  <2>2. CASE SpawnAnswered(g, k)
    BY <1>1, <2>2, DelegationKept DEF SpawnAnswered
  <2>3. CASE SpawnRefused(g, k)
    BY <1>1, <2>3, DelegationKept DEF SpawnRefused
  <2> QED BY <1>8, <2>1, <2>2, <2>3
<1>9. ASSUME NEW k \in Child, ChildEnds(g, k) PROVE \E l : Callback(g, l) /\ Kept(j, l)
  BY <1>1, <1>9, TerminateKept DEF ChildEnds
<1>10. ASSUME NEW k \in Child, ChildUncertain(g, k) PROVE \E l : Callback(g, l) /\ Kept(j, l)
  BY <1>1, <1>10, DelegationKept DEF ChildUncertain
<1>11. ASSUME NEW k \in Child, NEW c \in ChildCall, RelayCall(g, k, c)
       PROVE \E l : Callback(g, l) /\ Kept(j, l)
  <2>1. Kept(j, emit(Raised(j, c), <<Output>>))
    BY <1>1, DelegationKept
  <2> QED BY <1>11, <2>1 DEF RelayCall
<1> QED BY <1>2, <1>3, <1>4, <1>5, <1>6, <1>7, <1>8, <1>9, <1>10, <1>11 DEF Native

\* A callback of the runtime.
LEMMA NativeInv ==
  ASSUME SupInv, NEW g \in Turn, Native(g)
  PROVE  SupInv'
<1>1. PICK l : Callback(g, l) /\ Kept(job[g], l)
  BY NativeKept DEF SupInv
<1>2. /\ JobOK(l) /\ Absorbs(job[g], l) /\ l.stage = job[g].stage /\ SameCommands(job[g], l)
      /\ Only(g, l) /\ slot' = slot /\ told' = told /\ request' = request
  BY <1>1 DEF Kept, Untouched, SameCommands, Callback
<1>3. JobInv'
  BY <1>2, JobStep DEF SupInv
<1>4. request' \in RequestType /\ RequestShape'
  BY <1>2, ShapeKept
<1> QED BY <1>3, <1>4 DEF SupInv

\* A step of the active job that is staged, whoever asked for it.
LEMMA StagedInv ==
  ASSUME SupInv, NEW g \in Turn, NEW l, NEW s, Only(g, l), Staged(job[g], l, s), g = slot,
         slot' = slot, told' = told, request' = request,
         s = job[g].stage \/ job[g].stage \notin {"starting", "stopped"}
  PROVE  SupInv'
<1>1. JobInv'
  BY JobStep DEF SupInv, Staged
<1>2. request' \in RequestType /\ RequestShape'
  BY ShapeKept DEF Staged
<1> QED BY <1>1, <1>2 DEF SupInv

\* The finalizers, and the daemon that runs them for a callback.
LEMMA StopInv ==
  ASSUME SupInv, NEW g \in Turn, Stop(g) \/ DaemonStops(g)
  PROVE  SupInv'
<1> DEFINE j == job[g]
<1>1. JobOK(j)
  BY DEF SupInv, JobInv
<1>2. CASE ChildrenCancelled(g)
  <2>1. PICK order \in Orders(j.doomed \cap InProgress(j)) :
          Only(g, [cancelAll(j, order) EXCEPT !.stage = "interrupt"])
    BY <1>2 DEF ChildrenCancelled
  <2>2. j.stage = "children" /\ slot' = slot /\ told' = told /\ request' = request
    BY <1>2 DEF ChildrenCancelled
  <2>3. Kept(j, cancelAll(j, order))
    BY <1>1, CancelAllKept
  <2>4. Staged(j, [cancelAll(j, order) EXCEPT !.stage = "interrupt"], "interrupt")
    BY <1>1, <2>2, <2>3, AdvanceStaged DEF Running
  <2>5. g = slot
    BY <2>2, RunningIsActive DEF SupInv
  <2> QED BY <2>1, <2>2, <2>4, <2>5, StagedInv
<1>3. CASE Interrupted(g)
  <2>1. j.stage = "interrupt" /\ slot' = slot /\ told' = told /\ request' = request
    BY <1>3 DEF Interrupted
  <2>2. g = slot
    BY <2>1, RunningIsActive DEF SupInv
  <2> DEFINE l == [close(j) EXCEPT !.stage = "teardown", !.aborted = TRUE, !.pending = @ \ Call]
  <2>3. Only(g, l) /\ Staged(j, l, "teardown")
    BY <1>1, <1>3, <2>1, InterruptedStaged DEF Interrupted
  <2> HIDE DEF l
  <2> QED BY <2>1, <2>2, <2>3, StagedInv
<1>4. CASE TornDown(g)
  <2>1. j.stage = "teardown" /\ slot' = slot /\ told' = told /\ request' = request
    BY <1>4 DEF TornDown
  <2>2. g = slot
    BY <2>1, RunningIsActive DEF SupInv
  <2> DEFINE l == [j EXCEPT !.stage = "stopped", !.native = FALSE, !.stopRequested = TRUE]
  <2>3. Only(g, l) /\ Staged(j, l, "stopped")
    BY <1>1, <1>4, <2>1, TornDownStaged DEF TornDown
  <2> HIDE DEF l
  <2> QED BY <2>1, <2>2, <2>3, StagedInv
<1>5. CASE DaemonStops(g)
  <2>1. /\ j.stage = "up" /\ slot' = slot /\ told' = told /\ request' = request
        /\ Only(g, BeginStop(j))
    BY <1>5 DEF DaemonStops
  <2>2. g = slot
    BY <2>1, RunningIsActive DEF SupInv
  <2>3. Staged(j, BeginStop(j), "children")
    BY <1>1, <2>1, BeginStopFacts
  <2> QED BY <2>1, <2>2, <2>3, StagedInv
<1>6. CASE DaemonDone(g)
  <2>1. slot' = slot /\ told' = told /\ request' = request /\ job' = job
    BY <1>6 DEF DaemonDone
  <2> QED BY <2>1, SameInv
<1> QED BY <1>2, <1>3, <1>4, <1>5, <1>6 DEF Stop

-----------------------------------------------------------------------------
(***************************************************************************)
(* The requests                                                            *)
(***************************************************************************)
\* A request that is answered leaves nothing to remember.
LEMMA IdleInv ==
  ASSUME JobInv', request' = Idle
  PROVE  SupInv'
<1>1. request'.op = "none" /\ request'.at = "idle" /\ request'.turn = 0 /\ request'.command = "none"
  BY DEF Idle
<1>2. 0 \in 0..MaxTurn
  BY SupervisorAssumption
<1>3. request' \in RequestType
  BY <1>2 DEF Idle, RequestType
<1>4. RequestShape'
  BY <1>1 DEF RequestShape, StartShape, CheckpointShape, ControlShape, Unasked, At, Asking
<1> QED BY <1>3, <1>4 DEF SupInv

\* admit, of the first turn or of a later one.
LEMMA StartArrivesInv ==
  ASSUME SupInv, NEW g \in Turn, StartArrives(g)
  PROVE  SupInv'
<1> DEFINE at == IF slot = 0 THEN "admitted" ELSE "transition"
<1>1. /\ slot' = slot /\ job' = job /\ told' = told /\ g > slot
      /\ request' = [op |-> "start", turn |-> g, command |-> "none", at |-> at]
  BY DEF StartArrives, Arrives, Admits
<1>2. JobInv'
  BY <1>1 DEF SupInv, JobInv, SlotShape, ToldFinal
<1>3. request' \in RequestType
  BY <1>1 DEF RequestType, Turn
<1>4. /\ request'.op = "start" /\ request'.turn = g
      /\ request'.at = "admitted" => slot = 0
      /\ request'.at # "admitted" => slot # 0
      /\ request'.at # "starting"
  BY <1>1
<1>5. RequestShape'
  BY <1>1, <1>4 DEF RequestShape, StartShape, CheckpointShape, ControlShape, Unasked, At, Asking
<1> QED BY <1>2, <1>3, <1>5 DEF SupInv

\* The new job gets the slot once the one before has no processes left.
LEMMA BeginStartInv ==
  ASSUME SupInv, BeginStart
  PROVE  SupInv'
<1> DEFINE g == request.turn
           l == [job[g] EXCEPT !.stage = "starting", !.native = TRUE]
<1>1. /\ slot' = g /\ Only(g, l) /\ told' = told /\ PreviousStopped
      /\ request' = [request EXCEPT !.at = "starting"]
  BY DEF BeginStart, Goes
<1>2. g \in Turn /\ g > slot /\ slot \in 0..MaxTurn /\ request.op = "start"
  BY <1>1 DEF SupInv, JobInv, RequestShape, StartShape, Asking, PreviousStopped, At
<1>3. slot \in Turn => job[slot].stage = "stopped"
  BY <1>1, <1>2 DEF SupInv, RequestShape, StartShape, PreviousStopped, At, Turn
<1>4. job[g].stage = "none" /\ JobOK(job[g])
  BY <1>2 DEF SupInv, JobInv, SlotShape
<1>5. Staged(job[g], l, "starting")
  BY <1>4, BeginStartStaged
<1> HIDE DEF l
<1>6. /\ job' \in [Turn -> JobType] /\ job'[g] = l
      /\ \A h \in Turn : h # g => job'[h] = job[h]
  BY <1>1, <1>2, <1>5 DEF SupInv, JobInv, Only, Staged, JobOK
<1>7. \A h \in Turn : JobOK(job'[h])
  BY <1>5, <1>6 DEF SupInv, JobInv, Staged
<1>8. SlotShape'
  <2> SUFFICES ASSUME NEW h \in Turn, h # g
               PROVE  /\ job'[h].stage \in {"none", "stopped"}
                      /\ h > g => job'[h].stage = "none"
    <3>1. ~(g > g)
      BY <1>2 DEF Turn
    <3> QED BY <1>1, <3>1 DEF SlotShape
  <2>1. h \in Int /\ g \in Int /\ slot \in Int
    BY <1>2 DEF Turn
  <2>2. h > g => h > slot
    BY <1>2, <2>1
  <2>3. h # slot => job[h].stage \in {"none", "stopped"}
    BY DEF SupInv, JobInv, SlotShape
  <2>4. h > slot => job[h].stage = "none"
    BY DEF SupInv, JobInv, SlotShape
  <2> QED BY <1>3, <1>6, <2>2, <2>3, <2>4
<1>9. ToldFinal'
  <2> SUFFICES ASSUME NEW h \in Turn, NEW p \in told[h]
               PROVE  settled(job'[h]) /\ p = [cursor |-> Len(job'[h].events), status |-> job'[h].status]
    BY <1>1 DEF ToldFinal
  <2>1. settled(job[h]) /\ p = [cursor |-> Len(job[h].events), status |-> job[h].status]
    BY DEF SupInv, JobInv, ToldFinal
  <2>2. job'[h].status = job[h].status /\ job'[h].events = job[h].events
    BY <1>5, <1>6, <2>1 DEF Absorbs, Staged
  <2> QED BY <2>1, <2>2 DEF settled
<1>10. JobInv'
  BY <1>1, <1>2, <1>6, <1>7, <1>8, <1>9 DEF JobInv, SupInv, Turn
<1>11. /\ request' \in RequestType /\ request'.at = "starting"
       /\ request'.op = "start" /\ request'.turn = g
  BY <1>1, <1>2 DEF SupInv, RequestType
<1>12. RequestShape'
  <2>1. slot' # 0
    BY <1>1, <1>2 DEF Turn
  <2>2. job'[slot'].stage = "starting"
    BY <1>1, <1>5, <1>6 DEF Staged
  <2> QED BY <1>11, <2>1, <2>2 DEF RequestShape, StartShape, CheckpointShape, ControlShape, At, Asking
<1> QED BY <1>10, <1>11, <1>12 DEF SupInv

\* A start that is up, or that failed and stops.
LEMMA StartEndsInv ==
  ASSUME SupInv, StartUp \/ StartFails \/ StartFailed
  PROVE  SupInv'
<1>1. slot \in Turn /\ JobOK(job[slot])
  <2>1. slot # 0
    BY DEF StartUp, StartFails, StartFailed, At, SupInv, RequestShape, Unasked
  <2> QED BY <2>1 DEF SupInv, JobInv, Turn
<1>2. JobInv
  BY DEF SupInv
<1>3. CASE StartUp
  <2>1. job[slot].stage = "starting"
    BY <1>3 DEF StartUp, SupInv, RequestShape, StartShape
  <2>2. Kept(job[slot], job[slot])
    BY <1>1 DEF Kept, Untouched, Absorbs
  <2>3. Staged(job[slot], [job[slot] EXCEPT !.stage = "up"], "up")
    BY <1>1, <2>1, <2>2, AdvanceStaged DEF Running
  <2>4. /\ Only(slot, [job[slot] EXCEPT !.stage = "up"])
        /\ slot' = slot /\ told' = told /\ request' = Idle
    BY <1>3 DEF StartUp
  <2>5. JobInv'
    BY <1>1, <1>2, <2>3, <2>4, JobStep DEF Staged
  <2> QED BY <2>4, <2>5, IdleInv
<1>4. CASE StartFails
  <2>1. JobOK(fail(job[slot])) /\ Absorbs(job[slot], fail(job[slot]))
    <3>1. job[slot] \in JobType /\ Outcome(job[slot])
      BY <1>1 DEF JobOK
    <3>2. /\ fail(job[slot]) \in JobType /\ Outcome(fail(job[slot]))
          /\ Untouched(job[slot], fail(job[slot])) /\ Absorbs(job[slot], fail(job[slot]))
      BY <3>1, FailKept
    <3>3. Kept(job[slot], fail(job[slot]))
      BY <1>1, <3>2, KeptJob
    <3> QED BY <3>3 DEF Kept
  <2> DEFINE f == fail(job[slot])
             l == BeginStop(f)
  <2>2. JobOK(l) /\ Absorbs(f, l)
    BY <2>1, BeginStopFacts DEF Staged
  <2>3. Absorbs(job[slot], l)
    BY <2>1, <2>2 DEF Absorbs, settled
  <2>4. /\ Only(slot, l) /\ slot' = slot /\ told' = told
        /\ At("start", "starting") /\ request' = [request EXCEPT !.at = "failing"]
    BY <1>4 DEF StartFails, Goes
  <2> HIDE DEF l
  <2>5. JobInv'
    BY <1>1, <1>2, <2>2, <2>3, <2>4, JobStep
  <2>6. request' \in RequestType /\ request'.at = "failing" /\ request'.op = "start"
    BY <2>4 DEF SupInv, RequestType, At
  <2>7. RequestShape'
    <3>1. slot' # 0
      BY <1>1, <2>4 DEF Turn
    <3> QED BY <2>6, <3>1 DEF RequestShape, StartShape, CheckpointShape, ControlShape, At, Asking
  <2> QED BY <2>5, <2>6, <2>7 DEF SupInv
<1>5. CASE StartFailed
  <2>1. slot' = slot /\ job' = job /\ told' = told /\ request' = Idle
    BY <1>5 DEF StartFailed
  <2>2. JobInv'
    BY <1>2, <2>1 DEF JobInv, SlotShape, ToldFinal
  <2> QED BY <2>1, <2>2, IdleInv
<1> QED BY <1>3, <1>4, <1>5

\* The last step of a request.
LEMMA AnsweredInv ==
  ASSUME SupInv, slot \in Turn, NEW l, Only(slot, l), JobOK(l), Absorbs(job[slot], l),
         slot' = slot, told' = told, request' = Idle
  PROVE  SupInv'
<1>1. JobInv'
  BY JobStep DEF SupInv
<1> QED BY <1>1, IdleInv

\* The slot of a request that has one.
LEMMA RequestSlot ==
  ASSUME SupInv, ~Unasked, ~At("start", "admitted")
  PROVE  slot \in Turn /\ JobOK(job[slot])
BY DEF SupInv, JobInv, RequestShape, Turn

\* A stop or a capture on the way: of the active job, which is the one of the checkpoint.
LEMMA CheckpointInv ==
  ASSUME SupInv, CheckpointArrives \/ StopBegins \/ CaptureBegins \/ CaptureEnds
  PROVE  SupInv'
<1>1. CASE CheckpointArrives
  <2>1. /\ slot' = slot /\ job' = job /\ told' = told /\ slot # 0 /\ job[slot].status = "completed"
        /\ request' = [op |-> "checkpoint", turn |-> slot, command |-> "none", at |-> "transition"]
    BY <1>1 DEF CheckpointArrives, Arrives
  <2>2. JobInv'
    BY <2>1 DEF SupInv, JobInv, SlotShape, ToldFinal
  <2>3. request' \in RequestType /\ request'.op = "checkpoint" /\ request'.at = "transition"
    BY <2>1 DEF RequestType, SupInv, JobInv
  <2>4. RequestShape'
    BY <2>1, <2>3 DEF RequestShape, StartShape, CheckpointShape, ControlShape, Unasked, At, Asking
  <2> QED BY <2>2, <2>3, <2>4 DEF SupInv
<1>2. CASE StopBegins
  <2>1. /\ request.op \in {"start", "checkpoint"} /\ request.at = "transition"
        /\ slot' = slot /\ told' = told /\ Only(slot, BeginStop(job[slot]))
        /\ request' = [request EXCEPT !.at = "stopping"]
    BY <1>2 DEF StopBegins, TakesTransition, Goes
  <2>2. slot \in Turn /\ JobOK(job[slot])
    BY <2>1, RequestSlot DEF Unasked, At
  <2> DEFINE l == BeginStop(job[slot])
  <2>3. JobOK(l) /\ Absorbs(job[slot], l)
    BY <2>2, BeginStopFacts DEF Staged
  <2> HIDE DEF l
  <2>4. JobInv'
    BY <2>1, <2>2, <2>3, JobStep DEF SupInv, l
  <2>5. /\ request' \in RequestType /\ request'.at = "stopping"
        /\ request'.op = request.op /\ request'.turn = request.turn
    BY <2>1 DEF SupInv, RequestType
  <2>6. job'[slot] = l
    BY <2>1, <2>2 DEF SupInv, JobInv, Only, l
  <2>7. slot # 0
    BY <2>2 DEF Turn
  <2>8. StartShape'
    BY <2>1, <2>5 DEF SupInv, RequestShape, StartShape, At, Asking
  <2>9. CheckpointShape'
    <3> SUFFICES ASSUME request.op = "checkpoint" PROVE l.status = "completed"
      BY <2>1, <2>5, <2>6 DEF CheckpointShape
    <3>1. job[slot].status = "completed"
      BY DEF SupInv, RequestShape, CheckpointShape
    <3> QED BY <2>3, <3>1 DEF Absorbs, settled, Terminal
  <2>10. RequestShape'
    BY <2>1, <2>5, <2>7, <2>8, <2>9 DEF RequestShape, ControlShape
  <2> QED BY <2>4, <2>5, <2>10 DEF SupInv
<1>3. CASE CaptureBegins
  <2>1. /\ At("checkpoint", "stopping") /\ job[slot].stage = "stopped"
        /\ slot' = slot /\ told' = told /\ Only(slot, [job[slot] EXCEPT !.saved = "capturing"])
        /\ request' = [request EXCEPT !.at = "capturing"]
    BY <1>3 DEF CaptureBegins, Goes
  <2>2. slot \in Turn /\ JobOK(job[slot]) /\ job[slot].status = "completed"
    <3>1. job[slot].status = "completed"
      BY <2>1 DEF SupInv, RequestShape, CheckpointShape, At
    <3> QED BY <2>1, <3>1, RequestSlot DEF Unasked, At
  <2> DEFINE l == [job[slot] EXCEPT !.saved = "capturing"]
  <2>3. Staged(job[slot], l, "stopped")
    BY <2>1, <2>2, SavedStaged
  <2> HIDE DEF l
  <2>4. JobOK(l) /\ Absorbs(job[slot], l) /\ l.stage = "stopped" /\ l.status = "completed"
    BY <2>2, <2>3 DEF Staged, Absorbs, settled, Terminal
  <2>5. JobInv'
    BY <2>1, <2>2, <2>4, JobStep DEF SupInv, l
  <2>6. request' \in RequestType /\ request'.at = "capturing" /\ request'.op = "checkpoint"
    BY <2>1 DEF SupInv, RequestType, At
  <2>7. job'[slot] = l /\ slot # 0
    BY <2>1, <2>2 DEF SupInv, JobInv, Only, l, Turn
  <2>8. RequestShape'
    BY <2>1, <2>4, <2>6, <2>7 DEF RequestShape, StartShape, CheckpointShape, ControlShape, At, Asking
  <2> QED BY <2>5, <2>6, <2>8 DEF SupInv
<1>4. CASE CaptureEnds
  <2>1. PICK result \in {"saved", "none"} : Only(slot, [job[slot] EXCEPT !.saved = result])
    BY <1>4 DEF CaptureEnds
  <2>2. slot' = slot /\ told' = told /\ request' = Idle /\ At("checkpoint", "capturing")
    BY <1>4 DEF CaptureEnds
  <2>3. slot \in Turn /\ JobOK(job[slot])
    BY <2>2, RequestSlot DEF Unasked, At
  <2>4. job[slot].status = "completed" /\ job[slot].stage = "stopped"
    BY <2>2 DEF SupInv, RequestShape, CheckpointShape, At
  <2> DEFINE l == [job[slot] EXCEPT !.saved = result]
  <2>5. Staged(job[slot], l, "stopped")
    BY <2>3, <2>4, SavedStaged
  <2> HIDE DEF l
  <2>6. JobOK(l) /\ Absorbs(job[slot], l)
    BY <2>5 DEF Staged
  <2> QED BY <2>1, <2>2, <2>3, <2>6, AnsweredInv DEF l
<1> QED BY <1>1, <1>2, <1>3, <1>4

\* A command is remembered before it is given to anyone.
LEMMA ControlArrivesInv ==
  ASSUME SupInv, NEW m \in Command, ControlArrives(m)
  PROVE  SupInv'
<1> DEFINE l == Remembers(job[slot], m.id, "underway")
<1>1. /\ slot' = slot /\ told' = told /\ slot # 0 /\ Only(slot, l)
      /\ job[slot].operations[m.id] = "none"
      /\ request' = [op |-> "control", turn |-> slot, command |-> m, at |-> "transition"]
  BY DEF ControlArrives, Arrives, Memoized
<1>2. slot \in Turn /\ JobOK(job[slot]) /\ m.id \in Id
  BY <1>1 DEF SupInv, JobInv, Turn, Id
<1>3. /\ JobOK(l) /\ Absorbs(job[slot], l)
      /\ l.applied = job[slot].applied /\ l.operations[m.id] # "none"
  BY <1>2, RemembersFacts
<1> HIDE DEF l
<1>4. JobInv'
  BY <1>1, <1>2, <1>3, JobStep DEF SupInv
<1>5. /\ request' \in RequestType
      /\ request'.op = "control" /\ request'.at = "transition" /\ request'.command = m
  BY <1>1 DEF RequestType, SupInv, JobInv
<1>6. job'[slot] = l
  BY <1>1, <1>2 DEF SupInv, JobInv, Only
<1>7. l.applied[m.id] = 0
  BY <1>1, <1>2, <1>3 DEF JobOK, Counted
<1>8. RequestShape'
  BY <1>1, <1>3, <1>5, <1>6, <1>7
     DEF RequestShape, StartShape, CheckpointShape, ControlShape, Unasked, At, Asking
<1> QED BY <1>4, <1>5, <1>8 DEF SupInv

\* What the request that controls the job knows of it.
LEMMA ControlFacts ==
  ASSUME SupInv, request.op = "control"
  PROVE  /\ slot \in Turn /\ JobOK(job[slot]) /\ request.command.id \in Id
         /\ job[slot].operations[request.command.id] # "none"
         /\ job[slot].applied[request.command.id] = 0
<1>1. ~Unasked /\ ~At("start", "admitted")
  BY DEF Unasked, At
<1> QED BY <1>1, RequestSlot DEF SupInv, RequestShape, ControlShape, Id

\* A command's answer, with or without its effect.
LEMMA VerdictFacts ==
  ASSUME SupInv, request.op = "control", NEW v \in {"ok", "rejected", "failed"},
         NEW l, JobOK(l), Absorbs(job[slot], l), SameCommands(job[slot], l)
  PROVE  /\ JobOK(Verdict(l, v)) /\ Absorbs(job[slot], Verdict(l, v))
         /\ JobOK(Verdict(Reached(l), v)) /\ Absorbs(job[slot], Verdict(Reached(l), v))
<1> DEFINE id == request.command.id
<1>1. id \in Id /\ l.operations[id] # "none" /\ l.applied[id] = 0
  BY ControlFacts DEF SameCommands
<1>2. JobOK(Reached(l)) /\ Absorbs(l, Reached(l))
  BY <1>1, ReachedFacts
<1>3. ASSUME NEW r, JobOK(r), Absorbs(job[slot], r)
      PROVE  JobOK(Verdict(r, v)) /\ Absorbs(job[slot], Verdict(r, v))
  <2>1. JobOK(Remembers(r, id, v)) /\ Absorbs(r, Remembers(r, id, v))
    BY <1>1, <1>3, RemembersFacts
  <2>2. Verdict(r, v) = Remembers(r, id, v)
    BY DEF Verdict
  <2> QED BY <1>3, <2>1, <2>2 DEF Absorbs, settled
<1>4. Absorbs(job[slot], Reached(l))
  BY <1>2 DEF Absorbs, settled
<1> QED BY <1>2, <1>3, <1>4

\* A command that is given to the runtime or to a child, and keeps the permit meanwhile.
LEMMA ApplyingInv ==
  ASSUME SupInv, request.op = "control", NEW l, JobOK(l), Absorbs(job[slot], l),
         SameCommands(job[slot], l), Only(slot, l), slot' = slot, told' = told, Goes("applying"),
         Command_("tool_result") => request.command.call \in ChildCall
  PROVE  SupInv'
<1>1. /\ slot \in Turn /\ JobOK(job[slot]) /\ request.command.id \in Id
      /\ job[slot].operations[request.command.id] # "none"
      /\ job[slot].applied[request.command.id] = 0
  BY ControlFacts
<1>2. JobInv'
  BY <1>1, JobStep DEF SupInv
<1>3. /\ request' \in RequestType /\ request'.at = "applying"
      /\ request'.op = "control" /\ request'.command = request.command
  BY DEF SupInv, RequestType, Goes
<1>4. job'[slot] = l /\ slot # 0
  BY <1>1 DEF SupInv, JobInv, Only, Turn
<1>5. request.command \in Command
  BY DEF SupInv, RequestShape, ControlShape
<1>6. ControlShape'
  BY <1>1, <1>3, <1>4, <1>5 DEF ControlShape, SameCommands, Command_
<1>7. RequestShape'
  BY <1>3, <1>4, <1>6 DEF RequestShape, StartShape, CheckpointShape, At, Asking
<1> QED BY <1>2, <1>3, <1>7 DEF SupInv

\* Every step of a command.
LEMMA ControlInv ==
  ASSUME SupInv,
         SteerRefused \/ SteerBegins \/ SteerEnds \/ CancelBegins \/ CancelEnds
           \/ ResultTaken \/ ResultRefused \/ RouteBegins \/ RouteEnds
  PROVE  SupInv'
<1> DEFINE j == job[slot]
<1>1. request.op = "control"
  BY DEF SteerRefused, SteerBegins, SteerEnds, CancelBegins, CancelEnds, ResultTaken, ResultRefused,
         RouteBegins, RouteEnds, Command_
<1>2. slot \in Turn /\ JobOK(j)
  BY <1>1, ControlFacts
<1>3. JobOK(j) /\ Absorbs(j, j) /\ SameCommands(j, j)
  BY <1>2 DEF Absorbs, SameCommands
<1>4. ASSUME NEW l, JobOK(l), Absorbs(j, l), Only(slot, l), slot' = slot, told' = told, request' = Idle
      PROVE  SupInv'
  BY <1>2, <1>4, AnsweredInv
<1>5. CASE SteerRefused \/ ResultRefused
  <2>1. Only(slot, Verdict(j, "rejected")) /\ slot' = slot /\ told' = told /\ request' = Idle
    BY <1>5 DEF SteerRefused, ResultRefused, Refused
  <2>2. JobOK(Verdict(j, "rejected")) /\ Absorbs(j, Verdict(j, "rejected"))
    BY <1>1, <1>3, VerdictFacts
  <2> QED BY <1>4, <2>1, <2>2
<1>6. CASE SteerBegins
  <2>1. slot' = slot /\ told' = told /\ job' = job /\ Goes("applying") /\ Command_("steer")
    BY <1>6 DEF SteerBegins
  <2>2. Only(slot, j)
    BY <1>2, <2>1 DEF Only, SupInv, JobInv
  <2>3. ~Command_("tool_result")
    BY <2>1 DEF Command_
  <2> QED BY <1>1, <1>3, <2>1, <2>2, <2>3, ApplyingInv
<1>7. CASE RouteBegins
  <2>1. /\ slot' = slot /\ told' = told /\ job' = job /\ Goes("applying")
        /\ request.command.call \in ChildCall
    BY <1>7 DEF RouteBegins, ChildPending
  <2>2. Only(slot, j)
    BY <1>2, <2>1 DEF Only, SupInv, JobInv
  <2> QED BY <1>1, <1>3, <2>1, <2>2, ApplyingInv
<1>8. CASE CancelBegins
  <2>1. /\ slot' = slot /\ told' = told /\ Goes("applying") /\ Command_("cancel")
        /\ Only(slot, BeginStop(j))
    BY <1>8 DEF CancelBegins
  <2>2. JobOK(BeginStop(j)) /\ Absorbs(j, BeginStop(j)) /\ SameCommands(j, BeginStop(j))
    BY <1>2, BeginStopFacts DEF Staged
  <2>3. ~Command_("tool_result")
    BY <2>1 DEF Command_
  <2> QED BY <1>1, <2>1, <2>2, <2>3, ApplyingInv
<1>9. CASE SteerEnds
  <2>1. \/ Ends(Verdict(Reached(j), "ok")) \/ Ends(Verdict(j, "rejected"))
        \/ Ends(Verdict(Reached(j), "failed")) \/ Ends(Verdict(j, "failed"))
    BY <1>9 DEF SteerEnds
  <2>2. /\ JobOK(Verdict(Reached(j), "ok")) /\ Absorbs(j, Verdict(Reached(j), "ok"))
        /\ JobOK(Verdict(j, "rejected")) /\ Absorbs(j, Verdict(j, "rejected"))
        /\ JobOK(Verdict(Reached(j), "failed")) /\ Absorbs(j, Verdict(Reached(j), "failed"))
        /\ JobOK(Verdict(j, "failed")) /\ Absorbs(j, Verdict(j, "failed"))
    BY <1>1, <1>3, VerdictFacts
  <2> QED BY <1>4, <2>1, <2>2 DEF Ends
<1>10. CASE CancelEnds
  <2>1. Ends(Verdict(j, "ok"))
    BY <1>10 DEF CancelEnds
  <2>2. JobOK(Verdict(j, "ok")) /\ Absorbs(j, Verdict(j, "ok"))
    BY <1>1, <1>3, VerdictFacts
  <2> QED BY <1>4, <2>1, <2>2 DEF Ends
<1>11. CASE ResultTaken
  <2> DEFINE a == answered(j, request.command.call)
  <2>1. /\ TakesResult(j, request.command.call) /\ Only(slot, Verdict(Reached(a), "ok"))
        /\ slot' = slot /\ told' = told /\ request' = Idle
    BY <1>11 DEF ResultTaken
  <2>2. request.command.call \in Call
    BY <2>1 DEF TakesResult, OwnPending
  <2>3. Kept(j, a)
    BY <1>2, <2>1, <2>2, ResultKept
  <2> HIDE DEF a
  <2>4. JobOK(a) /\ Absorbs(j, a) /\ SameCommands(j, a)
    BY <2>3 DEF Kept, Untouched, SameCommands
  <2>5. JobOK(Verdict(Reached(a), "ok")) /\ Absorbs(j, Verdict(Reached(a), "ok"))
    BY <1>1, <2>4, VerdictFacts
  <2> QED BY <1>4, <2>1, <2>5
<1>12. CASE RouteEnds
  <2> DEFINE u == Unpended(j)
  <2>1. \/ Ends(Verdict(Reached(u), "ok")) \/ Ends(Verdict(u, "rejected"))
        \/ Ends(Verdict(Reached(j), "failed")) \/ Ends(Verdict(j, "failed"))
    BY <1>12 DEF RouteEnds
  <2>2. request.command.call \in ChildCall
    BY <1>12 DEF RouteEnds, SupInv, RequestShape, ControlShape, Command_
  <2>3. Kept(j, u)
    BY <1>2, <2>2, ResultKept
  <2> HIDE DEF u
  <2>4. JobOK(u) /\ Absorbs(j, u) /\ SameCommands(j, u)
    BY <2>3 DEF Kept, Untouched, SameCommands
  <2>5. /\ JobOK(Verdict(Reached(u), "ok")) /\ Absorbs(j, Verdict(Reached(u), "ok"))
        /\ JobOK(Verdict(u, "rejected")) /\ Absorbs(j, Verdict(u, "rejected"))
    BY <1>1, <2>4, VerdictFacts
  <2>6. /\ JobOK(Verdict(Reached(j), "failed")) /\ Absorbs(j, Verdict(Reached(j), "failed"))
        /\ JobOK(Verdict(j, "failed")) /\ Absorbs(j, Verdict(j, "failed"))
    BY <1>1, <1>3, VerdictFacts
  <2> QED BY <1>4, <2>1, <2>5, <2>6 DEF Ends
<1> QED BY <1>5, <1>6, <1>7, <1>8, <1>9, <1>10, <1>11, <1>12

\* A terminal page is the end of the log of a settled job.
LEMMA PollInv ==
  ASSUME SupInv, NEW after \in 0..MaxLog, Poll(after)
  PROVE  SupInv'
<1> DEFINE j == job[slot]
           n == Len(j.events)
           next == IF after + Page < n THEN after + Page ELSE n
           p == page(j, after)
<1>1. /\ slot # 0 /\ after <= n /\ p.status \in Terminal
      /\ told' = [told EXCEPT ![slot] = @ \cup {p}]
      /\ slot' = slot /\ job' = job /\ request' = request
  BY DEF Poll
<1>2. slot \in Turn /\ j \in JobType
  BY <1>1 DEF SupInv, JobInv, Turn
<1>3. j.events \in Seq(LogEvent) /\ n \in Nat
  BY <1>2, LenProperties DEF JobType
<1>4. p = [cursor |-> next, status |-> IF next < n THEN "running" ELSE j.status]
  BY DEF page
<1>5. p.status = IF next < n THEN "running" ELSE j.status
  BY <1>4
<1>6. ~(next < n)
  BY <1>1, <1>5 DEF Terminal
<1>7. next = n
  BY <1>6
<1>8. p = [cursor |-> n, status |-> j.status] /\ settled(j)
  BY <1>1, <1>4, <1>5, <1>6, <1>7 DEF settled
<1>9. p \in PageType
  BY <1>3, <1>8 DEF PageType, settled
<1> HIDE DEF p
<1>10. told' \in [Turn -> SUBSET PageType]
  BY <1>1, <1>2, <1>9 DEF SupInv, JobInv
<1>11. \A g \in Turn : told'[g] = IF g = slot THEN told[slot] \cup {p} ELSE told[g]
  BY <1>1, <1>2 DEF SupInv, JobInv
<1>12. ToldFinal'
  BY <1>1, <1>8, <1>11 DEF SupInv, JobInv, ToldFinal
<1>13. JobInv'
  BY <1>1, <1>10, <1>12 DEF SupInv, JobInv, SlotShape
<1>14. request' \in RequestType /\ RequestShape'
  BY <1>1 DEF SupInv, RequestShape, StartShape, CheckpointShape, ControlShape, Unasked, At, Asking,
              Command_
<1> QED BY <1>13, <1>14 DEF SupInv

-----------------------------------------------------------------------------
(***************************************************************************)
(* The theorems                                                            *)
(***************************************************************************)
\* A job that never ran.
LEMMA NewJobOK == JobOK(NewJob)
<1> DEFINE children == [k \in Child |-> "none"]
           operations == [id \in Id |-> "none"]
           applied == [id \in Id |-> 0]
<1>1. /\ children \in [Child -> {"none", "asked", "in_progress", "refused", "ended"}]
      /\ operations \in [Id -> {"none", "underway", "ok", "rejected", "failed"}]
      /\ applied \in [Id -> 0..2] /\ \A id \in Id : applied[id] = 0
  OBVIOUS
<1>2. <<>> \in Seq(LogEvent) /\ \A e : ~Contains(<<>>, e)
  BY DEF Contains
<1>3. NewJob.events = <<>>
  BY DEF NewJob
<1>4. NewJob =
        [status |-> "running", cancelling |-> FALSE, closing |-> FALSE, events |-> <<>>,
         stopRequested |-> FALSE, aborted |-> FALSE, stage |-> "none", native |-> FALSE,
         task |-> "running", raised |-> {}, pending |-> {}, children |-> children, doomed |-> {},
         operations |-> operations, applied |-> applied, saved |-> "none"]
  BY DEF NewJob, Id
<1> HIDE DEF children, operations, applied
<1>5. NewJob \in JobType
  BY <1>1, <1>2, <1>4 DEF JobType, Stage, Active
<1>6. /\ NewJob.status = "running" /\ ~NewJob.closing /\ ~NewJob.cancelling /\ NewJob.pending = {}
      /\ NewJob.stage = "none" /\ NewJob.native = FALSE /\ NewJob.saved = "none"
      /\ NewJob.applied = applied
  BY <1>4
<1>7. Outcome(NewJob)
  BY <1>2, <1>3, <1>6 DEF Outcome, Consistent, Waits, OwnPending
<1>8. Counted(NewJob)
  BY <1>1, <1>6 DEF Counted
<1> QED BY <1>5, <1>6, <1>7, <1>8 DEF JobOK, Running

\* No turn has run, nobody asks for anything.
LEMMA SupInit == Init => SupInv
<1> SUFFICES ASSUME Init PROVE SupInv
  OBVIOUS
<1>1. /\ slot = 0 /\ job = [g \in Turn |-> NewJob] /\ request = Idle /\ told = [g \in Turn |-> {}]
  BY DEF Init
<1>2. 0 \in 0..MaxTurn
  BY SupervisorAssumption
<1>3. NewJob \in JobType /\ NewJob.stage = "none"
  BY NewJobOK DEF JobOK, NewJob
<1>4. JobInv
  BY <1>1, <1>2, <1>3, NewJobOK DEF JobInv, SlotShape, ToldFinal
<1>5. /\ request.op = "none" /\ request.at = "idle" /\ request.turn = 0 /\ request.command = "none"
  BY <1>1 DEF Idle
<1>6. request \in RequestType
  BY <1>1, <1>2 DEF Idle, RequestType
<1>7. RequestShape
  BY <1>5 DEF RequestShape, StartShape, CheckpointShape, ControlShape, Unasked, At, Asking
<1> QED BY <1>4, <1>6, <1>7 DEF SupInv

\* Every step keeps the invariant.
LEMMA SupStep == SupInv /\ [Next]_vars => SupInv'
<1> SUFFICES ASSUME SupInv, [Next]_vars PROVE SupInv'
  OBVIOUS
<1>1. ASSUME NEW g \in Turn, StartArrives(g) \/ Stop(g) \/ DaemonStops(g) \/ Native(g) PROVE SupInv'
  BY <1>1, StartArrivesInv, StopInv, NativeInv
<1>2. CASE CheckpointArrives
  BY <1>2, CheckpointInv
<1>3. ASSUME NEW m \in Command, ControlArrives(m) PROVE SupInv'
  BY <1>3, ControlArrivesInv
<1>4. CASE Request
  BY <1>4, BeginStartInv, StartEndsInv, CheckpointInv, ControlInv DEF Request
<1>5. CASE Permit
  BY <1>5, CheckpointInv, ControlInv DEF Permit
<1>6. ASSUME NEW after \in 0..MaxLog, Poll(after) PROVE SupInv'
  BY <1>6, PollInv
<1>7. CASE UNCHANGED vars
  BY <1>7, SameInv DEF vars
<1> QED BY <1>1, <1>2, <1>3, <1>4, <1>5, <1>6, <1>7 DEF Next

\* The invariant holds of every behaviour of the supervisor.
LEMMA SupAlways == Spec => []SupInv
BY SupInit, SupStep, PTL DEF Spec

\* Whatever starts, stops, callbacks and commands interleave: two turns never have
\* processes in the container together, and a home is captured of a completed turn only, with
\* its processes gone (OneNativeRuntime, CheckpointQuiescent).
THEOREM RuntimeStaysAlone == Spec => []RuntimeAlone
<1>1. SupInv => RuntimeAlone
  <2> SUFFICES ASSUME SupInv PROVE RuntimeAlone
    OBVIOUS
  <2>1. OneNativeRuntime
    BY RunningIsActive DEF OneNativeRuntime, SupInv
  <2>2. CheckpointQuiescent
    BY DEF CheckpointQuiescent, SupInv, JobInv, JobOK, Running
  <2> QED BY <2>1, <2>2 DEF RuntimeAlone
<1> QED BY <1>1, SupAlways, PTL

\* A command whose id was remembered is never given a second time, also when the first try
\* failed without saying whether it arrived (Operations).
THEOREM CommandsAppliedOnce == Spec => []AppliedOnce
<1>1. SupInv => AppliedOnce
  BY DEF AppliedOnce, SupInv, JobInv, JobOK, Counted, Id
<1> QED BY <1>1, SupAlways, PTL

\* The outcome of a turn is what happened: final once a poll told it, completed only with its
\* children closed and never after a cancellation, waiting exactly while a result is owed.
THEOREM OutcomesTruthful == Spec => []OutcomeTruthful
<1>1. SupInv => OutcomeTruthful
  <2> SUFFICES ASSUME SupInv PROVE OutcomeTruthful
    OBVIOUS
  <2>1. PolledOutcomeFinal
    BY DEF SupInv, JobInv, ToldFinal, PolledOutcomeFinal
  <2>2. \A g \in Turn : JobOK(job[g])
    BY DEF SupInv, JobInv
  <2>3. CompletedClosesChildren
    BY <2>2 DEF CompletedClosesChildren, JobOK, Outcome, Consistent, ClosesChild, Active
  <2>4. WaitingIffPending
    BY <2>2 DEF WaitingIffPending, JobOK, Outcome, Waits
  <2>5. CancelledNeverCompletes
    BY <2>2 DEF CancelledNeverCompletes, JobOK, Outcome, Consistent
  <2> QED BY <2>1, <2>3, <2>4, <2>5 DEF OutcomeTruthful
<1> QED BY <1>1, SupAlways, PTL

-----------------------------------------------------------------------------
(***************************************************************************)
(* Codex                                                                   *)
(*                                                                         *)
(* The messages on their way are part of the argument: each comes after    *)
(* the announcement of its thread and inside the turn it names (Scoped), a *)
(* request is in one place until it is answered (Places), and a tool is    *)
(* reported by a thread that has not ended, for the app-server and for the *)
(* job (InOrder).  So a thread the job does not know was spawned by one it *)
(* heard of earlier and that is active still: with the root's outcome and  *)
(* no child active there is no such thread, by induction on the order of   *)
(* the announcements (NobodyUnknown).                                      *)
(***************************************************************************)
CodexFields ==
  {"status", "closing", "cancelling", "cancelRequested", "rootOutcome", "tools", "code", "child",
   "stray", "reported"}
NativeFields == {"state", "turn", "owed", "closing", "interrupted", "moves", "alive", "call"}
Tool == {"spawnAgent", "sendInput", "closeAgent"}
CodexType ==
  /\ DOMAIN codex = CodexFields /\ codex.status \in Terminal \cup Active
  /\ DOMAIN codex.child = SubThread
  /\ \A c \in SubThread : codex.child[c] = {} \/ \E s : codex.child[c] = {s} /\ DOMAIN s = {"active", "closed", "turn"}
  /\ DOMAIN codex.reported = SubThread
  /\ \A c \in SubThread : DOMAIN codex.reported[c] = 1..MaxChildTurn
  /\ DOMAIN code = CodexCall /\ DOMAIN seen = {"visited", "resumed"}
  /\ DOMAIN native = NativeFields
  /\ native.state \in [Thread -> {"none", "new", "opened", "running", "idle", "closed"}]
  /\ native.turn \in [Thread -> Nat]
  /\ DOMAIN native.call = CodexCall
  /\ \A k \in CodexCall : DOMAIN native.call[k] = {"by", "answers"}
  /\ \A i \in native.owed : i.sender \in Thread /\ i.to \in SubThread /\ i.tool \in Tool
  /\ native.closing \subseteq SubThread
\* What the app-server sent.
InboxType ==
  /\ \E S : inbox \in Seq(S)
  /\ \A i \in 1..Len(inbox) :
       /\ inbox[i].thread \in Thread
       /\ inbox[i].type \in {"thread/started", "turn/started", "turn/completed", "collaboration", "item", "call"}
       /\ inbox[i].type \in {"thread/started", "turn/started"} => inbox[i].thread \in SubThread
       /\ inbox[i].type = "thread/started" => inbox[i].to = inbox[i].thread
       /\ inbox[i].type = "turn/started" => inbox[i].turn \in 1..MaxChildTurn
       /\ inbox[i].type = "collaboration" => inbox[i].to \in SubThread /\ inbox[i].detail \in Tool
       /\ inbox[i].type = "call" => inbox[i].to \in CodexCall

\* Only a cancellation interrupts, and a closed log has an outcome.
Cancels ==
  /\ codex.closing => codex.status \in Terminal
  /\ codex.cancelRequested <=> codex.cancelling
  /\ ~codex.cancelRequested =>
       /\ control \in {"free", "steer"} /\ native.interrupted = {}
       /\ \A r \in rpc : control = "steer" /\ r = [thread |-> Root, waits |-> TRUE]
  /\ codex.cancelRequested => codex.status # "completed"

\* A request of the app-server is in one place until it is answered, and only there.
Calling(k) == {i \in 1..Len(inbox) : inbox[i].type = "call" /\ inbox[i].to = k}
Coded(k) == code[k] \in {"code", "delegate", "waits"}
Places ==
  \A k \in CodexCall :
    /\ native.call[k].answers \in {0, 1}
    /\ Calling(k) # {} \/ k \in codex.tools \/ Coded(k) =>
         native.call[k].answers = 0 /\ native.call[k].by \in Thread
    /\ Calling(k) # {} => k \notin codex.tools /\ ~Coded(k)
    /\ k \in codex.tools => ~Coded(k)
    /\ \A i, j \in Calling(k) : i = j
AwaitsResults ==
  codex.status \in Active /\ ~codex.cancelling => (codex.status = "waiting" <=> codex.tools \cup codex.code # {})

Known == {c \in SubThread : codex.child[c] # {}}
IsFrom(i, type, c) == inbox[i].type = type /\ inbox[i].thread = c
\* The thread has been announced before message i.
HeardOf(c, i) == c \in Known \/ \E j \in 1..Len(inbox) : j < i /\ IsFrom(j, "thread/started", c)
Starts(i, c, n) == IsFrom(i, "turn/started", c) /\ inbox[i].turn = n
EndsTurn(i, c, n) == IsFrom(i, "turn/completed", c) /\ inbox[i].turn = n
OpenAt(c, n, i) ==
  /\ n \in 1..MaxChildTurn
  /\ codex.reported[c][n] = "in_progress" \/ \E j \in 1..Len(inbox) : j < i /\ Starts(j, c, n)
  /\ \A j \in 1..Len(inbox) : j < i => ~EndsTurn(j, c, n)
Listens == native.alive /\ codex.status \in Active
End == Len(inbox) + 1
\* The messages of a thread come after its announcement and between the start and the end of
\* the turn they name.
MessageScoped(i) ==
  inbox[i].thread \in SubThread =>
    /\ inbox[i].type # "thread/started" => HeardOf(inbox[i].thread, i)
    /\ inbox[i].type \notin {"thread/started", "turn/started"} => OpenAt(inbox[i].thread, inbox[i].turn, i)
    /\ inbox[i].type = "turn/started" =>
         /\ codex.reported[inbox[i].thread][inbox[i].turn] = "none"
         /\ \A j \in 1..Len(inbox) : j < i => ~Starts(j, inbox[i].thread, inbox[i].turn)
ThreadScoped(c) ==
  /\ native.state[c] \in {"opened", "running", "idle", "closed"} => HeardOf(c, End)
  /\ native.state[c] = "running" => OpenAt(c, native.turn[c], End)
  /\ \A n \in 1..MaxChildTurn : n > native.turn[c] =>
       codex.reported[c][n] = "none" /\ \A j \in 1..Len(inbox) : ~Starts(j, c, n)
  /\ native.turn[c] \in 0..MaxChildTurn
  /\ native.state[c] \in {"none", "new"} => native.turn[c] = 0
  /\ native.state[c] = "opened" => native.turn[c] < MaxChildTurn
Scoped ==
  /\ codex.stray = FALSE
  /\ Listens =>
       /\ \A i \in 1..Len(inbox) : MessageScoped(i)
       /\ \A c \in SubThread : ThreadScoped(c)
       /\ \A i \in native.owed : native.state[i.sender] = "running"

\* What ends a thread for the job: its turn's end, or that it was closed.
EndMark(i, t) ==
  \/ IsFrom(i, "turn/completed", t)
  \/ inbox[i].type = "collaboration" /\ inbox[i].detail = "closeAgent" /\ inbox[i].to = t
Unended(t) == IF t = Root THEN codex.rootOutcome = {} ELSE t \in Known => t \in active(codex)
SpawnedBy(c, t) ==
  \/ [sender |-> t, tool |-> "spawnAgent", to |-> c] \in native.owed
  \/ \E i \in 1..Len(inbox) : IsFrom(i, "collaboration", t) /\ inbox[i].detail = "spawnAgent" /\ inbox[i].to = c
\* A thread the job does not know was spawned by one that has not ended, of which it heard before.
HasParent(c) ==
  \E t \in Thread :
    /\ SpawnedBy(c, t)
    /\ \/ t = Root \/ t \in Known
       \/ \E j \in 1..Len(inbox) :
            /\ IsFrom(j, "thread/started", t)
            /\ \A i \in 1..Len(inbox) : IsFrom(i, "thread/started", c) => j < i
OwedInOrder(o) ==
  /\ o.sender \notin native.closing /\ Unended(o.sender)
  /\ o.tool = "closeAgent" => o.to \in native.closing
  /\ \A i \in 1..Len(inbox) : ~EndMark(i, o.sender)
MessageInOrder(i) ==
  inbox[i].type = "collaboration" =>
    /\ Unended(inbox[i].thread)
    /\ \A j \in 1..Len(inbox) : j < i => ~EndMark(j, inbox[i].thread)
Untold(t) == Unended(t) /\ \A i \in 1..Len(inbox) : ~EndMark(i, t)
ThreadInOrder(c) ==
  /\ native.state[c] # "none" /\ c \notin Known => HasParent(c)
  /\ native.state[c] \in {"none", "new"} => \A i \in 1..Len(inbox) : ~IsFrom(i, "thread/started", c)
  /\ native.state[c] \in {"none", "new", "opened", "running"} /\ c \notin native.closing => Untold(c)
\* A collaboration is reported by a thread that has not ended, for the app-server and for the job.
InOrder ==
  Listens /\ ~codex.cancelRequested /\ seen.resumed = {} =>
    /\ \A o \in native.owed : OwedInOrder(o)
    /\ \A i \in 1..Len(inbox) : MessageInOrder(i)
    /\ \A c \in SubThread : ThreadInOrder(c)
    /\ native.state[Root] = "running" => Untold(Root)
CodexInv == CodexType /\ InboxType /\ Cancels /\ Places /\ AwaitsResults /\ Scoped /\ InOrder /\ CompletesQuiet

-----------------------------------------------------------------------------
LEMMA CodexStart == CodexInit => CodexInv
<1> SUFFICES ASSUME CodexInit PROVE CodexInv
  OBVIOUS
<1> USE CodexAssumption
<1>0. /\ inbox = <<>> /\ Len(inbox) = 0 /\ 1..Len(inbox) = {} /\ rpc = {} /\ control = "free"
      /\ \A k \in CodexCall : code[k] = "none"
      /\ DOMAIN code = CodexCall
  BY DEF CodexInit
<1>1. /\ DOMAIN codex = CodexFields /\ codex.status = "running" /\ codex.closing = FALSE
      /\ codex.cancelling = FALSE /\ codex.cancelRequested = FALSE /\ codex.rootOutcome = {}
      /\ codex.tools = {} /\ codex.code = {} /\ codex.child = [c \in SubThread |-> {}]
      /\ codex.stray = FALSE
      /\ codex.reported = [c \in SubThread |-> [n \in 1..MaxChildTurn |-> "none"]]
  BY DEF CodexInit, CodexFields
<1>2. /\ DOMAIN native = NativeFields
      /\ native.state = [t \in Thread |-> IF t = Root THEN "running" ELSE "none"]
      /\ native.turn = [t \in Thread |-> IF t = Root THEN 1 ELSE 0]
      /\ native.owed = {} /\ native.closing = {} /\ native.interrupted = {}
      /\ native.call = [k \in CodexCall |-> [by |-> "nobody", answers |-> 0]]
  BY DEF CodexInit, NativeFields
<1>3. DOMAIN seen = {"visited", "resumed"}
  BY DEF CodexInit
<1> HIDE DEF CodexInit
<1>4. CodexType
  BY <1>0, <1>1, <1>2, <1>3 DEF CodexType, Thread, Active
<1>5. InboxType
  <2>1. inbox \in Seq({})
    BY <1>0
  <2> QED BY <2>1, <1>0 DEF InboxType
<1>6. Cancels
  BY <1>0, <1>1, <1>2 DEF Cancels, Terminal
<1>7. Places /\ AwaitsResults
  BY <1>0, <1>1, <1>2 DEF Places, Calling, Coded, AwaitsResults
<1>8. Scoped
  BY <1>0, <1>1, <1>2 DEF Scoped, ThreadScoped, Thread
<1>9. InOrder /\ CompletesQuiet
  BY <1>0, <1>1, <1>2 DEF InOrder, ThreadInOrder, Untold, Known, Unended, Thread, CompletesQuiet
<1> QED BY <1>4, <1>5, <1>6, <1>7, <1>8, <1>9 DEF CodexInv

\* The inbox.
LEMMA MessageSent ==
  ASSUME InboxType, NEW m, Sends(m)
  PROVE  /\ \E S : inbox' \in Seq(S)
         /\ Len(inbox) \in Nat /\ Len(inbox') = Len(inbox) + 1
         /\ \A i \in 1..Len(inbox) : inbox'[i] = inbox[i]
         /\ inbox'[Len(inbox) + 1] = m
<1>1. PICK S : inbox \in Seq(S)
  BY DEF InboxType
<1> DEFINE U == S \cup {m}
<1>2. inbox \in Seq(U) /\ m \in U
  BY <1>1, SeqMonotonic
<1>3. inbox' = Append(inbox, m)
  BY DEF Sends
<1>4. inbox' \in Seq(U)
  BY <1>2, <1>3, AppendProperties
<1> HIDE DEF U
<1> QED BY <1>2, <1>3, <1>4, AppendProperties

LEMMA MessageRead ==
  ASSUME InboxType, inbox # <<>>, inbox' = Tail(inbox)
  PROVE  /\ \E S : inbox' \in Seq(S)
         /\ Len(inbox) \in Nat /\ Len(inbox) > 0 /\ Len(inbox') = Len(inbox) - 1
         /\ \A i \in 1..Len(inbox') : i + 1 \in 1..Len(inbox) /\ inbox'[i] = inbox[i + 1]
         /\ Head(inbox) = inbox[1] /\ 1 \in 1..Len(inbox)
<1>1. PICK S : inbox \in Seq(S)
  BY DEF InboxType
<1>2. /\ inbox' \in Seq(S) /\ Len(inbox) \in Nat /\ Len(inbox) > 0 /\ Len(inbox') = Len(inbox) - 1
      /\ \A i \in 1..Len(inbox') : inbox'[i] = inbox[i + 1]
      /\ Head(inbox) = inbox[1]
  BY <1>1, HeadTailProperties, LenProperties
<1> QED BY <1>2

-----------------------------------------------------------------------------
\* What a message that is sent leaves as it was.
Grows ==
  /\ Len(inbox) \in Nat /\ Len(inbox') \in {Len(inbox), Len(inbox) + 1}
  /\ \A i \in 1..Len(inbox) : inbox'[i] = inbox[i]
LEMMA InboxGrows ==
  ASSUME InboxType, \/ UNCHANGED inbox
                    \/ \E m : Sends(m)
  PROVE Grows
<1>1. CASE UNCHANGED inbox
  <2>1. Len(inbox) \in Nat
    BY DEF InboxType
  <2> QED BY <1>1, <2>1 DEF Grows
<1>2. CASE \E m : Sends(m)
  <2>1. PICK m : Sends(m)
    BY <1>2
  <2> QED BY <2>1, MessageSent DEF Grows
<1> QED BY <1>1, <1>2

LEMMA TypeOfSent ==
  ASSUME InboxType, NEW m, Sends(m), m.thread \in Thread,
         m.type \in {"thread/started", "turn/started", "turn/completed", "collaboration", "item", "call"},
         m.type \in {"thread/started", "turn/started"} => m.thread \in SubThread,
         m.type = "thread/started" => m.to = m.thread,
         m.type = "turn/started" => m.turn \in 1..MaxChildTurn,
         m.type = "collaboration" => m.to \in SubThread /\ m.detail \in Tool,
         m.type = "call" => m.to \in CodexCall
  PROVE  InboxType'
<1>1. /\ \E S : inbox' \in Seq(S)
      /\ Len(inbox) \in Nat /\ Len(inbox') = Len(inbox) + 1
      /\ \A i \in 1..Len(inbox) : inbox'[i] = inbox[i]
      /\ inbox'[Len(inbox) + 1] = m
  BY MessageSent
<1>2. \A i \in 1..Len(inbox') : i \in 1..Len(inbox) \/ i = Len(inbox) + 1
  BY <1>1
<1> QED BY <1>1, <1>2 DEF InboxType

LEMMA OldScopes ==
  ASSUME Grows, UNCHANGED codex
  PROVE  /\ \A c : \A i \in 1..(Len(inbox) + 1) : HeardOf(c, i) => HeardOf(c, i)'
         /\ \A c, n : \A i \in 1..(Len(inbox) + 1) : OpenAt(c, n, i) => OpenAt(c, n, i)'
         /\ \A i \in 1..Len(inbox) : MessageScoped(i) => MessageScoped(i)'
<1>1. \A i \in 1..(Len(inbox) + 1) : \A j \in 1..Len(inbox') : j < i => j \in 1..Len(inbox)
  BY DEF Grows
<1>2. \A j \in 1..Len(inbox) : j \in 1..Len(inbox')
  BY DEF Grows
<1>3. \A c : \A i \in 1..(Len(inbox) + 1) : HeardOf(c, i) => HeardOf(c, i)'
  BY <1>1, <1>2 DEF Grows, HeardOf, IsFrom, Known
<1>4. \A c, n : \A i \in 1..(Len(inbox) + 1) : OpenAt(c, n, i) => OpenAt(c, n, i)'
  BY <1>1, <1>2 DEF Grows, OpenAt, Starts, EndsTurn, IsFrom
<1>5. \A i \in 1..Len(inbox) : MessageScoped(i) => MessageScoped(i)'
  <2> TAKE i \in 1..Len(inbox)
  <2>1. i \in 1..(Len(inbox) + 1) /\ inbox'[i] = inbox[i]
    BY DEF Grows
  <2>2. \A j \in 1..Len(inbox') : j < i => j \in 1..Len(inbox) /\ inbox'[j] = inbox[j]
    BY <1>1, <2>1 DEF Grows
  <2> QED BY <1>3, <1>4, <2>1, <2>2 DEF MessageScoped, Starts, IsFrom
<1> QED BY <1>3, <1>4, <1>5

\* What is heard of a thread is also heard later.
LEMMA HeardLater ==
  ASSUME NEW c, NEW i \in Nat, NEW k \in Nat, i <= k, HeardOf(c, i), Len(inbox) \in Nat
  PROVE  HeardOf(c, k)
BY DEF HeardOf

\* A thread that neither moves nor starts nor ends a turn.
LEMMA ThreadScopeStays ==
  ASSUME Grows, UNCHANGED codex, NEW c, ThreadScoped(c),
         native'.state[c] = native.state[c], native'.turn[c] = native.turn[c],
         \A i \in 1..Len(inbox') : i > Len(inbox) =>
           ~IsFrom(i, "turn/started", c)' /\ ~IsFrom(i, "turn/completed", c)'
  PROVE  ThreadScoped(c)'
<1>0. /\ Len(inbox) \in Nat /\ Len(inbox') \in Nat /\ Len(inbox) <= Len(inbox')
      /\ Len(inbox) + 1 \in 1..(Len(inbox) + 1)
  BY DEF Grows
<1>e. PICK k \in Nat, l \in Nat : k = Len(inbox) + 1 /\ l = Len(inbox') + 1
  BY <1>0
<1>1. HeardOf(c, k) => HeardOf(c, l)'
  <2>1. HeardOf(c, k) => HeardOf(c, k)'
    BY <1>0, <1>e, OldScopes
  <2> QED BY <1>0, <1>e, <2>1 DEF HeardOf
<1>2. \A n : OpenAt(c, n, k) => OpenAt(c, n, l)'
  <2>1. \A n : OpenAt(c, n, k) => OpenAt(c, n, k)'
    BY <1>0, <1>e, OldScopes
  <2>2. \A j \in 1..Len(inbox') : ~(j < k) => j > Len(inbox)
    BY <1>0, <1>e
  <2> QED BY <1>0, <1>e, <2>1, <2>2 DEF OpenAt, EndsTurn
<1>3. \A n, j : j \in 1..Len(inbox') /\ Starts(j, c, n)' => j \in 1..Len(inbox) /\ Starts(j, c, n)
  BY <1>0 DEF Grows, Starts, IsFrom
<1> QED BY <1>e, <1>1, <1>2, <1>3 DEF ThreadScoped, End

\* What follows from the order holds on.
LEMMA OldOrder ==
  ASSUME Grows, UNCHANGED codex
  PROVE  /\ \A i \in 1..Len(inbox) : \A t : EndMark(i, t)' <=> EndMark(i, t)
         /\ \A t : Unended(t)' <=> Unended(t)
         /\ Known' = Known
         /\ \A i \in 1..Len(inbox) : MessageInOrder(i) => MessageInOrder(i)'
<1>1. \A i \in 1..Len(inbox) : \A t : EndMark(i, t)' <=> EndMark(i, t)
  BY DEF Grows, EndMark, IsFrom
<1>2. \A t : Unended(t)' <=> Unended(t)
  BY DEF Unended, Known, active
<1>3. Known' = Known
  BY DEF Known
<1>4. \A i \in 1..Len(inbox) : MessageInOrder(i) => MessageInOrder(i)'
  <2> TAKE i \in 1..Len(inbox)
  <2>1. inbox'[i] = inbox[i] /\ \A j \in 1..Len(inbox') : j < i => j \in 1..Len(inbox)
    BY DEF Grows
  <2> QED BY <1>1, <1>2, <2>1 DEF MessageInOrder
<1> QED BY <1>1, <1>2, <1>3, <1>4

LEMMA ParentStays ==
  ASSUME Grows, UNCHANGED codex, NEW c, HasParent(c),
         \A t : SpawnedBy(c, t) => SpawnedBy(c, t)'
  PROVE  HasParent(c)'
<1>1. PICK t \in Thread :
        /\ SpawnedBy(c, t)
        /\ \/ t = Root \/ t \in Known
           \/ \E j \in 1..Len(inbox) :
                /\ IsFrom(j, "thread/started", t)
                /\ \A i \in 1..Len(inbox) : IsFrom(i, "thread/started", c) => j < i
  BY DEF HasParent
<1>2. SpawnedBy(c, t)' /\ Known' = Known
  BY <1>1, OldOrder
<1>3. CASE t = Root \/ t \in Known
  BY <1>1, <1>2, <1>3 DEF HasParent
<1>4. CASE \E j \in 1..Len(inbox) :
             /\ IsFrom(j, "thread/started", t)
             /\ \A i \in 1..Len(inbox) : IsFrom(i, "thread/started", c) => j < i
  <2>1. PICK j \in 1..Len(inbox) :
               /\ IsFrom(j, "thread/started", t)
               /\ \A i \in 1..Len(inbox) : IsFrom(i, "thread/started", c) => j < i
    BY <1>4
  <2>2. j \in 1..Len(inbox') /\ IsFrom(j, "thread/started", t)'
    BY <2>1 DEF Grows, IsFrom
  <2>3. \A i \in 1..Len(inbox') : IsFrom(i, "thread/started", c)' => j < i
    BY <2>1 DEF Grows, IsFrom
  <2> QED BY <1>2, <2>2, <2>3 DEF HasParent
<1> QED BY <1>1, <1>3, <1>4

\* A step of the app-server moves only its own and sends at most one message.
LEMMA ServerFrame ==
  ASSUME CodexInv, UNCHANGED <<codex, rpc, control, code>>, codex.status \in Active,
         native'.interrupted \subseteq native.interrupted
  PROVE  Cancels' /\ AwaitsResults' /\ CompletesQuiet' /\ codex'.stray = FALSE
<1>1. Cancels'
  BY DEF CodexInv, Cancels
<1>2. AwaitsResults'
  BY DEF CodexInv, AwaitsResults
<1>3. CompletesQuiet'
  BY DEF CompletesQuiet, Active
<1> QED BY <1>1, <1>2, <1>3 DEF CodexInv, Scoped

LEMMA PlacesStay ==
  ASSUME CodexInv, UNCHANGED <<codex, code>>, native'.call = native.call, Grows,
         \A i \in 1..Len(inbox') : i > Len(inbox) => inbox'[i].type # "call"
  PROVE  Places'
<1>1. \A k : Calling(k)' = Calling(k)
  BY DEF Grows, Calling
<1>2. \A k : Coded(k)' <=> Coded(k)
  BY DEF Coded
<1> QED BY <1>1, <1>2 DEF CodexInv, Places

LEMMA SpawnStep ==
  ASSUME CodexInv, NEW t \in Thread, NEW c \in SubThread, Spawns(t, c) PROVE CodexInv'
<1> DEFINE o == [sender |-> t, tool |-> "spawnAgent", to |-> c]
<1>0. CodexType /\ InboxType /\ Scoped /\ InOrder
  BY DEF CodexInv
<1>1. /\ UNCHANGED <<inbox, rpc, codex, control, code, seen>>
      /\ codex.status \in Active /\ native.alive /\ native.state[t] = "running"
      /\ t \notin native.closing /\ native.state[c] = "none"
  BY DEF Spawns, Acts, Runs
<1>2. /\ DOMAIN native' = NativeFields /\ native'.state = [native.state EXCEPT ![c] = "new"]
      /\ native'.owed = native.owed \cup {o} /\ native'.alive = native.alive
      /\ native'.turn = native.turn /\ native'.closing = native.closing
      /\ native'.interrupted = native.interrupted /\ native'.call = native.call
  BY <1>0 DEF Spawns, CodexType, NativeFields
<1>3. Grows /\ Listens
  BY <1>0, <1>1, InboxGrows DEF Listens
<1>4. t # c /\ t \in Thread /\ c \in Thread
  BY <1>1 DEF Thread
<1>5. CodexType'
  BY <1>0, <1>1, <1>2, <1>4 DEF CodexType, Tool
<1>6. InboxType'
  BY <1>0, <1>1 DEF InboxType
<1>7. Cancels' /\ AwaitsResults' /\ CompletesQuiet' /\ codex'.stray = FALSE
  BY <1>1, <1>2, ServerFrame
<1>8. Places'
  <2>1. \A i \in 1..Len(inbox') : ~(i > Len(inbox))
    BY <1>1, <1>3 DEF Grows
  <2> QED BY <1>1, <1>2, <1>3, <2>1, PlacesStay
<1>9. Scoped'
  <2>1. \A i \in 1..Len(inbox') : MessageScoped(i)'
    BY <1>0, <1>1, <1>3, OldScopes DEF Scoped
  <2>2. ASSUME NEW d \in SubThread PROVE ThreadScoped(d)'
    <3>1. ThreadScoped(d)
      BY <1>0, <1>3 DEF Scoped
    <3>2. CASE d = c
      <4>1. native'.state[c] = "new"
        BY <1>0, <1>2, <1>4 DEF CodexType
      <4> QED BY <1>1, <1>2, <3>1, <3>2, <4>1 DEF ThreadScoped, Starts, IsFrom
    <3>3. CASE d # c
      <4>1. native'.state[d] = native.state[d] /\ native'.turn[d] = native.turn[d]
        BY <1>0, <1>2, <3>3 DEF CodexType, Thread
      <4>2. \A i \in 1..Len(inbox') : ~(i > Len(inbox))
        BY <1>1, <1>3 DEF Grows
      <4> QED BY <1>1, <1>3, <3>1, <4>1, <4>2, ThreadScopeStays
    <3> QED BY <3>2, <3>3
  <2>3. \A i \in native'.owed : native'.state[i.sender] = "running"
    <3> SUFFICES ASSUME NEW i \in native'.owed PROVE native'.state[i.sender] = "running"
      OBVIOUS
    <3>1. i.sender \in Thread /\ native.state[i.sender] = "running"
      BY <1>0, <1>1, <1>2, <1>3 DEF Scoped, CodexType
    <3> QED BY <1>0, <1>1, <1>2, <3>1 DEF CodexType
  <2> QED BY <1>7, <2>1, <2>2, <2>3 DEF Scoped
<1>10. InOrder'
  <2> SUFFICES ASSUME ~codex.cancelRequested, seen.resumed = {} PROVE InOrder'
    BY <1>1 DEF InOrder
  <2>0. /\ \A i \in native.owed : OwedInOrder(i)
        /\ \A i \in 1..Len(inbox) : MessageInOrder(i)
        /\ \A d \in SubThread : ThreadInOrder(d)
        /\ native.state[Root] = "running" => Untold(Root)
    BY <1>0, <1>3 DEF InOrder
  <2>1. /\ \A i \in 1..Len(inbox) : \A s : EndMark(i, s)' <=> EndMark(i, s)
        /\ \A s : Unended(s)' <=> Unended(s)
        /\ Known' = Known
        /\ \A i \in 1..Len(inbox) : MessageInOrder(i) => MessageInOrder(i)'
    BY <1>1, <1>3, OldOrder
  <2>2. Untold(t)
    BY <1>1, <2>0 DEF ThreadInOrder, Thread
  <2>3. \A i \in native'.owed : OwedInOrder(i)'
    <3>1. OwedInOrder(o)'
      BY <1>1, <1>2, <2>1, <2>2 DEF OwedInOrder, Untold
    <3>2. \A i \in native.owed : OwedInOrder(i)'
      BY <1>1, <1>2, <2>0, <2>1 DEF OwedInOrder
    <3> HIDE DEF o
    <3> QED BY <1>2, <3>1, <3>2
  <2>4. \A d \in SubThread : native'.state[d] # "none" /\ d \notin Known' => HasParent(d)'
    <3> SUFFICES ASSUME NEW d \in SubThread, native'.state[d] # "none", d \notin Known'
                 PROVE HasParent(d)'
      OBVIOUS
    <3>1. CASE d = c
      <4>1. o \in native'.owed /\ SpawnedBy(c, t)'
        BY <1>2 DEF SpawnedBy
      <4>2. t = Root \/ HeardOf(t, Len(inbox) + 1)
        BY <1>0, <1>1, <1>3 DEF Scoped, ThreadScoped, Thread, End
      <4>3. \A i \in 1..Len(inbox) : ~IsFrom(i, "thread/started", c)
        BY <1>1, <2>0 DEF ThreadInOrder
      <4> QED BY <1>1, <2>1, <3>1, <4>1, <4>2, <4>3 DEF HasParent, HeardOf, IsFrom
    <3>2. CASE d # c
      <4>1. HasParent(d)
        BY <1>0, <1>2, <2>0, <2>1, <3>2 DEF ThreadInOrder, CodexType, Thread
      <4>2. \A s : SpawnedBy(d, s) => SpawnedBy(d, s)'
        BY <1>1, <1>2 DEF SpawnedBy, IsFrom
      <4> QED BY <1>1, <1>3, <4>1, <4>2, ParentStays
    <3> QED BY <3>1, <3>2
  <2>5. \A d \in SubThread : ThreadInOrder(d)'
    <3> SUFFICES ASSUME NEW d \in SubThread PROVE ThreadInOrder(d)'
      OBVIOUS
    <3>1. native'.state[d] = (IF d = c THEN "new" ELSE native.state[d])
      BY <1>0, <1>2 DEF CodexType, Thread
    <3> QED BY <1>1, <1>2, <2>0, <2>1, <2>4, <3>1 DEF ThreadInOrder, Untold, IsFrom
  <2>6. native'.state[Root] = "running" => Untold(Root)'
    <3>1. c # Root
      BY CodexAssumption
    <3> QED BY <1>0, <1>1, <1>2, <2>0, <2>1, <3>1 DEF CodexType, Thread, Untold
  <2> QED BY <1>1, <2>0, <2>1, <2>3, <2>5, <2>6 DEF InOrder
<1> QED BY <1>5, <1>6, <1>7, <1>8, <1>9, <1>10 DEF CodexInv

LEMMA FollowStep ==
  ASSUME CodexInv, NEW t \in Thread, NEW c \in SubThread, Follows(t, c) PROVE CodexInv'
<1> DEFINE o == [sender |-> t, tool |-> "sendInput", to |-> c]
<1>0. CodexType /\ InboxType /\ Scoped /\ InOrder
  BY DEF CodexInv
<1>1. /\ UNCHANGED <<inbox, rpc, codex, control, code>>
      /\ codex.status \in Active /\ native.alive /\ native.state[t] = "running"
      /\ native.state[c] = "idle" /\ native.turn[c] < MaxChildTurn
      /\ DOMAIN seen' = DOMAIN seen /\ seen'.resumed = seen.resumed \cup {c}
  BY <1>0 DEF Follows, Acts, Runs, CodexType
<1>2. /\ DOMAIN native' = NativeFields /\ native'.state = [native.state EXCEPT ![c] = "opened"]
      /\ native'.owed = native.owed \cup {o} /\ native'.alive = native.alive
      /\ native'.turn = native.turn /\ native'.closing = native.closing
      /\ native'.interrupted = native.interrupted /\ native'.call = native.call
  BY <1>0 DEF Follows, CodexType, NativeFields
<1>3. Grows /\ Listens
  BY <1>0, <1>1, InboxGrows DEF Listens
<1>4. t # c /\ t \in Thread /\ c \in Thread
  BY <1>1 DEF Thread
<1>5. CodexType'
  BY <1>0, <1>1, <1>2, <1>4 DEF CodexType, Tool
<1>6. InboxType'
  BY <1>0, <1>1 DEF InboxType
<1>7. Cancels' /\ AwaitsResults' /\ CompletesQuiet' /\ codex'.stray = FALSE
  BY <1>1, <1>2, ServerFrame
<1>a. \A i \in 1..Len(inbox') : ~(i > Len(inbox))
  BY <1>1, <1>3 DEF Grows
<1>8. Places'
  BY <1>1, <1>2, <1>3, <1>a, PlacesStay
<1>9. Scoped'
  <2>1. \A i \in 1..Len(inbox') : MessageScoped(i)'
    BY <1>0, <1>1, <1>3, OldScopes DEF Scoped
  <2>2. ASSUME NEW d \in SubThread PROVE ThreadScoped(d)'
    <3>1. ThreadScoped(d)
      BY <1>0, <1>3 DEF Scoped
    <3>2. CASE d = c
      <4>1. native'.state[c] = "opened"
        BY <1>0, <1>2, <1>4 DEF CodexType
      <4> QED BY <1>1, <1>2, <3>1, <3>2, <4>1
              DEF ThreadScoped, Starts, IsFrom, HeardOf, Known, End
    <3>3. CASE d # c
      <4>1. native'.state[d] = native.state[d] /\ native'.turn[d] = native.turn[d]
        BY <1>0, <1>2, <3>3 DEF CodexType, Thread
      <4> QED BY <1>1, <1>3, <1>a, <3>1, <4>1, ThreadScopeStays
    <3> QED BY <3>2, <3>3
  <2>3. \A i \in native'.owed : native'.state[i.sender] = "running"
    <3> SUFFICES ASSUME NEW i \in native'.owed PROVE native'.state[i.sender] = "running"
      OBVIOUS
    <3>1. i.sender \in Thread /\ native.state[i.sender] = "running"
      BY <1>0, <1>1, <1>2, <1>3 DEF Scoped, CodexType
    <3> QED BY <1>0, <1>1, <1>2, <3>1 DEF CodexType
  <2> QED BY <1>7, <2>1, <2>2, <2>3 DEF Scoped
<1>10. InOrder'
  BY <1>1 DEF InOrder
<1> QED BY <1>5, <1>6, <1>7, <1>8, <1>9, <1>10 DEF CodexInv

LEMMA CloseStep ==
  ASSUME CodexInv, NEW t \in Thread, NEW c \in SubThread, Closes(t, c) PROVE CodexInv'
<1> DEFINE o == [sender |-> t, tool |-> "closeAgent", to |-> c]
           w == IF native.state[c] = "running" THEN "running" ELSE "closed"
<1>0. CodexType /\ InboxType /\ Scoped /\ InOrder
  BY DEF CodexInv
<1>1. /\ UNCHANGED <<inbox, rpc, codex, control, code, seen>>
      /\ codex.status \in Active /\ native.alive /\ native.state[t] = "running"
      /\ t \notin native.closing /\ native.state[c] \in {"running", "idle"} /\ t # c
      /\ \A i \in native.owed : i.sender # c
  BY DEF Closes, Acts, Runs, Owed
<1>2. /\ DOMAIN native' = NativeFields /\ native'.state = [native.state EXCEPT ![c] = w]
      /\ native'.owed = native.owed \cup {o} /\ native'.alive = native.alive
      /\ native'.turn = native.turn /\ native'.closing = native.closing \cup {c}
      /\ native'.interrupted = native.interrupted /\ native'.call = native.call
  BY <1>0 DEF Closes, CodexType, NativeFields
<1>3. Grows /\ Listens
  BY <1>0, <1>1, InboxGrows DEF Listens
<1>4. t \in Thread /\ c \in Thread /\ c # Root
  BY CodexAssumption DEF Thread
<1>5. CodexType'
  BY <1>0, <1>1, <1>2, <1>4 DEF CodexType, Tool
<1>6. InboxType'
  BY <1>0, <1>1 DEF InboxType
<1>7. Cancels' /\ AwaitsResults' /\ CompletesQuiet' /\ codex'.stray = FALSE
  BY <1>1, <1>2, ServerFrame
<1>a. \A i \in 1..Len(inbox') : ~(i > Len(inbox))
  BY <1>1, <1>3 DEF Grows
<1>8. Places'
  BY <1>1, <1>2, <1>3, <1>a, PlacesStay
<1>b. \A d \in Thread : native'.state[d] = (IF d = c THEN w ELSE native.state[d])
  BY <1>0, <1>2 DEF CodexType
<1>9. Scoped'
  <2>1. \A i \in 1..Len(inbox') : MessageScoped(i)'
    BY <1>0, <1>1, <1>3, OldScopes DEF Scoped
  <2>2. ASSUME NEW d \in SubThread PROVE ThreadScoped(d)'
    <3>1. ThreadScoped(d) /\ d \in Thread
      BY <1>0, <1>3 DEF Scoped, Thread
    <3>2. CASE native'.state[d] # native.state[d]
      <4>1. d = c /\ native.state[d] = "idle" /\ native'.state[d] = "closed"
        BY <1>1, <1>b, <3>1, <3>2
      <4> QED BY <1>1, <1>2, <3>1, <4>1
              DEF ThreadScoped, Starts, IsFrom, HeardOf, Known, End
    <3>3. CASE native'.state[d] = native.state[d]
      <4>1. native'.turn[d] = native.turn[d]
        BY <1>2
      <4> QED BY <1>1, <1>3, <1>a, <3>1, <3>3, <4>1, ThreadScopeStays
    <3> QED BY <3>2, <3>3
  <2>3. \A i \in native'.owed : native'.state[i.sender] = "running"
    <3> SUFFICES ASSUME NEW i \in native'.owed PROVE native'.state[i.sender] = "running"
      OBVIOUS
    <3>1. i.sender \in Thread /\ native.state[i.sender] = "running"
      BY <1>0, <1>1, <1>2, <1>3 DEF Scoped, CodexType
    <3> QED BY <1>1, <1>b, <3>1
  <2> QED BY <1>7, <2>1, <2>2, <2>3 DEF Scoped
<1>10. InOrder'
  <2> SUFFICES ASSUME ~codex.cancelRequested, seen.resumed = {} PROVE InOrder'
    BY <1>1 DEF InOrder
  <2>0. /\ \A i \in native.owed : OwedInOrder(i)
        /\ \A i \in 1..Len(inbox) : MessageInOrder(i)
        /\ \A d \in SubThread : ThreadInOrder(d)
        /\ native.state[Root] = "running" => Untold(Root)
    BY <1>0, <1>3 DEF InOrder
  <2>1. /\ \A i \in 1..Len(inbox) : \A s : EndMark(i, s)' <=> EndMark(i, s)
        /\ \A s : Unended(s)' <=> Unended(s)
        /\ Known' = Known
        /\ \A i \in 1..Len(inbox) : MessageInOrder(i) => MessageInOrder(i)'
    BY <1>1, <1>3, OldOrder
  <2>2. Untold(t)
    BY <1>1, <2>0 DEF ThreadInOrder, Thread
  <2>3. \A i \in native'.owed : OwedInOrder(i)'
    <3>1. OwedInOrder(o)'
      BY <1>1, <1>2, <2>1, <2>2 DEF OwedInOrder, Untold
    <3>2. \A i \in native.owed : OwedInOrder(i)'
      BY <1>1, <1>2, <2>0, <2>1 DEF OwedInOrder
    <3> HIDE DEF o
    <3> QED BY <1>2, <3>1, <3>2
  <2>4. \A d \in SubThread : native'.state[d] # "none" /\ d \notin Known' => HasParent(d)'
    <3> SUFFICES ASSUME NEW d \in SubThread, native'.state[d] # "none", d \notin Known'
                 PROVE HasParent(d)'
      OBVIOUS
    <3>1. HasParent(d)
      BY <1>1, <1>b, <2>0, <2>1 DEF ThreadInOrder, Thread
    <3>2. \A s : SpawnedBy(d, s) => SpawnedBy(d, s)'
      BY <1>1, <1>2 DEF SpawnedBy, IsFrom
    <3> QED BY <1>1, <1>3, <3>1, <3>2, ParentStays
  <2>5. \A d \in SubThread : ThreadInOrder(d)'
    <3> SUFFICES ASSUME NEW d \in SubThread PROVE ThreadInOrder(d)'
      OBVIOUS
    <3>1. /\ native'.state[d] = native.state[d] \/ native'.state[d] = "closed"
          /\ native.closing \subseteq native'.closing
      BY <1>1, <1>2, <1>b DEF Thread
    <3> QED BY <1>1, <2>0, <2>1, <2>4, <3>1 DEF ThreadInOrder, Untold, IsFrom
  <2>6. native'.state[Root] = "running" => Untold(Root)'
    BY <1>1, <1>4, <1>b, <2>0, <2>1 DEF Thread, Untold
  <2> QED BY <1>1, <2>0, <2>1, <2>3, <2>5, <2>6 DEF InOrder
<1> QED BY <1>5, <1>6, <1>7, <1>8, <1>9, <1>10 DEF CodexInv

\* What a message that is sent is for the order.
LEMMA SentMark ==
  ASSUME InboxType, NEW m, Sends(m)
  PROVE  /\ Grows /\ Len(inbox') = Len(inbox) + 1
         /\ \A i \in 1..Len(inbox') : i > Len(inbox) => inbox'[i] = m
         /\ \A i \in 1..Len(inbox') : i \in 1..Len(inbox) \/ (i > Len(inbox) /\ inbox'[i] = m)
         /\ \A type, s : \A i \in 1..Len(inbox') :
              i > Len(inbox) => (IsFrom(i, type, s)' <=> m.type = type /\ m.thread = s)
         /\ \A s : \A i \in 1..Len(inbox') :
              i > Len(inbox) => (EndMark(i, s)' <=> \/ m.type = "turn/completed" /\ m.thread = s
                                                    \/ m.type = "collaboration" /\ m.detail = "closeAgent" /\ m.to = s)
         /\ \A k : k = Len(inbox) + 1 => k \in 1..Len(inbox') /\ inbox'[k] = m
<1>1. /\ Len(inbox) \in Nat /\ Len(inbox') = Len(inbox) + 1
      /\ \A i \in 1..Len(inbox) : inbox'[i] = inbox[i]
      /\ inbox'[Len(inbox) + 1] = m
  BY MessageSent
<1>2. \A i \in 1..Len(inbox') : i \in 1..Len(inbox) \/ i = Len(inbox) + 1
  BY <1>1
<1>3. \A i \in 1..Len(inbox') : i > Len(inbox) => inbox'[i] = m
  BY <1>1, <1>2
<1>4. Grows
  BY <1>1 DEF Grows
<1> QED BY <1>1, <1>2, <1>3, <1>4 DEF IsFrom, EndMark

\* A message that ends nobody changes nothing for those who have not ended.
LEMMA UntoldStays ==
  ASSUME InboxType, UNCHANGED codex, NEW m, Sends(m), NEW s, Untold(s),
         ~(m.type = "turn/completed" /\ m.thread = s),
         ~(m.type = "collaboration" /\ m.detail = "closeAgent" /\ m.to = s)
  PROVE  Untold(s)' /\ \A i \in 1..Len(inbox') : ~EndMark(i, s)'
<1>1. \A i \in 1..Len(inbox') : ~EndMark(i, s)'
  <2> TAKE i \in 1..Len(inbox')
  <2>1. CASE i \in 1..Len(inbox)
    BY <2>1, SentMark, OldOrder DEF Untold
  <2>2. CASE i > Len(inbox)
    BY <2>2, SentMark
  <2> QED BY <2>1, <2>2, SentMark
<1>2. Unended(s)'
  BY SentMark, OldOrder DEF Untold
<1> QED BY <1>1, <1>2 DEF Untold

\* A message of a running thread that neither starts nor ends a turn.
LEMMA SaysScoped ==
  ASSUME InboxType, Scoped, Listens, UNCHANGED codex, NEW m, Sends(m),
         m.thread \in SubThread /\ m.type # "thread/started" => HeardOf(m.thread, Len(inbox) + 1),
         m.thread \in SubThread /\ m.type \notin {"thread/started", "turn/started"} =>
           OpenAt(m.thread, m.turn, Len(inbox) + 1),
         m.thread \in SubThread /\ m.type = "turn/started" =>
           /\ codex.reported[m.thread][m.turn] = "none"
           /\ \A j \in 1..Len(inbox) : ~Starts(j, m.thread, m.turn)
  PROVE  \A i \in 1..Len(inbox') : MessageScoped(i)'
<1>1. /\ Grows /\ Len(inbox') = Len(inbox) + 1 /\ Len(inbox) \in Nat
      /\ \A i \in 1..Len(inbox') : i > Len(inbox) => inbox'[i] = m
  BY SentMark DEF Grows
<1>2. \A i \in 1..Len(inbox) : MessageScoped(i)'
  BY <1>1, OldScopes DEF Scoped
<1>3. PICK k \in Nat : k = Len(inbox) + 1
  BY <1>1
<1>4. MessageScoped(k)'
  <2>1. inbox'[k] = m /\ k \in 1..(Len(inbox) + 1)
    BY <1>1, <1>3
  <2>2. HeardOf(m.thread, k) => HeardOf(m.thread, k)'
    BY <1>1, <2>1, OldScopes
  <2>3. OpenAt(m.thread, m.turn, k) => OpenAt(m.thread, m.turn, k)'
    BY <1>1, <2>1, OldScopes
  <2>4. \A j \in 1..Len(inbox') : j < k => j \in 1..Len(inbox) /\ inbox'[j] = inbox[j]
    BY <1>1, <1>3 DEF Grows
  <2> QED BY <1>3, <2>1, <2>2, <2>3, <2>4 DEF MessageScoped, Starts, IsFrom
<1>5. \A i \in 1..Len(inbox') : i \in 1..Len(inbox) \/ i = k
  BY <1>1, <1>3
<1> QED BY <1>2, <1>4, <1>5

LEMMA ReportStep ==
  ASSUME CodexInv, NEW o \in native.owed, Reports(o) PROVE CodexInv'
<1> DEFINE m == Message("collaboration", o.sender, o.tool, o.to)
<1>0. CodexType /\ InboxType /\ Scoped /\ InOrder
  BY DEF CodexInv
<1>1. /\ UNCHANGED <<rpc, codex, control, code, seen>> /\ Sends(m)
      /\ codex.status \in Active /\ native.alive
  BY DEF Reports
<1>2. /\ DOMAIN native' = NativeFields /\ native'.state = native.state
      /\ native'.owed = native.owed \ {o} /\ native'.alive = native.alive
      /\ native'.turn = native.turn /\ native'.closing = native.closing
      /\ native'.interrupted = native.interrupted /\ native'.call = native.call
  BY <1>0 DEF Reports, CodexType, NativeFields
<1>3. /\ Listens /\ o.sender \in Thread /\ o.to \in SubThread /\ o.tool \in Tool
      /\ native.state[o.sender] = "running"
  BY <1>0, <1>1 DEF Listens, CodexType, Scoped
<1>4. /\ m.type = "collaboration" /\ m.thread = o.sender /\ m.detail = o.tool /\ m.to = o.to
      /\ m.turn = native.turn[o.sender]
  BY DEF Message
<1> HIDE DEF m
<1>m. /\ Grows /\ Len(inbox') = Len(inbox) + 1
      /\ \A i \in 1..Len(inbox') : i > Len(inbox) => inbox'[i] = m
      /\ \A i \in 1..Len(inbox') : i \in 1..Len(inbox) \/ (i > Len(inbox) /\ inbox'[i] = m)
      /\ \A type, s : \A i \in 1..Len(inbox') :
           i > Len(inbox) => (IsFrom(i, type, s)' <=> m.type = type /\ m.thread = s)
      /\ \A k : k = Len(inbox) + 1 => k \in 1..Len(inbox') /\ inbox'[k] = m
  BY <1>0, <1>1, SentMark
<1>5. CodexType'
  BY <1>0, <1>1, <1>2 DEF CodexType
<1>6. InboxType'
  BY <1>0, <1>1, <1>3, <1>4, TypeOfSent
<1>7. Cancels' /\ AwaitsResults' /\ CompletesQuiet' /\ codex'.stray = FALSE
  BY <1>1, <1>2, ServerFrame
<1>8. Places'
  BY <1>1, <1>2, <1>4, <1>m, PlacesStay
<1>9. Scoped'
  <2>1. \A i \in 1..Len(inbox') : MessageScoped(i)'
    BY <1>0, <1>1, <1>3, <1>4, SaysScoped DEF Scoped, ThreadScoped, End
  <2>2. \A d \in SubThread : ThreadScoped(d)'
    BY <1>0, <1>1, <1>2, <1>3, <1>4, <1>m, ThreadScopeStays DEF Scoped
  <2>3. \A i \in native'.owed : native'.state[i.sender] = "running"
    BY <1>0, <1>2, <1>3 DEF Scoped
  <2> QED BY <1>7, <2>1, <2>2, <2>3 DEF Scoped
<1>10. InOrder'
  <2> SUFFICES ASSUME ~codex.cancelRequested, seen.resumed = {} PROVE InOrder'
    BY <1>1 DEF InOrder
  <2>0. /\ \A i \in native.owed : OwedInOrder(i)
        /\ \A i \in 1..Len(inbox) : MessageInOrder(i)
        /\ \A d \in SubThread : ThreadInOrder(d)
        /\ native.state[Root] = "running" => Untold(Root)
    BY <1>0, <1>3 DEF InOrder
  <2>1. /\ \A i \in 1..Len(inbox) : \A s : EndMark(i, s)' <=> EndMark(i, s)
        /\ \A s : Unended(s)' <=> Unended(s)
        /\ Known' = Known
        /\ \A i \in 1..Len(inbox) : MessageInOrder(i) => MessageInOrder(i)'
    BY <1>1, <1>m, OldOrder
  <2>2. o.tool = "closeAgent" => o.to \in native.closing
    BY <2>0 DEF OwedInOrder
  <2>3. \A i \in native'.owed : OwedInOrder(i)'
    <3> SUFFICES ASSUME NEW i \in native.owed PROVE OwedInOrder(i)'
      BY <1>2
    <3>1. Untold(i.sender) /\ i.sender \notin native.closing
      BY <2>0 DEF OwedInOrder, Untold
    <3>2. Untold(i.sender)'
      BY <1>0, <1>1, <1>4, <2>2, <3>1, UntoldStays
    <3> QED BY <1>2, <2>0, <3>1, <3>2 DEF OwedInOrder, Untold
  <2>4. \A i \in 1..Len(inbox') : MessageInOrder(i)'
    <3> SUFFICES ASSUME NEW i \in 1..Len(inbox'), i > Len(inbox) PROVE MessageInOrder(i)'
      BY <1>m, <2>0, <2>1
    <3>1. Unended(o.sender) /\ \A j \in 1..Len(inbox) : ~EndMark(j, o.sender)
      BY <2>0 DEF OwedInOrder
    <3>2. \A j \in 1..Len(inbox') : j < i => j \in 1..Len(inbox)
      BY <1>m DEF Grows
    <3> QED BY <1>4, <1>m, <2>1, <3>1, <3>2 DEF MessageInOrder
  <2>5. \A d \in SubThread : HasParent(d) => HasParent(d)'
    <3> SUFFICES ASSUME NEW d \in SubThread, HasParent(d) PROVE HasParent(d)'
      OBVIOUS
    <3>1. ASSUME NEW s, SpawnedBy(d, s) PROVE SpawnedBy(d, s)'
      <4>1. CASE \E i \in 1..Len(inbox) :
                   IsFrom(i, "collaboration", s) /\ inbox[i].detail = "spawnAgent" /\ inbox[i].to = d
        BY <4>1, <1>m DEF SpawnedBy, IsFrom, Grows
      <4>2. CASE o = [sender |-> s, tool |-> "spawnAgent", to |-> d]
        <5>1. PICK k : k = Len(inbox) + 1
          OBVIOUS
        <5>2. k \in 1..Len(inbox') /\ inbox'[k] = m
          BY <5>1, <1>m
        <5> QED BY <1>4, <4>2, <5>2 DEF SpawnedBy, IsFrom
      <4>3. CASE o # [sender |-> s, tool |-> "spawnAgent", to |-> d]
                 /\ [sender |-> s, tool |-> "spawnAgent", to |-> d] \in native.owed
        BY <1>2, <4>3 DEF SpawnedBy
      <4> QED BY <3>1, <4>1, <4>2, <4>3 DEF SpawnedBy
    <3> QED BY <1>1, <1>m, <3>1, ParentStays
  <2>6. \A d \in SubThread : ThreadInOrder(d)'
    <3> SUFFICES ASSUME NEW d \in SubThread PROVE ThreadInOrder(d)'
      OBVIOUS
    <3>1. native.state[d] \in {"none", "new"} =>
            \A i \in 1..Len(inbox') : ~IsFrom(i, "thread/started", d)'
      BY <1>4, <1>m, <2>0 DEF ThreadInOrder, IsFrom, Grows
    <3>2. native.state[d] \in {"none", "new", "opened", "running"} /\ d \notin native.closing => Untold(d)'
      BY <1>0, <1>1, <1>4, <2>0, <2>2, UntoldStays DEF ThreadInOrder
    <3> QED BY <1>2, <2>0, <2>1, <2>5, <3>1, <3>2 DEF ThreadInOrder
  <2>7. native'.state[Root] = "running" => Untold(Root)'
    <3>1. o.to # Root
      BY <1>3, CodexAssumption
    <3> QED BY <1>0, <1>1, <1>2, <1>4, <2>0, <3>1, UntoldStays
  <2> QED BY <1>1, <2>3, <2>4, <2>6, <2>7 DEF InOrder
<1> QED BY <1>5, <1>6, <1>7, <1>8, <1>9, <1>10 DEF CodexInv

\* A message that neither reports a tool nor ends a turn keeps the order.
LEMMA SaysInOrder ==
  ASSUME InboxType, InOrder, Listens, UNCHANGED <<codex, seen>>, NEW m, Sends(m),
         m.type \in {"item", "call", "turn/started", "thread/started"},
         native'.owed = native.owed, native'.closing = native.closing,
         native'.state[Root] = native.state[Root],
         \A d \in SubThread : \/ native'.state[d] = native.state[d]
                              \/ /\ native.state[d] \in {"new", "opened"}
                                 /\ native'.state[d] \in {"opened", "running"},
         m.type = "thread/started" => native'.state[m.thread] \notin {"none", "new"}
  PROVE  InOrder'
<1>m. /\ Grows /\ Len(inbox') = Len(inbox) + 1
      /\ \A i \in 1..Len(inbox') : i > Len(inbox) => inbox'[i] = m
      /\ \A i \in 1..Len(inbox') : i \in 1..Len(inbox) \/ (i > Len(inbox) /\ inbox'[i] = m)
      /\ \A type, s : \A i \in 1..Len(inbox') :
           i > Len(inbox) => (IsFrom(i, type, s)' <=> m.type = type /\ m.thread = s)
  BY SentMark
<1> SUFFICES ASSUME ~codex.cancelRequested, seen.resumed = {} PROVE InOrder'
  BY DEF InOrder
<1>0. /\ \A i \in native.owed : OwedInOrder(i)
      /\ \A i \in 1..Len(inbox) : MessageInOrder(i)
      /\ \A d \in SubThread : ThreadInOrder(d)
      /\ native.state[Root] = "running" => Untold(Root)
  BY DEF InOrder
<1>1. /\ \A s : Unended(s)' <=> Unended(s)
      /\ Known' = Known
      /\ \A i \in 1..Len(inbox) : MessageInOrder(i) => MessageInOrder(i)'
  BY <1>m, OldOrder
<1>2. \A s : Untold(s) => Untold(s)'
  BY UntoldStays
<1>3. \A i \in native'.owed : OwedInOrder(i)'
  BY <1>0, <1>2 DEF OwedInOrder, Untold
<1>4. \A i \in 1..Len(inbox') : MessageInOrder(i)'
  BY <1>m, <1>0, <1>1 DEF MessageInOrder
<1>5. \A d \in SubThread : HasParent(d) => HasParent(d)'
  <2> SUFFICES ASSUME NEW d \in SubThread, HasParent(d) PROVE HasParent(d)'
    OBVIOUS
  <2>1. \A s : SpawnedBy(d, s) => SpawnedBy(d, s)'
    BY <1>m DEF SpawnedBy, IsFrom, Grows
  <2> QED BY <1>m, <2>1, ParentStays
<1>6. \A d \in SubThread : ThreadInOrder(d)'
  <2> SUFFICES ASSUME NEW d \in SubThread PROVE ThreadInOrder(d)'
    OBVIOUS
  <2>0. ThreadInOrder(d)
    BY <1>0
  <2>1. native'.state[d] # "none" /\ d \notin Known' => HasParent(d)'
    BY <1>1, <1>5, <2>0 DEF ThreadInOrder
  <2>2. native'.state[d] \in {"none", "new"} => \A i \in 1..Len(inbox') : ~IsFrom(i, "thread/started", d)'
    <3> SUFFICES ASSUME native'.state[d] \in {"none", "new"}, NEW i \in 1..Len(inbox')
                 PROVE ~IsFrom(i, "thread/started", d)'
      OBVIOUS
    <3>1. native'.state[d] = native.state[d]
      OBVIOUS
    <3>2. CASE i \in 1..Len(inbox)
      BY <1>m, <2>0, <3>1, <3>2 DEF ThreadInOrder, IsFrom, Grows
    <3>3. CASE i > Len(inbox)
      BY <1>m, <3>3
    <3> QED BY <1>m, <3>2, <3>3
  <2>3. /\ native'.state[d] \in {"none", "new", "opened", "running"} /\ d \notin native'.closing => Untold(d)'
    BY <1>2, <2>0 DEF ThreadInOrder
  <2> QED BY <2>1, <2>2, <2>3 DEF ThreadInOrder
<1>7. native'.state[Root] = "running" => Untold(Root)'
  BY <1>0, <1>2
<1> QED BY <1>3, <1>4, <1>6, <1>7 DEF InOrder

LEMMA AnnounceStep ==
  ASSUME CodexInv, NEW c \in SubThread, Announces(c) PROVE CodexInv'
<1> DEFINE m == Message("thread/started", c, "none", c)
<1>0. CodexType /\ InboxType /\ Scoped /\ InOrder
  BY DEF CodexInv
<1>1. /\ UNCHANGED <<rpc, codex, control, code, seen>> /\ Sends(m)
      /\ codex.status \in Active /\ native.alive /\ native.state[c] = "new"
  BY DEF Announces
<1>2. /\ DOMAIN native' = NativeFields /\ native'.state = [native.state EXCEPT ![c] = "opened"]
      /\ native'.owed = native.owed /\ native'.alive = native.alive
      /\ native'.turn = native.turn /\ native'.closing = native.closing
      /\ native'.interrupted = native.interrupted /\ native'.call = native.call
  BY <1>0 DEF Announces, CodexType, NativeFields
<1>3. Listens /\ c \in Thread /\ c # Root
  BY <1>1, CodexAssumption DEF Listens, Thread
<1>4. m.type = "thread/started" /\ m.thread = c /\ m.to = c
  BY DEF Message
<1> HIDE DEF m
<1>m. /\ Grows /\ Len(inbox') = Len(inbox) + 1 /\ Len(inbox) \in Nat
      /\ \A i \in 1..Len(inbox') : i > Len(inbox) => inbox'[i] = m
      /\ \A i \in 1..Len(inbox') : i \in 1..Len(inbox) \/ (i > Len(inbox) /\ inbox'[i] = m)
      /\ \A type, s : \A i \in 1..Len(inbox') :
           i > Len(inbox) => (IsFrom(i, type, s)' <=> m.type = type /\ m.thread = s)
      /\ \A k : k = Len(inbox) + 1 => k \in 1..Len(inbox') /\ inbox'[k] = m
  BY <1>0, <1>1, SentMark DEF Grows
<1>5. CodexType'
  BY <1>0, <1>1, <1>2, <1>3 DEF CodexType
<1>6. InboxType'
  BY <1>0, <1>1, <1>3, <1>4, TypeOfSent
<1>7. Cancels' /\ AwaitsResults' /\ CompletesQuiet' /\ codex'.stray = FALSE
  BY <1>1, <1>2, ServerFrame
<1>8. Places'
  BY <1>1, <1>2, <1>4, <1>m, PlacesStay
<1>b. \A d \in Thread : native'.state[d] = (IF d = c THEN "opened" ELSE native.state[d])
  BY <1>0, <1>2 DEF CodexType
<1>9. Scoped'
  <2>1. \A i \in 1..Len(inbox') : MessageScoped(i)'
    BY <1>0, <1>1, <1>3, <1>4, SaysScoped DEF Scoped
  <2>2. ASSUME NEW d \in SubThread PROVE ThreadScoped(d)'
    <3>1. ThreadScoped(d) /\ d \in Thread
      BY <1>0, <1>3 DEF Scoped, Thread
    <3>2. CASE d = c
      <4>0. PICK l \in Nat : l = Len(inbox') + 1
        BY <1>m
      <4>1. HeardOf(c, l)'
        <5>1. PICK k \in Nat : k = Len(inbox) + 1
          BY <1>m
        <5>2. k \in 1..Len(inbox') /\ IsFrom(k, "thread/started", c)' /\ k < l
          BY <1>m, <1>4, <4>0, <5>1 DEF IsFrom
        <5> QED BY <5>2 DEF HeardOf
      <4>2. native'.state[c] = "opened" /\ native'.turn[c] = 0
        BY <1>1, <1>2, <1>b, <3>1, <3>2 DEF ThreadScoped
      <4>3. \A n, j : j \in 1..Len(inbox') /\ Starts(j, c, n)' => j \in 1..Len(inbox) /\ Starts(j, c, n)
        BY <1>m, <1>4 DEF Grows, Starts, IsFrom
      <4> QED BY <1>1, <1>2, <3>1, <3>2, <4>0, <4>1, <4>2, <4>3, CodexAssumption DEF ThreadScoped, End
    <3>3. CASE d # c
      <4>1. native'.state[d] = native.state[d] /\ native'.turn[d] = native.turn[d]
        BY <1>2, <1>b, <3>1, <3>3
      <4> QED BY <1>1, <1>4, <1>m, <3>1, <4>1, ThreadScopeStays
    <3> QED BY <3>2, <3>3
  <2>3. \A i \in native'.owed : native'.state[i.sender] = "running"
    BY <1>0, <1>1, <1>2, <1>3, <1>b DEF Scoped, CodexType
  <2> QED BY <1>7, <2>1, <2>2, <2>3 DEF Scoped
<1>10. InOrder'
  <2>1. /\ native'.state[Root] = native.state[Root]
        /\ \A d \in SubThread : \/ native'.state[d] = native.state[d]
                                \/ native.state[d] = "new" /\ native'.state[d] = "opened"
        /\ native'.state[m.thread] = "opened"
    BY <1>1, <1>3, <1>4, <1>b DEF Thread
  <2> QED BY <1>0, <1>1, <1>2, <1>3, <1>4, <2>1, SaysInOrder
<1> QED BY <1>5, <1>6, <1>7, <1>8, <1>9, <1>10 DEF CodexInv

LEMMA ItemStep ==
  ASSUME CodexInv, NEW t \in Thread, Item(t) PROVE CodexInv'
<1> DEFINE m == Message("item", t, "none", t)
<1>0. CodexType /\ InboxType /\ Scoped /\ InOrder
  BY DEF CodexInv
<1>1. /\ UNCHANGED <<rpc, codex, control, code, seen>> /\ Sends(m)
      /\ codex.status \in Active /\ native.alive /\ native.state[t] = "running"
  BY DEF Item, Acts, Runs
<1>2. /\ DOMAIN native' = NativeFields /\ native'.state = native.state
      /\ native'.owed = native.owed /\ native'.alive = native.alive
      /\ native'.turn = native.turn /\ native'.closing = native.closing
      /\ native'.interrupted = native.interrupted /\ native'.call = native.call
  BY <1>0 DEF Item, CodexType, NativeFields
<1>3. Listens
  BY <1>1 DEF Listens
<1>4. m.type = "item" /\ m.thread = t /\ m.turn = native.turn[t]
  BY DEF Message
<1> HIDE DEF m
<1>m. /\ Grows /\ Len(inbox') = Len(inbox) + 1
      /\ \A i \in 1..Len(inbox') : i > Len(inbox) => inbox'[i] = m
      /\ \A type, s : \A i \in 1..Len(inbox') :
           i > Len(inbox) => (IsFrom(i, type, s)' <=> m.type = type /\ m.thread = s)
  BY <1>0, <1>1, SentMark
<1>5. CodexType'
  BY <1>0, <1>1, <1>2 DEF CodexType
<1>6. InboxType'
  BY <1>0, <1>1, <1>4, TypeOfSent
<1>7. Cancels' /\ AwaitsResults' /\ CompletesQuiet' /\ codex'.stray = FALSE
  BY <1>1, <1>2, ServerFrame
<1>8. Places'
  BY <1>1, <1>2, <1>4, <1>m, PlacesStay
<1>9. Scoped'
  <2>1. \A i \in 1..Len(inbox') : MessageScoped(i)'
    BY <1>0, <1>1, <1>3, <1>4, SaysScoped DEF Scoped, ThreadScoped, End
  <2>2. \A d \in SubThread : ThreadScoped(d)'
    BY <1>0, <1>1, <1>2, <1>3, <1>4, <1>m, ThreadScopeStays DEF Scoped
  <2>3. \A i \in native'.owed : native'.state[i.sender] = "running"
    BY <1>0, <1>2, <1>3 DEF Scoped
  <2> QED BY <1>7, <2>1, <2>2, <2>3 DEF Scoped
<1>10. InOrder'
  BY <1>0, <1>1, <1>2, <1>3, <1>4, SaysInOrder
<1> QED BY <1>5, <1>6, <1>7, <1>8, <1>9, <1>10 DEF CodexInv

LEMMA TurnStartStep ==
  ASSUME CodexInv, NEW c \in SubThread, TurnStarts(c) PROVE CodexInv'
<1>0. CodexType /\ InboxType /\ Scoped /\ InOrder
  BY DEF CodexInv
<1>c. c \in Thread /\ c # Root
  BY CodexAssumption DEF Thread
<1>n. PICK n \in Nat : n = native.turn[c] + 1
  BY <1>0, <1>c DEF CodexType
<1> DEFINE m == [Message("turn/started", c, "none", c) EXCEPT !.turn = n]
<1>2. /\ DOMAIN native' = NativeFields /\ native'.state = [native.state EXCEPT ![c] = "running"]
      /\ native'.turn = [native.turn EXCEPT ![c] = n]
      /\ native'.owed = native.owed /\ native'.alive = native.alive
      /\ native'.closing = native.closing
      /\ native'.interrupted = native.interrupted /\ native'.call = native.call
  BY <1>0, <1>n DEF TurnStarts, CodexType, NativeFields
<1>1. /\ UNCHANGED <<rpc, codex, control, code, seen>> /\ Sends(m)
      /\ codex.status \in Active /\ native.alive /\ native.state[c] = "opened"
  <2>1. native'.turn[c] = n
    BY <1>0, <1>2, <1>c DEF CodexType
  <2> QED BY <2>1, <1>n DEF TurnStarts
<1>3. Listens
  BY <1>1 DEF Listens
<1>s. ThreadScoped(c) /\ native.turn[c] \in Nat /\ native.turn[c] < MaxChildTurn
  BY <1>0, <1>1, <1>3, <1>c DEF Scoped, ThreadScoped, CodexType
<1>4. m.type = "turn/started" /\ m.thread = c /\ m.turn = n /\ n \in 1..MaxChildTurn
  BY <1>n, <1>s, CodexAssumption DEF Message
<1> HIDE DEF m
<1>m. /\ Grows /\ Len(inbox') = Len(inbox) + 1 /\ Len(inbox) \in Nat
      /\ \A i \in 1..Len(inbox') : i > Len(inbox) => inbox'[i] = m
      /\ \A i \in 1..Len(inbox') : i \in 1..Len(inbox) \/ (i > Len(inbox) /\ inbox'[i] = m)
      /\ \A type, s : \A i \in 1..Len(inbox') :
           i > Len(inbox) => (IsFrom(i, type, s)' <=> m.type = type /\ m.thread = s)
      /\ \A k : k = Len(inbox) + 1 => k \in 1..Len(inbox') /\ inbox'[k] = m
  BY <1>0, <1>1, SentMark DEF Grows
<1>5. CodexType'
  <2>1. /\ native.state \in [Thread -> {"none", "new", "opened", "running", "idle", "closed"}]
        /\ native.turn \in [Thread -> Nat]
    BY <1>0 DEF CodexType
  <2>2. /\ native'.state \in [Thread -> {"none", "new", "opened", "running", "idle", "closed"}]
        /\ native'.turn \in [Thread -> Nat]
    BY ONLY <1>2, <1>c, <1>n, <2>1
  <2> QED BY <1>0, <1>1, <1>2, <2>2 DEF CodexType
<1>6. InboxType'
  BY <1>0, <1>1, <1>4, <1>c, TypeOfSent
<1>7. Cancels' /\ AwaitsResults' /\ CompletesQuiet' /\ codex'.stray = FALSE
  BY <1>1, <1>2, ServerFrame
<1>8. Places'
  BY <1>1, <1>2, <1>4, <1>m, PlacesStay
<1>b. \A d \in Thread : /\ native'.state[d] = (IF d = c THEN "running" ELSE native.state[d])
                        /\ native'.turn[d] = (IF d = c THEN n ELSE native.turn[d])
  BY <1>0, <1>2 DEF CodexType
<1>o. /\ codex.reported[c][n] = "none" /\ \A j \in 1..Len(inbox) : ~Starts(j, c, n)
      /\ \A j \in 1..Len(inbox) : ~EndsTurn(j, c, n)
  <2>1. codex.reported[c][n] = "none" /\ \A j \in 1..Len(inbox) : ~Starts(j, c, n)
    BY <1>s, <1>n, <1>4 DEF ThreadScoped
  <2>2. ASSUME NEW j \in 1..Len(inbox), EndsTurn(j, c, n) PROVE FALSE
    <3>1. OpenAt(c, n, j)
      BY <1>0, <1>3, <2>2 DEF Scoped, MessageScoped, EndsTurn, IsFrom
    <3> QED BY <2>1, <3>1 DEF OpenAt
  <2> QED BY <2>1, <2>2
<1>9. Scoped'
  <2>1. \A i \in 1..Len(inbox') : MessageScoped(i)'
    <3>1. HeardOf(c, Len(inbox) + 1)
      BY <1>1, <1>s DEF ThreadScoped, End
    <3> QED BY <1>0, <1>1, <1>3, <1>4, <1>o, <3>1, SaysScoped
  <2>2. ASSUME NEW d \in SubThread PROVE ThreadScoped(d)'
    <3>1. ThreadScoped(d) /\ d \in Thread
      BY <1>0, <1>3 DEF Scoped, Thread
    <3>2. CASE d = c
      <4>0. PICK k \in Nat, l \in Nat : k = Len(inbox) + 1 /\ l = Len(inbox') + 1
        BY <1>m
      <4>1. HeardOf(c, l)'
        <5>1. HeardOf(c, k)
          BY <1>1, <1>s, <4>0 DEF ThreadScoped, End
        <5>2. HeardOf(c, k)'
          BY <1>1, <1>m, <4>0, <5>1, OldScopes
        <5> QED BY <1>m, <4>0, <5>2 DEF HeardOf
      <4>2. OpenAt(c, n, l)'
        <5>1. k \in 1..Len(inbox') /\ k < l /\ Starts(k, c, n)'
          BY <1>m, <1>4, <4>0 DEF Starts, IsFrom
        <5>2. \A j \in 1..Len(inbox') : ~EndsTurn(j, c, n)'
          BY <1>m, <1>4, <1>o DEF EndsTurn, IsFrom, Grows
        <5> QED BY <1>4, <5>1, <5>2 DEF OpenAt
      <4>3. \A i \in 1..MaxChildTurn, j \in 1..Len(inbox') :
              Starts(j, c, i)' => i = n \/ (j \in 1..Len(inbox) /\ Starts(j, c, i))
        BY <1>m, <1>4 DEF Grows, Starts, IsFrom
      <4>4. native'.state[c] = "running" /\ native'.turn[c] = n /\ n > native.turn[c]
        BY <1>b, <1>c, <1>s, <1>n
      <4>5. \A i \in 1..MaxChildTurn : i > n =>
              /\ codex.reported[c][i] = "none" /\ \A j \in 1..Len(inbox') : ~Starts(j, c, i)'
        BY <1>s, <4>3, <4>4 DEF ThreadScoped
      <4> QED BY <1>1, <1>4, <3>2, <4>0, <4>1, <4>2, <4>4, <4>5 DEF ThreadScoped, End
    <3>3. CASE d # c
      BY <1>1, <1>4, <1>m, <1>b, <3>1, <3>3, ThreadScopeStays
    <3> QED BY <3>2, <3>3
  <2>3. \A i \in native'.owed : native'.state[i.sender] = "running"
    BY <1>0, <1>1, <1>2, <1>3, <1>b DEF Scoped, CodexType
  <2> QED BY <1>7, <2>1, <2>2, <2>3 DEF Scoped
<1>10. InOrder'
  <2>1. /\ native'.state[Root] = native.state[Root]
        /\ \A d \in SubThread : \/ native'.state[d] = native.state[d]
                                \/ native.state[d] = "opened" /\ native'.state[d] = "running"
    BY <1>1, <1>c, <1>b DEF Thread
  <2> QED BY <1>0, <1>1, <1>2, <1>3, <1>4, <2>1, SaysInOrder
<1> QED BY <1>5, <1>6, <1>7, <1>8, <1>9, <1>10 DEF CodexInv

LEMMA CallStep ==
  ASSUME CodexInv, NEW t \in Thread, NEW k \in CodexCall, NEW kind, Calls(t, k, kind) PROVE CodexInv'
<1> DEFINE m == Message("call", t, kind, k)
<1>0. CodexType /\ InboxType /\ Scoped /\ InOrder /\ Places
  BY DEF CodexInv
<1>1. /\ UNCHANGED <<rpc, codex, control, code, seen>> /\ Sends(m)
      /\ codex.status \in Active /\ native.alive /\ native.state[t] = "running"
      /\ native.call[k].answers = 0 /\ native.call[k].by \notin Thread
  BY DEF Calls, Acts, Runs
<1>2. /\ DOMAIN native' = NativeFields /\ native'.state = native.state
      /\ native'.owed = native.owed /\ native'.alive = native.alive
      /\ native'.turn = native.turn /\ native'.closing = native.closing
      /\ native'.interrupted = native.interrupted
      /\ native'.call = [native.call EXCEPT ![k] = [by |-> t, answers |-> 0]]
  BY <1>0 DEF Calls, CodexType, NativeFields
<1>3. Listens
  BY <1>1 DEF Listens
<1>4. m.type = "call" /\ m.thread = t /\ m.turn = native.turn[t] /\ m.to = k
  BY DEF Message
<1> HIDE DEF m
<1>m. /\ Grows /\ Len(inbox') = Len(inbox) + 1
      /\ \A i \in 1..Len(inbox') : i > Len(inbox) => inbox'[i] = m
      /\ \A type, s : \A i \in 1..Len(inbox') :
           i > Len(inbox) => (IsFrom(i, type, s)' <=> m.type = type /\ m.thread = s)
  BY <1>0, <1>1, SentMark
<1>5. CodexType'
  BY <1>0, <1>1, <1>2 DEF CodexType
<1>6. InboxType'
  BY <1>0, <1>1, <1>4, TypeOfSent
<1>7. Cancels' /\ AwaitsResults' /\ CompletesQuiet' /\ codex'.stray = FALSE
  BY <1>1, <1>2, ServerFrame
<1>8. Places'
  <2>1. Calling(k) = {} /\ k \notin codex.tools /\ ~Coded(k)
    BY <1>0, <1>1 DEF Places
  <2>2. \A l \in CodexCall : l # k => Calling(l)' = Calling(l)
    BY <1>4, <1>m DEF Calling, Grows
  <2>3. \A i, j \in Calling(k)' : i = j
    BY <1>m, <2>1 DEF Calling, Grows
  <2>4. \A l : Coded(l)' <=> Coded(l)
    BY <1>1 DEF Coded
  <2>5. ASSUME NEW l \in CodexCall
        PROVE  /\ native'.call[l].answers \in {0, 1}
               /\ Calling(l)' # {} \/ l \in codex'.tools \/ Coded(l)' =>
                    native'.call[l].answers = 0 /\ native'.call[l].by \in Thread
               /\ Calling(l)' # {} => l \notin codex'.tools /\ ~Coded(l)'
               /\ l \in codex'.tools => ~Coded(l)'
               /\ \A i, j \in Calling(l)' : i = j
    <3>1. CASE l = k
      <4>1. native'.call[k] = [by |-> t, answers |-> 0]
        BY <1>0, <1>2 DEF CodexType
      <4> QED BY <1>1, <2>1, <2>3, <2>4, <3>1, <4>1
    <3>2. CASE l # k
      <4>1. native'.call[l] = native.call[l]
        BY <1>0, <1>2, <3>2 DEF CodexType
      <4> QED BY <1>0, <1>1, <2>2, <2>4, <3>2, <4>1 DEF Places
    <3> QED BY <3>1, <3>2
  <2> QED BY <2>5 DEF Places
<1>9. Scoped'
  <2>1. \A i \in 1..Len(inbox') : MessageScoped(i)'
    BY <1>0, <1>1, <1>3, <1>4, SaysScoped DEF Scoped, ThreadScoped, End
  <2>2. \A d \in SubThread : ThreadScoped(d)'
    BY <1>0, <1>1, <1>2, <1>3, <1>4, <1>m, ThreadScopeStays DEF Scoped
  <2>3. \A i \in native'.owed : native'.state[i.sender] = "running"
    BY <1>0, <1>2, <1>3 DEF Scoped
  <2> QED BY <1>7, <2>1, <2>2, <2>3 DEF Scoped
<1>10. InOrder'
  BY <1>0, <1>1, <1>2, <1>3, <1>4, SaysInOrder
<1> QED BY <1>5, <1>6, <1>7, <1>8, <1>9, <1>10 DEF CodexInv

LEMMA EndStep ==
  ASSUME CodexInv, NEW t \in Thread, NEW status, NativeEnds(t, status) PROVE CodexInv'
<1> DEFINE m == Message("turn/completed", t, status, t)
           w == IF t \in native.closing THEN "closed" ELSE "idle"
<1>0. CodexType /\ InboxType /\ Scoped /\ InOrder /\ Cancels
  BY DEF CodexInv
<1>1. /\ UNCHANGED <<rpc, codex, control, code, seen>> /\ Sends(m)
      /\ codex.status \in Active /\ native.alive /\ native.state[t] = "running"
      /\ \/ t \in native.interrupted \cup native.closing
         \/ Owed(t) = {}
  BY DEF NativeEnds, Runs
<1>2. /\ DOMAIN native' = NativeFields /\ native'.state = [native.state EXCEPT ![t] = w]
      /\ native'.owed = native.owed \ Owed(t) /\ native'.alive = native.alive
      /\ native'.turn = native.turn /\ native'.closing = native.closing
      /\ native'.interrupted = native.interrupted \ {t} /\ native'.call = native.call
  BY <1>0 DEF NativeEnds, CodexType, NativeFields
<1>3. Listens
  BY <1>1 DEF Listens
<1>4. m.type = "turn/completed" /\ m.thread = t /\ m.turn = native.turn[t]
  BY DEF Message
<1> HIDE DEF m
<1>m. /\ Grows /\ Len(inbox') = Len(inbox) + 1 /\ Len(inbox) \in Nat
      /\ \A i \in 1..Len(inbox') : i > Len(inbox) => inbox'[i] = m
      /\ \A i \in 1..Len(inbox') : i \in 1..Len(inbox) \/ (i > Len(inbox) /\ inbox'[i] = m)
      /\ \A type, s : \A i \in 1..Len(inbox') :
           i > Len(inbox) => (IsFrom(i, type, s)' <=> m.type = type /\ m.thread = s)
  BY <1>0, <1>1, SentMark DEF Grows
<1>5. CodexType'
  BY <1>0, <1>1, <1>2 DEF CodexType
<1>6. InboxType'
  BY <1>0, <1>1, <1>4, TypeOfSent
<1>7. Cancels' /\ AwaitsResults' /\ CompletesQuiet' /\ codex'.stray = FALSE
  BY <1>1, <1>2, ServerFrame
<1>8. Places'
  BY <1>1, <1>2, <1>4, <1>m, PlacesStay
<1>b. \A d \in Thread : native'.state[d] = (IF d = t THEN w ELSE native.state[d])
  BY <1>0, <1>2 DEF CodexType
<1>9. Scoped'
  <2>1. \A i \in 1..Len(inbox') : MessageScoped(i)'
    BY <1>0, <1>1, <1>3, <1>4, SaysScoped DEF Scoped, ThreadScoped, End
  <2>2. ASSUME NEW d \in SubThread PROVE ThreadScoped(d)'
    <3>1. ThreadScoped(d) /\ d \in Thread
      BY <1>0, <1>3 DEF Scoped, Thread
    <3>2. CASE d = t
      <4>0. PICK k \in Nat, l \in Nat : k = Len(inbox) + 1 /\ l = Len(inbox') + 1
        BY <1>m
      <4>1. HeardOf(t, l)'
        <5>1. HeardOf(t, k)
          BY <1>1, <3>1, <3>2, <4>0 DEF ThreadScoped, End
        <5>2. HeardOf(t, k)'
          BY <1>1, <1>m, <4>0, <5>1, OldScopes
        <5> QED BY <1>m, <4>0, <5>2 DEF HeardOf
      <4>2. \A i, j : j \in 1..Len(inbox') /\ Starts(j, t, i)' => j \in 1..Len(inbox) /\ Starts(j, t, i)
        BY <1>m, <1>4 DEF Grows, Starts, IsFrom
      <4>3. native'.state[t] \in {"idle", "closed"}
        BY <1>b
      <4> QED BY <1>1, <1>2, <3>1, <3>2, <4>0, <4>1, <4>2, <4>3 DEF ThreadScoped, End
    <3>3. CASE d # t
      BY <1>1, <1>2, <1>4, <1>m, <1>b, <3>1, <3>3, ThreadScopeStays
    <3> QED BY <3>2, <3>3
  <2>3. \A i \in native'.owed : native'.state[i.sender] = "running"
    BY <1>0, <1>1, <1>2, <1>3, <1>b DEF Scoped, CodexType, Owed
  <2> QED BY <1>7, <2>1, <2>2, <2>3 DEF Scoped
<1>10. InOrder'
  <2> SUFFICES ASSUME ~codex.cancelRequested, seen.resumed = {} PROVE InOrder'
    BY <1>1 DEF InOrder
  <2>0. /\ \A i \in native.owed : OwedInOrder(i)
        /\ \A i \in 1..Len(inbox) : MessageInOrder(i)
        /\ \A d \in SubThread : ThreadInOrder(d)
        /\ native.state[Root] = "running" => Untold(Root)
    BY <1>0, <1>3 DEF InOrder
  <2>1. /\ \A i \in 1..Len(inbox) : \A s : EndMark(i, s)' <=> EndMark(i, s)
        /\ \A s : Unended(s)' <=> Unended(s)
        /\ Known' = Known
        /\ \A i \in 1..Len(inbox) : MessageInOrder(i) => MessageInOrder(i)'
    BY <1>1, <1>m, OldOrder
  <2>2. native'.owed = native.owed /\ \A i \in native.owed : i.sender # t
    <3>1. \A i \in Owed(t) : FALSE
      BY <1>0, <1>1, <2>0 DEF Cancels, OwedInOrder, Owed
    <3> QED BY <1>2, <3>1 DEF Owed
  <2>3. \A s : s # t /\ Untold(s) => Untold(s)'
    BY <1>0, <1>1, <1>4, UntoldStays
  <2>4. \A i \in native'.owed : OwedInOrder(i)'
    BY <1>2, <2>0, <2>2, <2>3 DEF OwedInOrder, Untold
  <2>5. \A i \in 1..Len(inbox') : MessageInOrder(i)'
    BY <1>4, <1>m, <2>0, <2>1 DEF MessageInOrder
  <2>6. \A d \in SubThread : HasParent(d) => HasParent(d)'
    <3> SUFFICES ASSUME NEW d \in SubThread, HasParent(d) PROVE HasParent(d)'
      OBVIOUS
    <3>1. \A s : SpawnedBy(d, s) => SpawnedBy(d, s)'
      BY <1>m, <2>2 DEF SpawnedBy, IsFrom, Grows
    <3> QED BY <1>1, <1>m, <3>1, ParentStays
  <2>7. \A d \in SubThread : ThreadInOrder(d)'
    <3> SUFFICES ASSUME NEW d \in SubThread PROVE ThreadInOrder(d)'
      OBVIOUS
    <3>0. ThreadInOrder(d) /\ d \in Thread
      BY <2>0 DEF Thread
    <3>1. native'.state[d] # "none" /\ d \notin Known' => HasParent(d)'
      BY <1>1, <1>b, <2>1, <2>6, <3>0 DEF ThreadInOrder
    <3>2. native'.state[d] \in {"none", "new"} => \A i \in 1..Len(inbox') : ~IsFrom(i, "thread/started", d)'
      BY <1>1, <1>4, <1>b, <1>m, <3>0 DEF ThreadInOrder, IsFrom, Grows
    <3>3. native'.state[d] \in {"none", "new", "opened", "running"} /\ d \notin native'.closing => Untold(d)'
      BY <1>2, <1>b, <2>3, <3>0 DEF ThreadInOrder
    <3> QED BY <3>1, <3>2, <3>3 DEF ThreadInOrder
  <2>8. native'.state[Root] = "running" => Untold(Root)'
    BY <1>b, <2>0, <2>3 DEF Thread
  <2> QED BY <2>4, <2>5, <2>7, <2>8 DEF InOrder
<1> QED BY <1>5, <1>6, <1>7, <1>8, <1>9, <1>10 DEF CodexInv

LEMMA AppServerStep == ASSUME CodexInv, AppServer PROVE CodexInv'
<1>1. \A t \in Thread, c \in SubThread : Spawns(t, c) \/ Follows(t, c) \/ Closes(t, c) => CodexInv'
  BY SpawnStep, FollowStep, CloseStep
<1>2. \A c \in SubThread : Announces(c) \/ TurnStarts(c) => CodexInv'
  BY AnnounceStep, TurnStartStep
<1>3. \A i \in native.owed : Reports(i) => CodexInv'
  BY ReportStep
<1>4. \A t \in Thread : \A s : Item(t) \/ NativeEnds(t, s) => CodexInv'
  BY ItemStep, EndStep
<1>5. \A t \in Thread, k \in CodexCall : \A kind : Calls(t, k, kind) => CodexInv'
  BY CallStep
<1> QED BY <1>1, <1>2, <1>3, <1>4, <1>5 DEF AppServer

-----------------------------------------------------------------------------
\* The job's own operations.
OnlyStatus(j, k) ==
  /\ DOMAIN k = CodexFields /\ k.closing = j.closing /\ k.cancelling = j.cancelling
  /\ k.cancelRequested = j.cancelRequested /\ k.rootOutcome = j.rootOutcome /\ k.tools = j.tools
  /\ k.code = j.code /\ k.child = j.child /\ k.stray = j.stray /\ k.reported = j.reported

LEMMA StatusSet ==
  ASSUME NEW j, DOMAIN j = CodexFields, NEW s
  PROVE  /\ OnlyStatus(j, setStatus(j, s))
         /\ Sealed(j) => setStatus(j, s) = j
         /\ ~Sealed(j) /\ ~j.cancelling => setStatus(j, s).status = s
         /\ ~Sealed(j) /\ j.cancelling =>
              setStatus(j, s).status = IF s \in {"completed", "cancelled"} THEN "cancelled" ELSE j.status
<1>0. OnlyStatus(j, j) /\ \A x : OnlyStatus(j, [j EXCEPT !.status = x]) /\ [j EXCEPT !.status = x].status = x
  BY DEF OnlyStatus, CodexFields
<1>1. CASE Sealed(j)
  BY <1>0, <1>1 DEF setStatus
<1>2. CASE ~Sealed(j) /\ ~j.cancelling
  <2>1. setStatus(j, s) = [j EXCEPT !.status = s]
    BY <1>2 DEF setStatus
  <2> QED BY <1>0, <1>2, <2>1
<1>3. CASE ~Sealed(j) /\ j.cancelling
  <2>1. setStatus(j, s) = IF s \in {"completed", "cancelled"} THEN [j EXCEPT !.status = "cancelled"] ELSE j
    BY <1>3 DEF setStatus
  <2>2. CASE s \in {"completed", "cancelled"}
    <3>1. setStatus(j, s) = [j EXCEPT !.status = "cancelled"]
      BY <2>1, <2>2
    <3> QED BY <1>0, <1>3, <2>2, <3>1
  <2>3. CASE s \notin {"completed", "cancelled"}
    <3>1. setStatus(j, s) = j
      BY <2>1, <2>3
    <3> QED BY <1>0, <1>3, <2>3, <3>1
  <2> QED BY <2>2, <2>3
<1> QED BY <1>1, <1>2, <1>3

LEMMA JobFails ==
  ASSUME NEW j, DOMAIN j = CodexFields
  PROVE  /\ OnlyStatus(j, fail(j))
         /\ Sealed(j) => fail(j) = j
         /\ ~Sealed(j) => fail(j).status = "failed"
BY DEF OnlyStatus, CodexFields, fail

\* What a step that reads no message leaves of the messages' scopes and order.
LEMMA ScopesKept ==
  ASSUME Scoped, UNCHANGED inbox, codex'.child = codex.child, codex'.reported = codex.reported,
         codex'.stray = codex.stray, codex'.status \in Active => codex.status \in Active,
         native'.state = native.state, native'.turn = native.turn, native'.owed = native.owed,
         native'.alive = native.alive
  PROVE  Scoped'
<1> SUFFICES ASSUME Listens' PROVE Scoped'
  BY DEF Scoped
<1>1. Listens
  BY DEF Listens
<1>2. Known' = Known
  BY DEF Known
<1>3. \A c, i : HeardOf(c, i)' <=> HeardOf(c, i)
  BY <1>2 DEF HeardOf, IsFrom
<1>4. \A c, n, i : OpenAt(c, n, i)' <=> OpenAt(c, n, i)
  BY DEF OpenAt, Starts, EndsTurn, IsFrom
<1>5. \A i \in 1..Len(inbox) : MessageScoped(i)'
  BY <1>1, <1>3, <1>4 DEF Scoped, MessageScoped, Starts, IsFrom
<1>6. \A c \in SubThread : ThreadScoped(c)'
  <2> SUFFICES ASSUME NEW c \in SubThread PROVE ThreadScoped(c)'
    OBVIOUS
  <2>1. ThreadScoped(c)
    BY <1>1 DEF Scoped
  <2>2. PICK k : k = Len(inbox) + 1
    OBVIOUS
  <2>3. /\ HeardOf(c, k)' <=> HeardOf(c, k)
        /\ \A n : OpenAt(c, n, k)' <=> OpenAt(c, n, k)
    BY <1>3, <1>4
  <2> QED BY <2>1, <2>2, <2>3 DEF ThreadScoped, End, Starts, IsFrom
<1> QED BY <1>1, <1>5, <1>6 DEF Scoped

LEMMA OrderKept ==
  ASSUME InOrder, UNCHANGED inbox, codex'.child = codex.child,
         codex'.rootOutcome = codex.rootOutcome \/ codex'.cancelRequested,
         codex.cancelRequested => codex'.cancelRequested,
         codex'.status \in Active => codex.status \in Active, seen'.resumed = seen.resumed,
         native'.state = native.state, native'.owed = native.owed,
         native'.closing = native.closing, native'.alive = native.alive
  PROVE  InOrder'
<1> SUFFICES ASSUME Listens', ~codex'.cancelRequested, seen'.resumed = {} PROVE InOrder'
  BY DEF InOrder
<1>1. Listens /\ ~codex.cancelRequested /\ codex'.rootOutcome = codex.rootOutcome
  BY DEF Listens
<1>2. Known' = Known
  BY DEF Known
<1>3. \A t : Unended(t)' <=> Unended(t)
  BY <1>1, <1>2 DEF Unended, active
<1>4. \A i, t : EndMark(i, t)' <=> EndMark(i, t)
  BY DEF EndMark, IsFrom
<1>5. \A t : Untold(t)' <=> Untold(t)
  BY <1>3, <1>4 DEF Untold
<1>6. \A c : HasParent(c) => HasParent(c)'
  BY <1>2 DEF HasParent, SpawnedBy, IsFrom
<1>7. \A o \in native'.owed : OwedInOrder(o)'
  BY <1>1, <1>3, <1>4 DEF InOrder, OwedInOrder
<1>8. \A i \in 1..Len(inbox) : MessageInOrder(i)'
  BY <1>1, <1>3, <1>4 DEF InOrder, MessageInOrder
<1>9. \A c \in SubThread : ThreadInOrder(c)'
  BY <1>1, <1>2, <1>5, <1>6 DEF InOrder, ThreadInOrder, IsFrom
<1>10. native'.state[Root] = "running" => Untold(Root)'
  BY <1>1, <1>5 DEF InOrder
<1> QED BY <1>7, <1>8, <1>9, <1>10 DEF InOrder

LEMMA QuietKept ==
  ASSUME CompletesQuiet, codex'.status = "completed" => codex.status = "completed",
         seen'.resumed = seen.resumed, native'.state = native.state,
         native'.closing = native.closing, native'.alive = native.alive
  PROVE  CompletesQuiet'
BY DEF CompletesQuiet

\* What the answers to calls change of the app-server.
Calmed ==
  /\ DOMAIN native' = NativeFields /\ native'.state = native.state /\ native'.turn = native.turn
  /\ native'.owed = native.owed /\ native'.closing = native.closing /\ native'.alive = native.alive
LEMMA CalmAnswer ==
  ASSUME CodexType, NEW k \in CodexCall, native' = Answered(k)
  PROVE  /\ Calmed /\ native'.interrupted = native.interrupted
         /\ DOMAIN native'.call = CodexCall
         /\ \A l \in CodexCall : /\ DOMAIN native'.call[l] = {"by", "answers"}
                                 /\ l # k => native'.call[l] = native.call[l]
         /\ native'.call[k].answers = native.call[k].answers + 1
BY DEF CodexType, Answered, Calmed, NativeFields
LEMMA CalmSame ==
  ASSUME CodexType, UNCHANGED native
  PROVE  /\ Calmed /\ native'.interrupted = native.interrupted
         /\ DOMAIN native'.call = CodexCall
         /\ \A l \in CodexCall : /\ DOMAIN native'.call[l] = {"by", "answers"}
                                 /\ native'.call[l] = native.call[l]
BY DEF CodexType, Calmed

\* An operation that reads nothing: what it must do for each part of the invariant.
LEMMA Operates ==
  ASSUME CodexInv, UNCHANGED inbox, Calmed,
         DOMAIN native'.call = CodexCall,
         \A l \in CodexCall : DOMAIN native'.call[l] = {"by", "answers"},
         DOMAIN codex' = CodexFields, codex'.status \in Terminal \cup Active,
         codex'.child = codex.child, codex'.reported = codex.reported, codex'.stray = codex.stray,
         codex'.rootOutcome = codex.rootOutcome \/ codex'.cancelRequested,
         codex.cancelRequested => codex'.cancelRequested,
         codex'.status \in Active => codex.status \in Active,
         codex'.status = "completed" => codex.status = "completed",
         DOMAIN code' = CodexCall,
         DOMAIN seen' = DOMAIN seen, seen'.resumed = seen.resumed
  PROVE  CodexType' /\ InboxType' /\ Scoped' /\ InOrder' /\ CompletesQuiet'
<1>1. CodexType'
  BY DEF CodexInv, CodexType, Calmed
<1>2. InboxType'
  BY DEF CodexInv, InboxType
<1>3. Scoped'
  BY ScopesKept DEF CodexInv, Calmed
<1>4. InOrder'
  BY OrderKept DEF CodexInv, Calmed
<1>5. CompletesQuiet'
  BY QuietKept DEF CodexInv, Calmed
<1> QED BY <1>1, <1>2, <1>3, <1>4, <1>5

\* The places of the calls, when the answers and the operations move one call.
LEMMA PlacesMove ==
  ASSUME Places, UNCHANGED inbox, NEW k \in CodexCall,
         \A l \in CodexCall : l # k =>
           /\ native'.call[l] = native.call[l] /\ (l \in codex'.tools => l \in codex.tools)
           /\ code'[l] = code[l],
         native'.call[k].answers \in {0, 1}, Calling(k) = {},
         k \in codex'.tools \/ Coded(k)' => native'.call[k].answers = 0 /\ native'.call[k].by \in Thread,
         k \in codex'.tools => ~Coded(k)'
  PROVE  Places'
<1>1. \A l : Calling(l)' = Calling(l)
  BY DEF Calling
<1>2. \A l \in CodexCall : l # k => (Coded(l)' <=> Coded(l))
  BY DEF Coded
<1>3. ASSUME NEW l \in CodexCall
      PROVE  /\ native'.call[l].answers \in {0, 1}
             /\ Calling(l)' # {} \/ l \in codex'.tools \/ Coded(l)' =>
                  native'.call[l].answers = 0 /\ native'.call[l].by \in Thread
             /\ Calling(l)' # {} => l \notin codex'.tools /\ ~Coded(l)'
             /\ l \in codex'.tools => ~Coded(l)'
             /\ \A i, j \in Calling(l)' : i = j
  <2>1. CASE l = k
    BY <1>1, <2>1 DEF Places
  <2>2. CASE l # k
    BY <1>1, <1>2, <2>2 DEF Places
  <2> QED BY <2>1, <2>2
<1> QED BY <1>3 DEF Places

LEMMA PlacesSame ==
  ASSUME Places, UNCHANGED inbox, codex'.tools = codex.tools,
         \A l \in CodexCall : native'.call[l] = native.call[l] /\ (Coded(l)' <=> Coded(l))
  PROVE  Places'
<1>1. \A l : Calling(l)' = Calling(l)
  BY DEF Calling
<1> QED BY <1>1 DEF Places

LEMMA CodeToolStep ==
  ASSUME CodexInv, NEW k \in CodexCall, codeTool(k) PROVE CodexInv'
<1> DEFINE j == [codex EXCEPT !.code = @ \cup {k}]
<1>0. CodexType /\ Cancels /\ Places /\ AwaitsResults
  BY DEF CodexInv
<1>1. /\ code[k] = "code" /\ ~codex.closing /\ code' = [code EXCEPT ![k] = "waits"]
      /\ codex' = setStatus(j, "waiting") /\ UNCHANGED <<native, inbox, rpc, control, seen>>
  BY DEF codeTool
<1>2. /\ DOMAIN j = CodexFields /\ j.status = codex.status /\ j.closing = codex.closing
      /\ j.cancelling = codex.cancelling /\ j.cancelRequested = codex.cancelRequested
      /\ j.rootOutcome = codex.rootOutcome /\ j.tools = codex.tools
      /\ j.code = codex.code \cup {k} /\ j.child = codex.child /\ j.stray = codex.stray
      /\ j.reported = codex.reported
  BY <1>0 DEF CodexType, CodexFields
<1> HIDE DEF j
<1>3. /\ OnlyStatus(j, codex')
      /\ codex.status \in Terminal => codex'.status = codex.status
      /\ codex.status \in Active /\ ~codex.cancelling => codex'.status = "waiting"
      /\ codex.status \in Active /\ codex.cancelling => codex'.status = codex.status
  BY <1>0, <1>1, <1>2, StatusSet DEF Sealed, settled, CodexType, Terminal, Active
<1>4. CodexType' /\ InboxType' /\ Scoped' /\ InOrder' /\ CompletesQuiet'
  <2>1. DOMAIN code' = CodexCall
    BY <1>0, <1>1 DEF CodexType
  <2>2. codex'.status \in Terminal \cup Active
    BY <1>0, <1>3 DEF CodexType, Active
  <2>3. /\ codex'.status \in Active => codex.status \in Active
        /\ codex'.status = "completed" => codex.status = "completed"
    BY <1>0, <1>3 DEF CodexType, Active, Terminal
  <2> QED BY <1>0, <1>1, <1>2, <1>3, <2>1, <2>2, <2>3, CalmSame, Operates DEF OnlyStatus
<1>5. Cancels'
  BY <1>0, <1>1, <1>2, <1>3 DEF Cancels, OnlyStatus, CodexType, Terminal, Active
<1>6. AwaitsResults'
  BY <1>0, <1>1, <1>2, <1>3 DEF AwaitsResults, OnlyStatus, CodexType, Terminal, Active
<1>7. Places'
  <2>1. \A l \in CodexCall : Coded(l)' <=> Coded(l)
    BY <1>0, <1>1 DEF Coded, CodexType
  <2> QED BY <1>0, <1>1, <1>2, <1>3, <2>1, PlacesSame DEF OnlyStatus
<1> QED BY <1>4, <1>5, <1>6, <1>7 DEF CodexInv

\* What a call that is answered outside receive was.
LEMMA AnswersCall ==
  ASSUME CodexInv, NEW k \in CodexCall, Coded(k), code' = [code EXCEPT ![k] = "done"],
         native' = native \/ native' = Answered(k), UNCHANGED <<inbox, seen>>,
         codex'.tools = codex.tools
  PROVE  /\ Places' /\ Calmed /\ native'.interrupted = native.interrupted
         /\ DOMAIN native'.call = CodexCall /\ DOMAIN code' = CodexCall
         /\ \A l \in CodexCall : DOMAIN native'.call[l] = {"by", "answers"}
<1>0. CodexType /\ Places
  BY DEF CodexInv
<1>1. /\ native.call[k].answers = 0 /\ k \notin codex.tools /\ Calling(k) = {}
  BY <1>0 DEF Places
<1>2. /\ Calmed /\ native'.interrupted = native.interrupted
      /\ DOMAIN native'.call = CodexCall
      /\ \A l \in CodexCall : /\ DOMAIN native'.call[l] = {"by", "answers"}
                              /\ l # k => native'.call[l] = native.call[l]
      /\ native'.call[k].answers \in {native.call[k].answers, native.call[k].answers + 1}
  <2>1. CASE native' = native
    BY <1>0, <2>1, CalmSame
  <2>2. CASE native' = Answered(k)
    BY <1>0, <2>2, CalmAnswer
  <2> QED BY <2>1, <2>2
<1>3. DOMAIN code' = CodexCall /\ \A l \in CodexCall : l # k => code'[l] = code[l]
  BY <1>0 DEF CodexType
<1>4. ~Coded(k)'
  BY <1>0 DEF Coded, CodexType
<1>5. Places'
  BY <1>0, <1>1, <1>2, <1>3, <1>4, PlacesMove
<1> QED BY <1>2, <1>3, <1>5

LEMMA RespondStep ==
  ASSUME CodexInv, NEW k \in CodexCall, NEW e, NEW u, respondCode(k, e, u) PROVE CodexInv'
<1>0. CodexType /\ Cancels /\ AwaitsResults
  BY DEF CodexInv
<1>1. /\ code[k] \in {"code", "waits"} /\ code' = [code EXCEPT ![k] = "done"]
      /\ native' = native \/ native' = Answered(k)
      /\ codex' = codex \/ codex' = fail(codex)
      /\ UNCHANGED <<inbox, rpc, control, seen>>
  BY DEF respondCode
<1>2. /\ OnlyStatus(codex, codex') /\ codex'.status \in {codex.status, "failed"}
      /\ codex.status \in Terminal => codex'.status = codex.status
  <2>1. CASE codex' = codex
    BY <1>0, <2>1 DEF OnlyStatus, CodexType
  <2>2. CASE codex' = fail(codex)
    BY <1>0, <2>2, JobFails DEF CodexType, Sealed, settled
  <2> QED BY <1>1, <2>1, <2>2
<1>3. /\ Places' /\ Calmed /\ native'.interrupted = native.interrupted
      /\ DOMAIN native'.call = CodexCall /\ DOMAIN code' = CodexCall
      /\ \A l \in CodexCall : DOMAIN native'.call[l] = {"by", "answers"}
  <2>1. Coded(k) /\ codex'.tools = codex.tools
    BY <1>1, <1>2 DEF Coded, OnlyStatus
  <2> QED BY <1>1, <2>1, AnswersCall
<1>4. CodexType' /\ InboxType' /\ Scoped' /\ InOrder' /\ CompletesQuiet'
  <2>1. /\ codex'.status \in Terminal \cup Active
        /\ codex'.status \in Active => codex.status \in Active
        /\ codex'.status = "completed" => codex.status = "completed"
    BY <1>0, <1>2 DEF CodexType, Active, Terminal
  <2> QED BY <1>1, <1>2, <1>3, <2>1, Operates DEF OnlyStatus
<1>5. Cancels'
  BY <1>0, <1>1, <1>2, <1>3 DEF Cancels, OnlyStatus, CodexType, Terminal, Active
<1>6. AwaitsResults'
  BY <1>0, <1>1, <1>2 DEF AwaitsResults, OnlyStatus, CodexType, Terminal, Active
<1> QED BY <1>3, <1>4, <1>5, <1>6 DEF CodexInv

LEMMA DelegatedStep ==
  ASSUME CodexInv, NEW k \in CodexCall, delegated(k) PROVE CodexInv'
<1>0. CodexType /\ Cancels /\ AwaitsResults
  BY DEF CodexInv
<1>1. /\ code[k] = "delegate" /\ code' = [code EXCEPT ![k] = "done"]
      /\ native' = native \/ native' = Answered(k)
      /\ UNCHANGED <<codex, inbox, rpc, control, seen>>
  BY DEF delegated
<1>3. /\ Places' /\ Calmed /\ native'.interrupted = native.interrupted
      /\ DOMAIN native'.call = CodexCall /\ DOMAIN code' = CodexCall
      /\ \A l \in CodexCall : DOMAIN native'.call[l] = {"by", "answers"}
  <2>1. Coded(k) /\ codex'.tools = codex.tools
    BY <1>1 DEF Coded
  <2> QED BY <1>1, <2>1, AnswersCall
<1>4. CodexType' /\ InboxType' /\ Scoped' /\ InOrder' /\ CompletesQuiet'
  BY <1>0, <1>1, <1>3, Operates DEF CodexType
<1>5. Cancels' /\ AwaitsResults'
  BY <1>0, <1>1, <1>3 DEF Cancels, AwaitsResults
<1> QED BY <1>3, <1>4, <1>5 DEF CodexInv

\* settleWaiting, after a result was taken from what the job waits for.
LEMMA Settled ==
  ASSUME CodexType, ~codex.closing, codex.status \in Active, NEW j,
         DOMAIN j = CodexFields, j.status = codex.status, j.closing = codex.closing,
         j.cancelling = codex.cancelling, codex' = settleWaiting(j)
  PROVE  /\ OnlyStatus(j, codex') /\ codex'.status \in Active
         /\ ~j.cancelling => (codex'.status = "waiting" <=> j.tools \cup j.code # {})
<1> DEFINE s == IF j.tools # {} \/ j.code # {} THEN "waiting" ELSE "running"
<1>1. codex' = setStatus(j, s)
  BY DEF settleWaiting
<1>2. ~Sealed(j) /\ s \in Active /\ s \notin {"completed", "cancelled"}
      /\ (s = "waiting" <=> j.tools \cup j.code # {})
  BY DEF Sealed, settled, Active, Terminal
<1> HIDE DEF s
<1>3. /\ OnlyStatus(j, codex')
      /\ ~j.cancelling => codex'.status = s
      /\ j.cancelling => codex'.status = j.status
  BY <1>1, <1>2, StatusSet
<1> QED BY <1>2, <1>3

LEMMA ApplyToolStep ==
  ASSUME CodexInv, NEW k \in CodexCall, applyTool(k) PROVE CodexInv'
<1> DEFINE j == [codex EXCEPT !.tools = @ \ {k}]
<1>0. CodexType /\ Cancels /\ Places
  BY DEF CodexInv
<1>1. /\ k \in codex.tools /\ ~codex.closing /\ codex.status \in Active
      /\ native' = native \/ native' = Answered(k)
      /\ codex' = settleWaiting(j) /\ UNCHANGED <<inbox, rpc, control, code, seen>>
  BY DEF applyTool, Listening
<1>2. /\ DOMAIN j = CodexFields /\ j.status = codex.status /\ j.closing = codex.closing
      /\ j.cancelling = codex.cancelling /\ j.cancelRequested = codex.cancelRequested
      /\ j.rootOutcome = codex.rootOutcome /\ j.tools = codex.tools \ {k}
      /\ j.code = codex.code /\ j.child = codex.child /\ j.stray = codex.stray
      /\ j.reported = codex.reported
  BY <1>0 DEF CodexType, CodexFields
<1> HIDE DEF j
<1>3. /\ OnlyStatus(j, codex') /\ codex'.status \in Active
      /\ ~j.cancelling => (codex'.status = "waiting" <=> j.tools \cup j.code # {})
  BY <1>0, <1>1, <1>2, Settled
<1>c. /\ Calmed /\ native'.interrupted = native.interrupted
      /\ DOMAIN native'.call = CodexCall
      /\ \A l \in CodexCall : /\ DOMAIN native'.call[l] = {"by", "answers"}
                              /\ l # k => native'.call[l] = native.call[l]
      /\ native'.call[k].answers \in {native.call[k].answers, native.call[k].answers + 1}
  <2>1. CASE native' = native
    BY <1>0, <2>1, CalmSame
  <2>2. CASE native' = Answered(k)
    BY <1>0, <2>2, CalmAnswer
  <2> QED BY <1>1, <2>1, <2>2
<1>4. CodexType' /\ InboxType' /\ Scoped' /\ InOrder' /\ CompletesQuiet'
  <2>1. DOMAIN code' = CodexCall /\ codex'.status # "completed"
    BY <1>0, <1>1, <1>3 DEF CodexType, Active
  <2> QED BY <1>0, <1>1, <1>2, <1>3, <1>c, <2>1, Operates DEF OnlyStatus
<1>5. Cancels'
  BY <1>0, <1>1, <1>2, <1>3, <1>c DEF Cancels, OnlyStatus, Active
<1>6. AwaitsResults'
  BY <1>2, <1>3 DEF AwaitsResults, OnlyStatus
<1>7. Places'
  <2>1. native.call[k].answers = 0 /\ Calling(k) = {} /\ ~Coded(k)
    BY <1>0, <1>1 DEF Places
  <2>2. k \notin codex'.tools /\ ~Coded(k)' /\ codex'.tools = codex.tools \ {k}
    BY <1>1, <1>2, <1>3, <2>1 DEF OnlyStatus, Coded
  <2> QED BY <1>0, <1>1, <1>c, <2>1, <2>2, PlacesMove
<1> QED BY <1>4, <1>5, <1>6, <1>7 DEF CodexInv

LEMMA AnswerCodeStep ==
  ASSUME CodexInv, NEW k \in CodexCall, answerCode(k) PROVE CodexInv'
<1> DEFINE j == [codex EXCEPT !.code = @ \ {k}]
<1>0. CodexType /\ Cancels /\ Places
  BY DEF CodexInv
<1>1. /\ ~codex.closing /\ codex.status \in Active
      /\ code' = [code EXCEPT ![k] = IF @ = "waits" THEN "code" ELSE @]
      /\ codex' = settleWaiting(j) /\ UNCHANGED <<native, inbox, rpc, control, seen>>
  BY DEF answerCode, Listening
<1>2. /\ DOMAIN j = CodexFields /\ j.status = codex.status /\ j.closing = codex.closing
      /\ j.cancelling = codex.cancelling /\ j.cancelRequested = codex.cancelRequested
      /\ j.rootOutcome = codex.rootOutcome /\ j.tools = codex.tools
      /\ j.child = codex.child /\ j.stray = codex.stray
      /\ j.reported = codex.reported
  BY <1>0 DEF CodexType, CodexFields
<1> HIDE DEF j
<1>3. /\ OnlyStatus(j, codex') /\ codex'.status \in Active
      /\ ~j.cancelling => (codex'.status = "waiting" <=> j.tools \cup j.code # {})
  BY <1>0, <1>1, <1>2, Settled
<1>4. CodexType' /\ InboxType' /\ Scoped' /\ InOrder' /\ CompletesQuiet'
  <2>1. DOMAIN code' = CodexCall /\ codex'.status # "completed"
    BY <1>0, <1>1, <1>3 DEF CodexType, Active
  <2> QED BY <1>0, <1>1, <1>2, <1>3, <2>1, CalmSame, Operates DEF OnlyStatus
<1>5. Cancels'
  BY <1>0, <1>1, <1>2, <1>3 DEF Cancels, OnlyStatus, Active
<1>6. AwaitsResults'
  BY <1>2, <1>3 DEF AwaitsResults, OnlyStatus
<1>7. Places'
  <2>1. \A l \in CodexCall : Coded(l)' <=> Coded(l)
    BY <1>0, <1>1 DEF Coded, CodexType
  <2> QED BY <1>0, <1>1, <1>2, <1>3, <2>1, PlacesSame DEF OnlyStatus
<1> QED BY <1>4, <1>5, <1>6, <1>7 DEF CodexInv

LEMMA SteerStep == ASSUME CodexInv, steerTurn PROVE CodexInv'
<1>0. CodexType /\ Cancels /\ Places /\ AwaitsResults
  BY DEF CodexInv
<1>1. /\ UNCHANGED <<native, inbox, codex, code, seen>> /\ control = "free"
      /\ control' = "steer" /\ rpc' = rpc \cup {[thread |-> Root, waits |-> TRUE]}
  BY DEF steerTurn, Listening
<1>2. CodexType' /\ InboxType' /\ Scoped' /\ InOrder' /\ CompletesQuiet'
  BY <1>0, <1>1, CalmSame, Operates DEF CodexType
<1>3. Cancels'
  BY <1>0, <1>1 DEF Cancels
<1>4. Places' /\ AwaitsResults'
  BY <1>0, <1>1, PlacesSame DEF AwaitsResults, Coded
<1> QED BY <1>2, <1>3, <1>4 DEF CodexInv

LEMMA CancelStep == ASSUME CodexInv, cancelTurn PROVE CodexInv'
<1>0. CodexType /\ Cancels /\ Places
  BY DEF CodexInv
<1>1. /\ UNCHANGED <<native, inbox, rpc, code, seen>> /\ codex.status \in Active
      /\ control' = "abort"
      /\ DOMAIN codex' = CodexFields /\ codex'.status = codex.status /\ codex'.closing = codex.closing
      /\ codex'.cancelling /\ codex'.cancelRequested
      /\ codex'.tools = codex.tools /\ codex'.code = codex.code /\ codex'.child = codex.child
      /\ codex'.stray = codex.stray /\ codex'.reported = codex.reported
  BY <1>0 DEF cancelTurn, CodexType, CodexFields
<1>2. CodexType' /\ InboxType' /\ Scoped' /\ InOrder' /\ CompletesQuiet'
  BY <1>0, <1>1, CalmSame, Operates DEF CodexType
<1>3. Cancels' /\ AwaitsResults'
  BY <1>0, <1>1 DEF Cancels, AwaitsResults, Active
<1>4. Places'
  BY <1>0, <1>1, PlacesSame DEF Coded
<1> QED BY <1>2, <1>3, <1>4 DEF CodexInv

LEMMA CancelRootStep == ASSUME CodexInv, cancelRoot PROVE CodexInv'
<1>0. CodexType /\ Cancels /\ Places
  BY DEF CodexInv
<1>1. /\ UNCHANGED <<native, inbox, seen>> /\ codex.cancelRequested
      /\ code' = [k \in CodexCall |-> IF code[k] = "waits" THEN "code" ELSE code[k]]
      /\ DOMAIN codex' = CodexFields /\ codex'.status = codex.status /\ codex'.closing = codex.closing
      /\ codex'.cancelling = codex.cancelling /\ codex'.cancelRequested = codex.cancelRequested
      /\ codex'.tools = codex.tools /\ codex'.child = codex.child
      /\ codex'.stray = codex.stray /\ codex'.reported = codex.reported
  BY <1>0 DEF cancelRoot, CodexType, CodexFields, Cancels
<1>2. CodexType' /\ InboxType' /\ Scoped' /\ InOrder' /\ CompletesQuiet'
  BY <1>0, <1>1, CalmSame, Operates DEF CodexType
<1>3. Cancels' /\ AwaitsResults'
  BY <1>0, <1>1 DEF Cancels, AwaitsResults
<1>4. Places'
  BY <1>0, <1>1, PlacesSame DEF Coded
<1> QED BY <1>2, <1>3, <1>4 DEF CodexInv

LEMMA CancelChildStep == ASSUME CodexInv, NEW c \in SubThread, cancelChild(c) PROVE CodexInv'
<1>0. CodexType /\ Cancels /\ Places /\ AwaitsResults
  BY DEF CodexInv
<1>1. /\ UNCHANGED <<native, inbox, codex, code>> /\ codex.cancelRequested
      /\ DOMAIN seen' = DOMAIN seen /\ seen'.resumed = seen.resumed
  BY <1>0 DEF cancelChild, CodexType, Cancels
<1>2. CodexType' /\ InboxType' /\ Scoped' /\ InOrder' /\ CompletesQuiet'
  BY <1>0, <1>1, CalmSame, Operates DEF CodexType
<1>3. Cancels' /\ AwaitsResults'
  BY <1>0, <1>1 DEF Cancels, AwaitsResults
<1>4. Places'
  BY <1>0, <1>1, PlacesSame DEF Coded
<1> QED BY <1>2, <1>3, <1>4 DEF CodexInv

\* finishIfReady: the outcome of the root, when no subagent runs.
LEMMA Finishes ==
  ASSUME NEW j, DOMAIN j = CodexFields
  PROVE  /\ OnlyStatus(j, finishIfReady(j))
         /\ Sealed(j) => finishIfReady(j) = j
         /\ ~Sealed(j) /\ j.cancelling => finishIfReady(j).status \in {j.status, "cancelled"}
         /\ ~Sealed(j) /\ ~j.cancelling =>
              \/ finishIfReady(j).status = j.status
              \/ /\ j.rootOutcome # {} /\ active(j) = {}
                 /\ finishIfReady(j).status = CHOOSE o \in j.rootOutcome : TRUE
<1>0. OnlyStatus(j, j)
  BY DEF OnlyStatus
<1>1. CASE j.rootOutcome # {} /\ active(j) = {}
  <2>1. finishIfReady(j) = setStatus(j, CHOOSE o \in j.rootOutcome : TRUE)
    BY <1>1 DEF finishIfReady
  <2> QED BY <1>1, <2>1, StatusSet
<1>2. CASE ~(j.rootOutcome # {} /\ active(j) = {})
  <2>1. finishIfReady(j) = j
    BY <1>2 DEF finishIfReady
  <2> QED BY <1>0, <2>1
<1> QED BY <1>1, <1>2

LEMMA CancelDoneStep == ASSUME CodexInv, cancelDone PROVE CodexInv'
<1>0. CodexType /\ Cancels /\ Places /\ AwaitsResults
  BY DEF CodexInv
<1>1. /\ UNCHANGED <<native, inbox, rpc, code>> /\ codex.cancelRequested /\ codex.cancelling
      /\ codex' = finishIfReady(codex)
      /\ DOMAIN seen' = DOMAIN seen /\ seen'.resumed = seen.resumed
  BY <1>0 DEF cancelDone, CodexType, Cancels
<1>2. /\ OnlyStatus(codex, codex') /\ codex'.status \in {codex.status, "cancelled"}
      /\ codex.status \in Terminal => codex'.status = codex.status
  BY <1>0, <1>1, Finishes DEF CodexType, Sealed, settled
<1>3. CodexType' /\ InboxType' /\ Scoped' /\ InOrder' /\ CompletesQuiet'
  <2>1. /\ codex'.status \in Terminal \cup Active
        /\ codex'.status \in Active => codex.status \in Active
        /\ codex'.status = "completed" => codex.status = "completed"
    BY <1>0, <1>2 DEF CodexType, Active, Terminal
  <2> QED BY <1>0, <1>1, <1>2, <2>1, CalmSame, Operates DEF CodexType, OnlyStatus
<1>4. Cancels' /\ AwaitsResults'
  BY <1>0, <1>1, <1>2 DEF Cancels, AwaitsResults, OnlyStatus, Terminal
<1>5. Places'
  BY <1>0, <1>1, <1>2, PlacesSame DEF Coded, OnlyStatus
<1> QED BY <1>3, <1>4, <1>5 DEF CodexInv

LEMMA AnswerStep == ASSUME CodexInv, NEW r, answers(r) PROVE CodexInv'
<1>0. CodexType /\ Cancels /\ Places /\ AwaitsResults
  BY DEF CodexInv
<1>1. /\ UNCHANGED <<inbox, codex, code, seen>> /\ r \in rpc /\ rpc' = rpc \ {r}
      /\ control' = CASE ~r.waits -> control [] control = "steer" -> "free" [] OTHER -> "children"
  BY DEF answers
<1>2. /\ Calmed /\ native'.call = native.call
      /\ native' = native \/ ~(r.waits /\ control = "steer")
  BY <1>0 DEF answers, CodexType, Calmed, NativeFields
<1>3. CodexType' /\ InboxType' /\ Scoped' /\ InOrder' /\ CompletesQuiet'
  BY <1>0, <1>1, <1>2, Operates DEF CodexType
<1>4. Cancels'
  <2>1. CASE codex.cancelRequested
    <3>1. UNCHANGED codex
      BY <1>1
    <3> QED BY <1>0, <2>1, <3>1 DEF Cancels
  <2>2. CASE ~codex.cancelRequested
    <3>0. r \in rpc
      BY <1>1
    <3>1. r.waits /\ control = "steer" /\ \A q \in rpc : q = r
      <4>1. \A q \in rpc : control = "steer" /\ q = [thread |-> Root, waits |-> TRUE]
        BY <1>0, <2>2 DEF Cancels
      <4>2. control = "steer" /\ r = [thread |-> Root, waits |-> TRUE] /\ \A q \in rpc : q = r
        BY <3>0, <4>1, Zenon
      <4>3. r.waits
        BY <4>2
      <4> QED BY <4>2, <4>3
    <3>2. native' = native /\ control' = "free" /\ rpc' = {}
      BY <1>1, <1>2, <3>1
    <3> QED BY <1>0, <1>1, <2>2, <3>2 DEF Cancels
  <2> QED BY <2>1, <2>2
<1>5. Places' /\ AwaitsResults'
  BY <1>0, <1>1, <1>2, PlacesSame DEF AwaitsResults, Coded
<1> QED BY <1>3, <1>4, <1>5 DEF CodexInv

\* The process is gone, and with it everything that was under way.
LEMMA DeadIs ==
  ASSUME CodexType, native' = Dead
  PROVE  /\ DOMAIN native' = NativeFields /\ ~native'.alive
         /\ native'.state = [t \in Thread |-> "none"] /\ native'.turn = native.turn
         /\ native'.owed = {} /\ native'.closing = {} /\ native'.interrupted = {}
         /\ native'.call = native.call
BY DEF CodexType, Dead, NativeFields

LEMMA GoneStep ==
  ASSUME CodexInv, native' = Dead, inbox' = <<>>, rpc' = {}, UNCHANGED <<code, seen>>,
         control' = control \/ control' = "free",
         DOMAIN codex' = CodexFields, codex'.status \in Terminal,
         codex'.status = "completed" => codex.status = "completed",
         codex'.cancelRequested <=> codex.cancelRequested, codex'.cancelling <=> codex.cancelling,
         codex'.tools = codex.tools, codex'.child = codex.child, codex'.stray = codex.stray,
         codex'.reported = codex.reported
  PROVE  CodexInv'
<1>0. CodexType /\ Cancels /\ Places
  BY DEF CodexInv
<1>1. /\ DOMAIN native' = NativeFields /\ ~native'.alive
      /\ native'.state = [t \in Thread |-> "none"] /\ native'.turn = native.turn
      /\ native'.owed = {} /\ native'.closing = {} /\ native'.interrupted = {}
      /\ native'.call = native.call
  BY <1>0, DeadIs
<1>2. CodexType'
  BY <1>0, <1>1 DEF CodexType
<1>3. InboxType'
  <2>1. inbox' \in Seq({}) /\ Len(inbox') = 0
    OBVIOUS
  <2> QED BY <2>1 DEF InboxType
<1>4. Cancels'
  BY <1>0, <1>1 DEF Cancels
<1>5. AwaitsResults'
  BY DEF AwaitsResults, Active, Terminal
<1>6. Places'
  <2>1. \A k : Calling(k)' = {}
    BY DEF Calling
  <2>2. \A k : Coded(k)' <=> Coded(k)
    BY DEF Coded
  <2> QED BY <1>0, <1>1, <2>1, <2>2 DEF Places
<1>7. Scoped' /\ InOrder' /\ CompletesQuiet'
  BY <1>1 DEF CodexInv, Scoped, InOrder, CompletesQuiet, Listens
<1> QED BY <1>2, <1>3, <1>4, <1>5, <1>6, <1>7 DEF CodexInv

LEMMA ExitStep == ASSUME CodexInv, exited PROVE CodexInv'
<1>0. CodexType /\ Cancels
  BY DEF CodexInv
<1>1. /\ native' = Dead /\ codex' = fail(codex) /\ inbox' = <<>> /\ rpc' = {} /\ control' = "free"
      /\ UNCHANGED <<code, seen>>
  BY DEF exited
<1>2. /\ OnlyStatus(codex, codex') /\ codex'.status \in Terminal
      /\ codex'.status = "completed" => codex.status = "completed"
  BY <1>0, <1>1, JobFails DEF CodexType, Cancels, Sealed, settled, Terminal
<1> QED BY <1>1, <1>2, GoneStep DEF OnlyStatus

LEMMA StopStep == ASSUME CodexInv, stop PROVE CodexInv'
<1>0. CodexType
  BY DEF CodexInv
<1>1. /\ native' = Dead /\ inbox' = <<>> /\ rpc' = {} /\ UNCHANGED <<control, code, seen>>
      /\ codex' = [close(codex) EXCEPT !.code = {}]
  BY DEF stop
<1>2. /\ DOMAIN codex' = CodexFields
      /\ codex'.status = IF settled(codex) THEN codex.status ELSE "cancelled"
      /\ codex'.cancelRequested = codex.cancelRequested /\ codex'.cancelling = codex.cancelling
      /\ codex'.tools = codex.tools /\ codex'.child = codex.child /\ codex'.stray = codex.stray
      /\ codex'.reported = codex.reported
  BY <1>0, <1>1 DEF CodexType, CodexFields, close
<1>3. codex'.status \in Terminal /\ (codex'.status = "completed" => codex.status = "completed")
  BY <1>2 DEF settled, Terminal
<1> QED BY <1>1, <1>2, <1>3, GoneStep

-----------------------------------------------------------------------------
\* The order without the conditions under which it holds.
Ordered ==
  /\ \A o \in native.owed : OwedInOrder(o)
  /\ \A i \in 1..Len(inbox) : MessageInOrder(i)
  /\ \A c \in SubThread : ThreadInOrder(c)
  /\ native.state[Root] = "running" => Untold(Root)

\* What a thread spawned has a sender that has not ended.
LEMMA ParentUnended ==
  ASSUME Ordered, NEW c, NEW t, SpawnedBy(c, t)
  PROVE  Unended(t)
<1>1. CASE [sender |-> t, tool |-> "spawnAgent", to |-> c] \in native.owed
  <2>1. PICK o \in native.owed : o = [sender |-> t, tool |-> "spawnAgent", to |-> c]
    BY <1>1
  <2>2. OwedInOrder(o) /\ o.sender = t
    BY <2>1 DEF Ordered
  <2> QED BY <2>2 DEF OwedInOrder
<1>2. CASE \E i \in 1..Len(inbox) : IsFrom(i, "collaboration", t)
  BY <1>2 DEF Ordered, MessageInOrder, IsFrom
<1> QED BY <1>1, <1>2 DEF SpawnedBy

\* With the outcome of the root and no child active, the job knows every thread there is.
LEMMA NobodyUnknown ==
  ASSUME CodexType, InboxType, Ordered, codex.rootOutcome # {}, active(codex) = {},
         NEW c \in SubThread, native.state[c] # "none"
  PROVE  c \in Known
<1>0. \A d, t : SpawnedBy(d, t) => t \notin Known /\ t # Root
  BY ParentUnended DEF Unended
<1>1. ASSUME NEW d \in SubThread, native.state[d] # "none", d \notin Known
      PROVE  \E t \in SubThread :
               /\ native.state[t] # "none" /\ t \notin Known
               /\ \E j \in 1..Len(inbox) :
                    /\ IsFrom(j, "thread/started", t)
                    /\ \A i \in 1..Len(inbox) : IsFrom(i, "thread/started", d) => j < i
  <2>1. HasParent(d)
    BY <1>1 DEF Ordered, ThreadInOrder
  <2>2. PICK t \in Thread, j \in 1..Len(inbox) :
          /\ SpawnedBy(d, t)
          /\ IsFrom(j, "thread/started", t)
          /\ \A i \in 1..Len(inbox) : IsFrom(i, "thread/started", d) => j < i
    BY <1>0, <2>1 DEF HasParent
  <2>3. t \in SubThread /\ t \notin Known
    BY <1>0, <2>2 DEF Thread
  <2>4. native.state[t] # "none"
    BY <2>2, <2>3 DEF Ordered, ThreadInOrder
  <2> QED BY <2>2, <2>3, <2>4
<1> DEFINE P(j) == j \in 1..Len(inbox) /\ \E t \in SubThread :
                     native.state[t] # "none" /\ t \notin Known /\ IsFrom(j, "thread/started", t)
<1>2. SUFFICES ASSUME c \notin Known PROVE FALSE
  OBVIOUS
<1>3. Len(inbox) \in Nat
  BY DEF InboxType
<1>4. \E j \in 1..Len(inbox) : P(j)
  BY <1>1, <1>2
<1> DEFINE A == {j \in Nat : P(j)}
<1>5. PICK j \in A : \A i \in A : ~(<<i, j>> \in OpToRel(<, Nat))
  <2>1. A \subseteq Nat /\ A # {}
    BY <1>3, <1>4
  <2> HIDE DEF P, A
  <2> QED BY <2>1, NatLessThanWellFounded, WFMin
<1>6. PICK t \in SubThread : native.state[t] # "none" /\ t \notin Known /\ IsFrom(j, "thread/started", t)
  BY <1>5
<1>7. PICK s \in SubThread, i \in 1..Len(inbox) :
        /\ native.state[s] # "none" /\ s \notin Known
        /\ IsFrom(i, "thread/started", s) /\ i < j
  BY <1>1, <1>5, <1>6
<1>8. P(i)
  BY <1>7
<1>9. i \in Nat /\ i < j
  BY <1>3, <1>7
<1>10. j \in Nat
  BY <1>5
<1>11. i \in A
  <2> HIDE DEF P
  <2> QED BY <1>8, <1>9
<1> HIDE DEF P, A
<1> QED BY <1>5, <1>9, <1>10, <1>11 DEF OpToRel

Wound == CodexType /\ InboxType /\ Ordered /\ codex.rootOutcome # {} /\ active(codex) = {}
Quiet == \A c \in SubThread : native.state[c] \in {"none", "idle", "closed"} \/ c \in native.closing
LEMMA QuietAtTheEnd == Wound => Quiet
<1> SUFFICES ASSUME Wound, NEW c \in SubThread, c \notin native.closing,
                    native.state[c] \notin {"none", "idle", "closed"}
             PROVE FALSE
  BY DEF Quiet
<1> USE DEF Wound
<1>1. c \in Known
  BY NobodyUnknown
<1>2. native.state[c] \in {"new", "opened", "running"} /\ c # Root
  BY CodexAssumption DEF CodexType, Thread
<1>3. Unended(c)
  BY <1>2 DEF Ordered, ThreadInOrder, Untold
<1> QED BY <1>1, <1>2, <1>3 DEF Unended

LEMMA QuietNext == Wound' => Quiet'
BY QuietAtTheEnd, PTL

-----------------------------------------------------------------------------
\* What a message that is read leaves as it was: the others move up.
Shifts ==
  /\ Len(inbox) \in Nat /\ Len(inbox) > 0 /\ Len(inbox') = Len(inbox) - 1 /\ 1 \in 1..Len(inbox)
  /\ \A i \in 1..Len(inbox') : i + 1 \in 1..Len(inbox) /\ inbox'[i] = inbox[i + 1]
  /\ \A i \in 1..Len(inbox) : i = 1 \/ (i - 1 \in 1..Len(inbox') /\ inbox'[i - 1] = inbox[i])

LEMMA InboxShifts ==
  ASSUME InboxType, inbox # <<>>, inbox' = Tail(inbox)
  PROVE  Shifts /\ InboxType' /\ Head(inbox) = inbox[1]
<1>1. /\ \E S : inbox' \in Seq(S)
      /\ Len(inbox) \in Nat /\ Len(inbox) > 0 /\ Len(inbox') = Len(inbox) - 1
      /\ \A i \in 1..Len(inbox') : i + 1 \in 1..Len(inbox) /\ inbox'[i] = inbox[i + 1]
      /\ Head(inbox) = inbox[1] /\ 1 \in 1..Len(inbox)
  BY MessageRead
<1>2. \A i \in 1..Len(inbox) : i = 1 \/ (i - 1 \in 1..Len(inbox') /\ (i - 1) + 1 = i)
  BY <1>1
<1>3. Shifts
  BY <1>1, <1>2 DEF Shifts
<1>4. InboxType'
  BY <1>1 DEF InboxType
<1> QED BY <1>1, <1>3, <1>4

\* What a message says of the children: who is known, and which turns are open.
Hears ==
  /\ Known \subseteq Known'
  /\ \A c \in SubThread : IsFrom(1, "thread/started", c) => c \in Known'
  /\ \A c \in SubThread, n \in 1..MaxChildTurn :
       /\ Starts(1, c, n) => codex'.reported[c][n] = "in_progress"
       /\ ~Starts(1, c, n) /\ ~EndsTurn(1, c, n) => codex'.reported[c][n] = codex.reported[c][n]
\* What it says of who has ended, and of who was spawned.
Learns ==
  /\ Known \subseteq Known'
  /\ \A c \in SubThread : IsFrom(1, "thread/started", c) => c \in Known'
  /\ inbox[1].type = "collaboration" /\ inbox[1].detail = "spawnAgent" => inbox[1].to \in Known'
  /\ \A t \in Thread : Unended(t) /\ ~EndMark(1, t) => Unended(t)'

LEMMA ScopesRead ==
  ASSUME InboxType, Scoped, Listens, Shifts, Hears, codex'.stray = FALSE,
         native'.state = native.state, native'.turn = native.turn, native'.owed = native.owed
  PROVE  Scoped'
<1>1. \A c \in SubThread : \A i \in 1..Len(inbox) : HeardOf(c, i + 1) => HeardOf(c, i)'
  <2> SUFFICES ASSUME NEW c \in SubThread, NEW i \in 1..Len(inbox), HeardOf(c, i + 1)
               PROVE HeardOf(c, i)'
    OBVIOUS
  <2>1. CASE c \in Known
    BY <2>1 DEF Hears, HeardOf
  <2>2. CASE \E j \in 1..Len(inbox) : j < i + 1 /\ IsFrom(j, "thread/started", c)
    <3>1. PICK j \in 1..Len(inbox) : j < i + 1 /\ IsFrom(j, "thread/started", c)
      BY <2>2
    <3>2. CASE j = 1
      BY <3>1, <3>2 DEF Hears, HeardOf
    <3>3. CASE j # 1
      <4>1. j - 1 \in 1..Len(inbox') /\ inbox'[j - 1] = inbox[j] /\ j - 1 < i
        BY <3>1, <3>3 DEF Shifts
      <4>2. IsFrom(j - 1, "thread/started", c)'
        BY <3>1, <4>1 DEF IsFrom
      <4> QED BY <4>1, <4>2 DEF HeardOf
    <3> QED BY <3>2, <3>3
  <2> QED BY <2>1, <2>2 DEF HeardOf
<1>2. \A c \in SubThread, n \in 1..MaxChildTurn :
        EndsTurn(1, c, n) => codex.reported[c][n] = "in_progress"
  <2> SUFFICES ASSUME NEW c \in SubThread, NEW n \in 1..MaxChildTurn, EndsTurn(1, c, n)
               PROVE codex.reported[c][n] = "in_progress"
    OBVIOUS
  <2>1. OpenAt(c, n, 1)
    BY DEF Scoped, MessageScoped, EndsTurn, IsFrom, Shifts
  <2> QED BY <2>1 DEF OpenAt, Shifts
<1>3. \A c \in SubThread : \A n : \A i \in 1..Len(inbox) : OpenAt(c, n, i + 1) => OpenAt(c, n, i)'
  <2> SUFFICES ASSUME NEW c \in SubThread, NEW n, NEW i \in 1..Len(inbox), OpenAt(c, n, i + 1)
               PROVE OpenAt(c, n, i)'
    OBVIOUS
  <2>1. n \in 1..MaxChildTurn /\ ~EndsTurn(1, c, n)
    BY DEF OpenAt, Shifts
  <2>2. codex'.reported[c][n] = "in_progress" \/ \E j \in 1..Len(inbox') : j < i /\ Starts(j, c, n)'
    <3>1. CASE codex.reported[c][n] = "in_progress" \/ Starts(1, c, n)
      BY <2>1, <3>1 DEF Hears
    <3>2. CASE \E j \in 1..Len(inbox) : j < i + 1 /\ Starts(j, c, n) /\ j # 1
      <4>1. PICK j \in 1..Len(inbox) : j < i + 1 /\ Starts(j, c, n) /\ j # 1
        BY <3>2
      <4>2. j - 1 \in 1..Len(inbox') /\ inbox'[j - 1] = inbox[j] /\ j - 1 < i
        BY <4>1 DEF Shifts
      <4>3. Starts(j - 1, c, n)'
        BY <4>1, <4>2 DEF Starts, IsFrom
      <4> QED BY <4>2, <4>3
    <3> QED BY <3>1, <3>2 DEF OpenAt
  <2>3. ASSUME NEW j \in 1..Len(inbox'), j < i, EndsTurn(j, c, n)' PROVE FALSE
    <3>1. j + 1 \in 1..Len(inbox) /\ inbox'[j] = inbox[j + 1] /\ j + 1 < i + 1
      BY <2>3 DEF Shifts
    <3>2. EndsTurn(j + 1, c, n)
      BY <2>3, <3>1 DEF EndsTurn, IsFrom
    <3> QED BY <3>1, <3>2 DEF OpenAt
  <2> QED BY <2>1, <2>2, <2>3 DEF OpenAt
\* A turn of which nothing was said yet.
<1>4. ASSUME NEW c \in SubThread, NEW n \in 1..MaxChildTurn, codex.reported[c][n] = "none", ~Starts(1, c, n)
      PROVE  codex'.reported[c][n] = "none"
  BY <1>2, <1>4 DEF Hears
<1>5. ASSUME NEW i \in 1..Len(inbox') PROVE MessageScoped(i)'
  <2>r. PICK t, n, type : inbox'[i].thread = t /\ inbox'[i].turn = n /\ inbox'[i].type = type
    OBVIOUS
  <2>0. SUFFICES ASSUME t \in SubThread PROVE MessageScoped(i)'
    BY <2>r DEF MessageScoped
  <2>1. /\ i + 1 \in 1..Len(inbox) /\ i \in 1..Len(inbox) /\ i \in Nat
        /\ inbox[i + 1].thread = t /\ inbox[i + 1].turn = n /\ inbox[i + 1].type = type
    BY <2>r DEF Shifts
  <2>2. /\ type # "thread/started" => HeardOf(t, i + 1)
        /\ type \notin {"thread/started", "turn/started"} => OpenAt(t, n, i + 1)
        /\ type = "turn/started" =>
             /\ codex.reported[t][n] = "none"
             /\ \A j \in 1..Len(inbox) : j < i + 1 => ~Starts(j, t, n)
    <3>1. MessageScoped(i + 1)
      BY <2>1 DEF Scoped
    <3> QED BY <2>0, <2>1, <3>1 DEF MessageScoped
  <2>3. type # "thread/started" => HeardOf(t, i)'
    BY <1>1, <2>0, <2>1, <2>2
  <2>4. type \notin {"thread/started", "turn/started"} => OpenAt(t, n, i)'
    BY <1>3, <2>0, <2>1, <2>2
  <2>5. ASSUME type = "turn/started"
        PROVE  codex'.reported[t][n] = "none" /\ \A j \in 1..Len(inbox') : j < i => ~Starts(j, t, n)'
    <3>1. n \in 1..MaxChildTurn /\ ~Starts(1, t, n)
      <4>1. n \in 1..MaxChildTurn
        BY <2>1, <2>5 DEF InboxType
      <4>2. 1 \in 1..Len(inbox) /\ 1 < i + 1
        BY <2>1 DEF Shifts
      <4> QED BY <2>2, <2>5, <4>1, <4>2
    <3>2. ASSUME NEW j \in 1..Len(inbox'), j < i, Starts(j, t, n)' PROVE FALSE
      <4>1. j + 1 \in 1..Len(inbox) /\ inbox'[j] = inbox[j + 1] /\ j + 1 < i + 1
        BY <3>2 DEF Shifts
      <4>2. Starts(j + 1, t, n)
        BY <3>2, <4>1 DEF Starts, IsFrom
      <4> QED BY <2>2, <2>5, <4>1, <4>2
    <3> QED BY <1>4, <2>0, <2>2, <2>5, <3>1, <3>2
  <2> QED BY <2>r, <2>3, <2>4, <2>5 DEF MessageScoped
<1>6. ASSUME NEW c \in SubThread PROVE ThreadScoped(c)'
  <2>0. ThreadScoped(c)
    BY DEF Scoped
  <2>e. PICK k \in Nat : k = Len(inbox) + 1
    BY DEF Shifts
  <2>l. PICK l \in 1..Len(inbox) : l = Len(inbox') + 1 /\ k = l + 1
    BY <2>e DEF Shifts
  <2>1. HeardOf(c, k) => HeardOf(c, l)'
    BY <1>1, <2>l
  <2>2. \A n : OpenAt(c, n, k) => OpenAt(c, n, l)'
    BY <1>3, <2>l
  <2>3. ASSUME NEW n \in 1..MaxChildTurn, n > native.turn[c]
        PROVE  codex'.reported[c][n] = "none" /\ \A j \in 1..Len(inbox') : ~Starts(j, c, n)'
    <3>1. codex.reported[c][n] = "none" /\ \A j \in 1..Len(inbox) : ~Starts(j, c, n)
      BY <2>0, <2>3 DEF ThreadScoped
    <3>2. ~Starts(1, c, n)
      BY <3>1 DEF Shifts
    <3>3. ASSUME NEW j \in 1..Len(inbox'), Starts(j, c, n)' PROVE FALSE
      <4>1. j + 1 \in 1..Len(inbox) /\ inbox'[j] = inbox[j + 1]
        BY DEF Shifts
      <4>2. Starts(j + 1, c, n)
        BY <3>3, <4>1 DEF Starts, IsFrom
      <4> QED BY <3>1, <4>1, <4>2
    <3> QED BY <1>4, <3>1, <3>2, <3>3
  <2> QED BY <2>0, <2>e, <2>l, <2>1, <2>2, <2>3 DEF ThreadScoped, End
<1>7. \A i \in native'.owed : native'.state[i.sender] = "running"
  BY DEF Scoped
<1> QED BY <1>5, <1>6, <1>7 DEF Scoped

LEMMA OrderRead ==
  ASSUME CodexType, InboxType, Ordered, Shifts, Learns,
         native'.state = native.state, native'.owed = native.owed, native'.closing = native.closing
  PROVE  Ordered'
<1>1. ASSUME NEW t \in Thread, Unended(t), NEW k \in 1..(Len(inbox) + 1), k > 1,
             \A i \in 1..Len(inbox) : i < k => ~EndMark(i, t)
      PROVE  Unended(t)' /\ \A i \in 1..Len(inbox') : i < k - 1 => ~EndMark(i, t)'
  <2>1. ~EndMark(1, t)
    BY <1>1 DEF Shifts
  <2>2. Unended(t)'
    BY <1>1, <2>1 DEF Learns
  <2>3. ASSUME NEW i \in 1..Len(inbox'), i < k - 1, EndMark(i, t)' PROVE FALSE
    <3>1. i + 1 \in 1..Len(inbox) /\ inbox'[i] = inbox[i + 1] /\ i + 1 < k
      BY <2>3 DEF Shifts
    <3>2. EndMark(i + 1, t)
      BY <2>3, <3>1 DEF EndMark, IsFrom
    <3> QED BY <1>1, <3>1, <3>2
  <2> QED BY <2>2, <2>3
<1>2. ASSUME NEW t \in Thread, Untold(t)
      PROVE  Untold(t)' /\ Unended(t)' /\ \A i \in 1..Len(inbox') : ~EndMark(i, t)'
  <2>1. PICK k : k = Len(inbox) + 1
    OBVIOUS
  <2>2. k \in 1..(Len(inbox) + 1) /\ k > 1 /\ \A i \in 1..Len(inbox') : i < k - 1
    BY <2>1 DEF Shifts
  <2>3. Unended(t)' /\ \A i \in 1..Len(inbox') : i < k - 1 => ~EndMark(i, t)'
    BY <1>1, <1>2, <2>2 DEF Untold
  <2> QED BY <2>2, <2>3 DEF Untold
<1>3. ASSUME NEW o \in native'.owed PROVE OwedInOrder(o)'
  <2>1. OwedInOrder(o) /\ o.sender \in Thread
    BY DEF Ordered, CodexType
  <2>2. Unended(o.sender)' /\ \A i \in 1..Len(inbox') : ~EndMark(i, o.sender)'
    BY <1>2, <2>1 DEF OwedInOrder, Untold
  <2> QED BY <2>1, <2>2 DEF OwedInOrder
<1>4. ASSUME NEW i \in 1..Len(inbox') PROVE MessageInOrder(i)'
  <2>1. PICK t, type : inbox'[i].thread = t /\ inbox'[i].type = type
    OBVIOUS
  <2>2. SUFFICES ASSUME type = "collaboration" PROVE MessageInOrder(i)'
    BY <2>1 DEF MessageInOrder
  <2>3. i + 1 \in 1..(Len(inbox) + 1) /\ i + 1 > 1 /\ i + 1 \in 1..Len(inbox) /\ (i + 1) - 1 = i
    BY DEF Shifts
  <2>4. /\ t \in Thread /\ Unended(t) /\ \A j \in 1..Len(inbox) : j < i + 1 => ~EndMark(j, t)
    <3>1. MessageInOrder(i + 1) /\ inbox[i + 1].thread = t /\ inbox[i + 1].type = type
      BY <2>1, <2>3 DEF Ordered, Shifts
    <3> QED BY <2>2, <2>3, <3>1 DEF MessageInOrder, InboxType
  <2>5. Unended(t)' /\ \A j \in 1..Len(inbox') : j < i => ~EndMark(j, t)'
    BY <1>1, <2>3, <2>4
  <2> QED BY <2>1, <2>5 DEF MessageInOrder
<1>5. ASSUME NEW c \in SubThread, HasParent(c), c \notin Known' PROVE HasParent(c)'
  <2>1. PICK t \in Thread :
          /\ SpawnedBy(c, t)
          /\ \/ t = Root \/ t \in Known
             \/ \E j \in 1..Len(inbox) :
                  /\ IsFrom(j, "thread/started", t)
                  /\ \A i \in 1..Len(inbox) : IsFrom(i, "thread/started", c) => j < i
    BY <1>5 DEF HasParent
  <2>2. SpawnedBy(c, t)'
    <3>1. CASE [sender |-> t, tool |-> "spawnAgent", to |-> c] \in native.owed
      BY <3>1 DEF SpawnedBy
    <3>2. CASE \E i \in 1..Len(inbox) :
                 IsFrom(i, "collaboration", t) /\ inbox[i].detail = "spawnAgent" /\ inbox[i].to = c
      <4>1. PICK i \in 1..Len(inbox) :
                   IsFrom(i, "collaboration", t) /\ inbox[i].detail = "spawnAgent" /\ inbox[i].to = c
        BY <3>2
      <4>2. i # 1
        BY <1>5, <4>1 DEF Learns, IsFrom
      <4>3. i - 1 \in 1..Len(inbox') /\ inbox'[i - 1] = inbox[i]
        BY <4>2 DEF Shifts
      <4> QED BY <4>1, <4>3 DEF SpawnedBy, IsFrom
    <3> QED BY <2>1, <3>1, <3>2 DEF SpawnedBy
  <2>3. CASE t = Root \/ t \in Known'
    BY <2>2, <2>3 DEF HasParent
  <2>4. CASE t # Root /\ t \notin Known'
    <3>1. t \in SubThread /\ t \notin Known
      BY <2>4 DEF Thread, Learns
    <3>2. PICK j \in 1..Len(inbox) :
            /\ IsFrom(j, "thread/started", t)
            /\ \A i \in 1..Len(inbox) : IsFrom(i, "thread/started", c) => j < i
      BY <2>1, <2>4, <3>1
    <3>3. j # 1
      BY <2>4, <3>1, <3>2 DEF Learns
    <3>4. j - 1 \in 1..Len(inbox') /\ inbox'[j - 1] = inbox[j]
      BY <3>3 DEF Shifts
    <3>5. IsFrom(j - 1, "thread/started", t)'
      BY <3>2, <3>4 DEF IsFrom
    <3>6. ASSUME NEW i \in 1..Len(inbox'), IsFrom(i, "thread/started", c)' PROVE j - 1 < i
      <4>1. i + 1 \in 1..Len(inbox) /\ inbox'[i] = inbox[i + 1] /\ i \in Nat /\ j \in Nat
        BY DEF Shifts
      <4>2. IsFrom(i + 1, "thread/started", c)
        BY <3>6, <4>1 DEF IsFrom
      <4>3. j < i + 1
        BY <3>2, <4>1, <4>2
      <4> QED BY <4>1, <4>3
    <3>7. PICK h : h = j - 1
      OBVIOUS
    <3>8. /\ h \in 1..Len(inbox') /\ IsFrom(h, "thread/started", t)'
          /\ \A i \in 1..Len(inbox') : IsFrom(i, "thread/started", c)' => h < i
      BY <3>4, <3>5, <3>6, <3>7
    <3> QED BY <2>2, <3>8 DEF HasParent
  <2> QED BY <2>3, <2>4
<1>6. ASSUME NEW c \in SubThread PROVE ThreadInOrder(c)'
  <2>0. ThreadInOrder(c) /\ c \in Thread
    BY DEF Ordered, Thread
  <2>1. native'.state[c] # "none" /\ c \notin Known' => HasParent(c)'
    BY <1>5, <2>0 DEF ThreadInOrder, Learns
  <2>2. native'.state[c] \in {"none", "new"} => \A i \in 1..Len(inbox') : ~IsFrom(i, "thread/started", c)'
    BY <2>0 DEF ThreadInOrder, IsFrom, Shifts
  <2>3. native'.state[c] \in {"none", "new", "opened", "running"} /\ c \notin native'.closing => Untold(c)'
    BY <1>2, <2>0 DEF ThreadInOrder
  <2> QED BY <2>1, <2>2, <2>3 DEF ThreadInOrder
<1>7. native'.state[Root] = "running" => Untold(Root)'
  BY <1>2 DEF Ordered, Thread
<1> QED BY <1>3, <1>4, <1>6, <1>7 DEF Ordered

\* The places of the calls, when the one that is read goes to its place.
LEMMA PlacesRead ==
  ASSUME Places, Shifts,
         \A k \in CodexCall : ~(inbox[1].type = "call" /\ inbox[1].to = k) =>
           /\ native'.call[k] = native.call[k] /\ (k \in codex'.tools <=> k \in codex.tools)
           /\ (Coded(k)' <=> Coded(k)),
         \A k \in CodexCall : inbox[1].type = "call" /\ inbox[1].to = k =>
           /\ native'.call[k].answers \in {0, 1}
           /\ k \in codex'.tools \/ Coded(k)' =>
                native'.call[k].answers = 0 /\ native'.call[k].by = native.call[k].by
           /\ k \in codex'.tools => ~Coded(k)'
  PROVE  Places'
<1>1. ASSUME NEW k \in CodexCall, NEW i \in Calling(k)'
      PROVE  i + 1 \in Calling(k) /\ i \in Nat
  BY <1>1 DEF Calling, Shifts
<1>2. ASSUME NEW k \in CodexCall
      PROVE  /\ native'.call[k].answers \in {0, 1}
             /\ Calling(k)' # {} \/ k \in codex'.tools \/ Coded(k)' =>
                  native'.call[k].answers = 0 /\ native'.call[k].by \in Thread
             /\ Calling(k)' # {} => k \notin codex'.tools /\ ~Coded(k)'
             /\ k \in codex'.tools => ~Coded(k)'
             /\ \A i, j \in Calling(k)' : i = j
  <2>0. /\ native.call[k].answers \in {0, 1}
        /\ Calling(k) # {} \/ k \in codex.tools \/ Coded(k) =>
             native.call[k].answers = 0 /\ native.call[k].by \in Thread
        /\ Calling(k) # {} => k \notin codex.tools /\ ~Coded(k)
        /\ k \in codex.tools => ~Coded(k)
        /\ \A i, j \in Calling(k) : i = j
    BY DEF Places
  <2>1. CASE inbox[1].type = "call" /\ inbox[1].to = k
    <3>1. 1 \in Calling(k)
      BY <2>1 DEF Calling, Shifts
    <3>2. ASSUME NEW i \in Calling(k)' PROVE FALSE
      <4>1. i + 1 \in Calling(k) /\ i \in Nat
        BY <1>1
      <4>2. i \in 1..Len(inbox')
        BY DEF Calling
      <4> QED BY <2>0, <3>1, <4>1, <4>2
    <3>3. Calling(k)' = {}
      BY <3>2
    <3> QED BY <2>0, <2>1, <3>1, <3>3
  <2>2. CASE ~(inbox[1].type = "call" /\ inbox[1].to = k)
    <3>1. Calling(k)' # {} => Calling(k) # {}
      BY <1>1
    <3>2. ASSUME NEW i \in Calling(k)', NEW j \in Calling(k)' PROVE i = j
      <4>1. i + 1 \in Calling(k) /\ j + 1 \in Calling(k) /\ i \in Nat /\ j \in Nat
        BY <1>1
      <4>2. i + 1 = j + 1
        BY <2>0, <4>1
      <4> QED BY <4>1, <4>2
    <3> QED BY <2>0, <2>2, <3>1, <3>2
  <2> QED BY <2>1, <2>2
<1> QED BY <1>2 DEF Places

-----------------------------------------------------------------------------
\* dispatch, message by message.
RootOutcome == codex.rootOutcome \in {{}, {"completed"}, {"cancelled"}}
Asks == inbox[1].type = "call" /\ inbox[1].detail = "function"
\* What a message does to the job besides its children.
Decides ==
  /\ DOMAIN codex' = CodexFields /\ codex'.status \in Terminal \cup Active
  /\ codex'.closing = codex.closing /\ codex'.cancelling = codex.cancelling
  /\ codex'.cancelRequested = codex.cancelRequested /\ codex'.code = codex.code
  /\ Asks => codex'.tools = codex.tools \cup {inbox[1].to}
  /\ ~Asks => codex'.tools = codex.tools
  /\ codex'.status \in Active /\ ~codex.cancelling =>
       IF Asks THEN codex'.status = "waiting" ELSE codex'.status = codex.status
  /\ codex'.status = "completed" =>
       ~codex.cancelling /\ codex'.rootOutcome # {} /\ active(codex)' = {}
  /\ RootOutcome'
\* Its children are still records of the children.
Children ==
  /\ DOMAIN codex'.child = SubThread
  /\ \A c \in SubThread : codex'.child[c] = {} \/ \E s : codex'.child[c] = {s} /\ DOMAIN s = {"active", "closed", "turn"}
  /\ DOMAIN codex'.reported = SubThread
  /\ \A c \in SubThread : DOMAIN codex'.reported[c] = 1..MaxChildTurn
  /\ codex'.stray = FALSE

\* The job that reads, and the message.
Reading ==
  /\ CodexInv /\ RootOutcome /\ Shifts /\ Listens /\ ~codex.closing
  /\ codex' = dispatch(codex, inbox[1])

LEMMA HeadScoped ==
  ASSUME Reading, inbox[1].thread \in SubThread
  PROVE  /\ inbox[1].type # "thread/started" => inbox[1].thread \in Known
         /\ inbox[1].type \notin {"thread/started", "turn/started"} =>
              /\ inbox[1].turn \in 1..MaxChildTurn
              /\ codex.reported[inbox[1].thread][inbox[1].turn] = "in_progress"
         /\ inbox[1].type = "turn/started" =>
              /\ inbox[1].turn \in 1..MaxChildTurn
              /\ codex.reported[inbox[1].thread][inbox[1].turn] = "none"
<1>1. MessageScoped(1) /\ InboxType
  BY DEF Reading, CodexInv, Scoped, Shifts
<1>2. \A j \in 1..Len(inbox) : ~(j < 1)
  BY DEF Reading, Shifts
<1> QED BY <1>1, <1>2 DEF MessageScoped, HeardOf, OpenAt, InboxType, Reading, Shifts

LEMMA EmitsNothing ==
  ASSUME NEW j, NEW m,
         m.thread = Root \/ (known(j, m.thread) /\ j.reported[m.thread][m.turn] = "in_progress")
  PROVE  emitItem(j, m) = j
<1>1. origin(j, m.thread) = m.thread
  BY DEF origin
<1> QED BY <1>1 DEF emitItem

\* finishIfReady decides as the root's turn did.
LEMMA FinishDecides ==
  ASSUME CodexInv, Listens, ~codex.closing, ~Asks, NEW j, DOMAIN j = CodexFields,
         j.status = codex.status, j.closing = codex.closing, j.cancelling = codex.cancelling,
         j.cancelRequested = codex.cancelRequested, j.tools = codex.tools, j.code = codex.code,
         j.rootOutcome \in {{}, {"completed"}, {"cancelled"}},
         codex' = finishIfReady(j)
  PROVE  Decides /\ OnlyStatus(j, codex')
<1>0. OnlyStatus(j, codex') /\ ~Sealed(j) /\ codex.status \in Active
  BY Finishes DEF Sealed, settled, Listens, Active, Terminal
<1>1. active(codex)' = active(j)
  BY <1>0 DEF OnlyStatus, active
<1>2. /\ codex'.status \in Terminal \cup Active
      /\ codex'.status \in Active /\ ~codex.cancelling => codex'.status = codex.status
      /\ codex'.status = "completed" =>
           ~codex.cancelling /\ codex'.rootOutcome # {} /\ active(codex)' = {}
  <2>1. CASE codex.cancelling
    BY <1>0, <2>1, Finishes DEF Terminal, Active
  <2>2. CASE ~codex.cancelling
    <3>1. \/ codex'.status = codex.status
          \/ /\ j.rootOutcome # {} /\ active(j) = {}
             /\ codex'.status = CHOOSE o \in j.rootOutcome : TRUE
      BY <1>0, <2>2, Finishes
    <3>2. j.rootOutcome # {} => (CHOOSE o \in j.rootOutcome : TRUE) \in {"completed", "cancelled"}
      OBVIOUS
    <3> QED BY <1>0, <1>1, <2>2, <3>1, <3>2 DEF OnlyStatus, Terminal, Active
  <2> QED BY <2>1, <2>2
<1> QED BY <1>0, <1>2 DEF Decides, OnlyStatus, RootOutcome

\* A message that leaves the job as it is.
LEMMA SameDecides ==
  ASSUME CodexInv, RootOutcome, Listens, ~Asks, codex' = codex
  PROVE  Decides /\ Children
<1>1. codex.status # "completed"
  BY DEF Listens, Active
<1> QED BY <1>1 DEF Decides, Children, CodexInv, CodexType, Scoped, RootOutcome

\* One child is told of.
LEMMA OneChild ==
  ASSUME CodexInv, NEW c \in SubThread, NEW s, DOMAIN s = {"active", "closed", "turn"},
         codex'.child = [codex.child EXCEPT ![c] = {s}]
  PROVE  /\ DOMAIN codex'.child = SubThread
         /\ \A d \in SubThread : codex'.child[d] = {} \/ \E x : codex'.child[d] = {x} /\ DOMAIN x = {"active", "closed", "turn"}
         /\ Known' = Known \cup {c}
         /\ s.active => c \in active(codex)'
         /\ \A d \in SubThread : d # c => (d \in active(codex)' <=> d \in active(codex))
<1>1. DOMAIN codex.child = SubThread
  BY DEF CodexInv, CodexType
<1>2. codex'.child[c] = {s} /\ \A d \in SubThread : d # c => codex'.child[d] = codex.child[d]
  BY <1>1
<1>3. \A d \in SubThread : codex'.child[d] = {} \/ \E x : codex'.child[d] = {x} /\ DOMAIN x = {"active", "closed", "turn"}
  BY <1>2 DEF CodexInv, CodexType
<1>4. Known' = Known \cup {c}
  BY <1>2 DEF Known
<1>5. s.active => c \in active(codex)'
  BY <1>2 DEF active
<1>6. \A d \in SubThread : d # c => (d \in active(codex)' <=> d \in active(codex))
  BY <1>2 DEF active
<1> QED BY <1>1, <1>3, <1>4, <1>5, <1>6

\* What is learned when one child is told of.
LEMMA LearnsOne ==
  ASSUME CodexInv, NEW c \in SubThread, Known' = Known \cup {c},
         \A d \in SubThread : d # c => (d \in active(codex)' <=> d \in active(codex)),
         codex'.rootOutcome = codex.rootOutcome,
         (c \in Known => c \in active(codex)) /\ ~EndMark(1, c) => c \in active(codex)',
         IsFrom(1, "thread/started", inbox[1].thread) => inbox[1].thread \in Known',
         inbox[1].type = "collaboration" /\ inbox[1].detail = "spawnAgent" => inbox[1].to \in Known'
  PROVE  Learns
<1>1. ASSUME NEW t \in Thread, Unended(t), ~EndMark(1, t) PROVE Unended(t)'
  <2>1. CASE t = Root
    BY <1>1, <2>1 DEF Unended
  <2>2. CASE t # Root /\ t = c
    BY <1>1, <2>2 DEF Unended
  <2>3. CASE t # Root /\ t # c
    BY <1>1, <2>3 DEF Unended, Thread
  <2> QED BY <2>1, <2>2, <2>3
<1> QED BY <1>1 DEF Learns, IsFrom

\* A message that tells of no child.
LEMMA SameLearns ==
  ASSUME codex'.child = codex.child, codex'.reported = codex.reported,
         codex'.rootOutcome = codex.rootOutcome \/ EndMark(1, Root),
         inbox[1].type # "turn/started",
         inbox[1].type = "thread/started" => inbox[1].thread \in Known,
         inbox[1].type = "collaboration" /\ inbox[1].detail = "spawnAgent" => inbox[1].to \in Known
  PROVE  Hears /\ Learns
<1>1. Known' = Known /\ active(codex)' = active(codex)
  BY DEF Known, active
<1>2. Hears
  BY <1>1 DEF Hears, IsFrom, Starts
<1>3. \A t \in Thread : Unended(t) /\ ~EndMark(1, t) => Unended(t)'
  BY <1>1 DEF Unended
<1> QED BY <1>1, <1>2, <1>3 DEF Learns, IsFrom

LEMMA TakesAnnouncement ==
  ASSUME Reading, inbox[1].type = "thread/started"
  PROVE  Decides /\ Children /\ Hears /\ Learns
<1> DEFINE m == inbox[1]
<1>0. CodexInv /\ RootOutcome /\ Listens /\ CodexType /\ InboxType /\ 1 \in 1..Len(inbox) /\ codex.stray = FALSE
  BY DEF Reading, CodexInv, Shifts, Scoped
<1>1. m.thread \in SubThread /\ m.to = m.thread /\ ~Asks
  BY <1>0 DEF InboxType, Asks
<1>2. codex' = threadStarted(codex, m)
  BY DEF Reading, dispatch
<1>3. CASE known(codex, m.to)
  <2>1. codex' = codex
    BY <1>2, <1>3 DEF threadStarted
  <2>2. m.thread \in Known
    BY <1>1, <1>3 DEF known, Known
  <2> QED BY <1>0, <1>1, <2>1, <2>2, SameDecides, SameLearns
<1>4. CASE ~known(codex, m.to)
  <2> PICK c \in SubThread : c = m.thread
    BY <1>1
  <2>1. codex' = [codex EXCEPT !.child[c] = {NewChild}]
    BY <1>1, <1>2, <1>4 DEF threadStarted
  <2>2. /\ codex'.status = codex.status
        /\ codex'.child = [codex.child EXCEPT ![c] = {NewChild}]
    BY <1>0, <2>1 DEF CodexType, CodexFields
  <2>3. /\ DOMAIN codex' = CodexFields /\ codex'.closing = codex.closing /\ codex'.cancelling = codex.cancelling
        /\ codex'.cancelRequested = codex.cancelRequested /\ codex'.rootOutcome = codex.rootOutcome
        /\ codex'.tools = codex.tools /\ codex'.code = codex.code /\ codex'.stray = codex.stray
        /\ codex'.reported = codex.reported
    BY <1>0, <2>1 DEF CodexType, CodexFields
  <2>4. DOMAIN NewChild = {"active", "closed", "turn"} /\ NewChild.active
    BY DEF NewChild
  <2>5. /\ DOMAIN codex'.child = SubThread
        /\ \A d \in SubThread : codex'.child[d] = {} \/ \E x : codex'.child[d] = {x} /\ DOMAIN x = {"active", "closed", "turn"}
        /\ Known' = Known \cup {c} /\ c \in active(codex)'
        /\ \A d \in SubThread : d # c => (d \in active(codex)' <=> d \in active(codex))
    BY <1>0, <2>2, <2>4, OneChild
  <2>6. Decides
    BY <1>0, <1>1, <2>2, <2>3 DEF Decides, RootOutcome, CodexType, Listens, Active
  <2>7. Children
    BY <1>0, <2>3, <2>5 DEF Children, CodexType
  <2>8. Hears
    BY <2>3, <2>5 DEF Hears, IsFrom, Starts
  <2>9. Learns
    BY <1>0, <2>3, <2>5, LearnsOne
  <2> QED BY <2>6, <2>7, <2>8, <2>9
<1> QED BY <1>3, <1>4

LEMMA TakesItem ==
  ASSUME Reading, inbox[1].type = "item"
  PROVE  Decides /\ Children /\ Hears /\ Learns
<1> DEFINE m == inbox[1]
<1>0. CodexInv /\ RootOutcome /\ Listens /\ CodexType /\ InboxType /\ 1 \in 1..Len(inbox) /\ ~Asks
  BY DEF Reading, CodexInv, Shifts, Asks
<1>1. codex' = emitItem(codex, m)
  BY DEF Reading, dispatch
<1>2. m.thread = Root \/ (known(codex, m.thread) /\ codex.reported[m.thread][m.turn] = "in_progress")
  BY <1>0, HeadScoped DEF InboxType, Thread, known, Known
<1>3. codex' = codex
  BY <1>1, <1>2, EmitsNothing
<1> QED BY <1>0, <1>3, SameDecides, SameLearns

LEMMA TakesCall ==
  ASSUME Reading, inbox[1].type = "call"
  PROVE  Decides /\ Children /\ Hears /\ Learns
<1> DEFINE m == inbox[1]
           j == [codex EXCEPT !.tools = @ \cup {m.to}]
<1>0. CodexInv /\ RootOutcome /\ Listens /\ CodexType /\ InboxType /\ 1 \in 1..Len(inbox) /\ Cancels
  BY DEF Reading, CodexInv, Shifts
<1>1. codex' = toolCall(codex, m)
  BY DEF Reading, dispatch
<1>2. m.thread = Root \/ (m.thread \in SubThread /\ m.thread \in Known /\ codex.reported[m.thread][m.turn] = "in_progress")
  BY <1>0, HeadScoped DEF InboxType, Thread
<1>3. CASE m.detail = "function"
  <2>1. /\ DOMAIN j = CodexFields /\ j.status = codex.status /\ j.closing = codex.closing
        /\ j.cancelling = codex.cancelling /\ j.cancelRequested = codex.cancelRequested
        /\ j.rootOutcome = codex.rootOutcome /\ j.tools = codex.tools \cup {m.to}
        /\ j.code = codex.code /\ j.child = codex.child /\ j.stray = codex.stray
        /\ j.reported = codex.reported
    BY <1>0 DEF CodexType, CodexFields
  <2>2. codex' = emitItem(setStatus(j, "waiting"), m)
    BY <1>1, <1>3 DEF toolCall
  <2> HIDE DEF j
  <2>3. OnlyStatus(j, setStatus(j, "waiting"))
    BY <2>1, StatusSet
  <2>4. codex' = setStatus(j, "waiting")
    BY <1>2, <2>1, <2>2, <2>3, EmitsNothing DEF OnlyStatus, known, Known
  <2>5. /\ OnlyStatus(j, codex')
        /\ ~codex.cancelling => codex'.status = "waiting"
        /\ codex.cancelling => codex'.status = codex.status
    BY <1>0, <2>1, <2>3, <2>4, StatusSet DEF Sealed, settled, Listens, Active, Terminal, Reading
  <2>6. Decides
    BY <1>0, <1>3, <2>1, <2>5 DEF Decides, Asks, OnlyStatus, RootOutcome, Listens, Active
  <2>7. Children
    BY <1>0, <2>1, <2>5 DEF Children, OnlyStatus, CodexType, CodexInv, Scoped
  <2>8. Hears /\ Learns
    BY <2>1, <2>5, SameLearns DEF OnlyStatus
  <2> QED BY <2>6, <2>7, <2>8
<1>4. CASE m.detail # "function"
  <2>1. codex' = codex
    BY <1>1, <1>2, <1>4, EmitsNothing DEF toolCall, known, Known
  <2>2. ~Asks
    BY <1>4 DEF Asks
  <2> QED BY <1>0, <2>1, <2>2, SameDecides, SameLearns
<1> QED BY <1>3, <1>4

LEMMA TakesRoot ==
  ASSUME Reading, inbox[1].type = "turn/completed", inbox[1].thread = Root
  PROVE  Decides /\ Children /\ Hears /\ Learns
<1> DEFINE m == inbox[1]
           o == IF m.detail = "completed" /\ ~codex.cancelRequested THEN "completed" ELSE "cancelled"
           j == [codex EXCEPT !.rootOutcome = {o}]
<1>0. CodexInv /\ RootOutcome /\ Listens /\ CodexType /\ InboxType /\ ~codex.closing /\ ~Asks
  BY DEF Reading, CodexInv, Shifts, Asks
<1>1. codex' = rootTurnCompleted(codex, m)
  BY CodexAssumption DEF Reading, dispatch, turnCompleted, known
<1>2. EndMark(1, Root)
  BY DEF EndMark, IsFrom
<1>3. CASE m.detail = "failed"
  <2>1. codex' = fail(codex)
    BY <1>1, <1>3 DEF rootTurnCompleted
  <2>2. OnlyStatus(codex, codex') /\ codex'.status = "failed"
    BY <1>0, <2>1, JobFails DEF CodexType, Sealed, settled, Listens, Active, Terminal
  <2>3. Decides
    BY <1>0, <2>2 DEF Decides, OnlyStatus, RootOutcome, Terminal, Active
  <2>4. Children
    BY <1>0, <2>2 DEF Children, OnlyStatus, CodexType, CodexInv, Scoped
  <2>5. Hears /\ Learns
    BY <2>2, <1>2, SameLearns DEF OnlyStatus
  <2> QED BY <2>3, <2>4, <2>5
<1>4. CASE m.detail # "failed"
  <2>1. /\ DOMAIN j = CodexFields /\ j.status = codex.status /\ j.closing = codex.closing
        /\ j.cancelling = codex.cancelling /\ j.cancelRequested = codex.cancelRequested
        /\ j.rootOutcome = {o} /\ j.tools = codex.tools
        /\ j.code = codex.code /\ j.child = codex.child /\ j.stray = codex.stray
        /\ j.reported = codex.reported
    BY <1>0 DEF CodexType, CodexFields
  <2>2. o \in {"completed", "cancelled"}
    OBVIOUS
  <2>3. codex' = finishIfReady(j)
    BY <1>1, <1>4 DEF rootTurnCompleted
  <2> HIDE DEF j, o
  <2>4. Decides /\ OnlyStatus(j, codex')
    BY <1>0, <2>1, <2>2, <2>3, FinishDecides
  <2>5. Children
    BY <1>0, <2>1, <2>4 DEF Children, OnlyStatus, CodexType, CodexInv, Scoped
  <2>6. Hears /\ Learns
    BY <1>2, <2>1, <2>4, SameLearns DEF OnlyStatus
  <2> QED BY <2>4, <2>5, <2>6
<1> QED BY <1>3, <1>4

\* A turn of a child starts or ends.
LEMMA TakesChildTurn ==
  ASSUME Reading, NEW started \in BOOLEAN, inbox[1].thread \in SubThread,
         inbox[1].type = IF started THEN "turn/started" ELSE "turn/completed",
         codex' = childTurn(codex, inbox[1], started)
  PROVE  Decides /\ Children /\ Hears /\ Learns
<1>0. CodexInv /\ RootOutcome /\ Listens /\ CodexType /\ InboxType /\ ~codex.closing /\ ~Asks /\ codex.stray = FALSE
  BY DEF Reading, CodexInv, Asks, Scoped
<1>1. PICK c \in SubThread, n \in 1..MaxChildTurn : c = inbox[1].thread /\ n = inbox[1].turn
  BY HeadScoped
<1>2. c \in Known /\ codex.reported[c][n] = (IF started THEN "none" ELSE "in_progress")
  BY <1>1, HeadScoped
<1>3. PICK s : codex.child[c] = {s} /\ DOMAIN s = {"active", "closed", "turn"}
  BY <1>0, <1>2 DEF CodexType, Known
<1> DEFINE x == childTurnStatus(started, inbox[1].detail)
           v == [s EXCEPT !.turn = n, !.active = started]
           j == [codex EXCEPT !.child[c] = {v}, !.reported[c][n] = x,
                              !.stray = @ \/ codex.reported[c][n] # (IF started THEN "none" ELSE "in_progress")]
<1>4. codex' = finishIfReady(j)
  <2>1. tracked(codex, c) = s
    BY <1>3 DEF tracked
  <2> QED BY <1>1, <2>1 DEF childTurn
<1>5. started => x = "in_progress"
  BY DEF childTurnStatus
<1>6. DOMAIN v = {"active", "closed", "turn"} /\ (started => v.active)
  BY <1>3
<1> HIDE DEF x, v
<1>7. /\ DOMAIN j = CodexFields /\ j.status = codex.status /\ j.closing = codex.closing
      /\ j.cancelling = codex.cancelling /\ j.cancelRequested = codex.cancelRequested
      /\ j.rootOutcome = codex.rootOutcome /\ j.tools = codex.tools /\ j.code = codex.code
      /\ j.child = [codex.child EXCEPT ![c] = {v}]
      /\ j.reported = [codex.reported EXCEPT ![c][n] = x]
  BY <1>0 DEF CodexType, CodexFields
<1>8. j.stray = FALSE
  <2>1. j.stray = (codex.stray \/ codex.reported[c][n] # (IF started THEN "none" ELSE "in_progress"))
    BY <1>0 DEF CodexType, CodexFields
  <2> HIDE DEF j
  <2> QED BY <1>0, <1>2, <2>1
<1> HIDE DEF j
<1>9. Decides /\ OnlyStatus(j, codex')
  BY <1>0, <1>4, <1>7, FinishDecides DEF RootOutcome
<1>10. /\ codex'.child = [codex.child EXCEPT ![c] = {v}]
       /\ codex'.reported = [codex.reported EXCEPT ![c][n] = x]
       /\ codex'.rootOutcome = codex.rootOutcome /\ codex'.stray = FALSE
  BY <1>7, <1>8, <1>9 DEF OnlyStatus
<1>11. /\ DOMAIN codex'.child = SubThread
       /\ \A d \in SubThread : codex'.child[d] = {} \/ \E y : codex'.child[d] = {y} /\ DOMAIN y = {"active", "closed", "turn"}
       /\ Known' = Known \cup {c}
       /\ v.active => c \in active(codex)'
       /\ \A d \in SubThread : d # c => (d \in active(codex)' <=> d \in active(codex))
  BY <1>0, <1>6, <1>10, OneChild
<1>12. /\ DOMAIN codex'.reported = SubThread
       /\ \A d \in SubThread : DOMAIN codex'.reported[d] = 1..MaxChildTurn
       /\ codex'.reported[c][n] = x
       /\ \A d \in SubThread, i \in 1..MaxChildTurn : d # c \/ i # n => codex'.reported[d][i] = codex.reported[d][i]
  <2>1. DOMAIN codex.reported = SubThread /\ \A d \in SubThread : DOMAIN codex.reported[d] = 1..MaxChildTurn
    BY <1>0 DEF CodexType
  <2>2. PICK R, R1 : R = codex.reported /\ R1 = codex'.reported
    OBVIOUS
  <2>3. R1 = [R EXCEPT ![c] = [R[c] EXCEPT ![n] = x]]
    BY <1>10, <2>2
  <2>4. /\ DOMAIN R1 = SubThread /\ R1[c] = [R[c] EXCEPT ![n] = x]
        /\ \A d \in SubThread : d # c => R1[d] = R[d]
    BY <2>1, <2>2, <2>3
  <2>5. \A d \in SubThread : DOMAIN R[d] = 1..MaxChildTurn
    BY <2>1, <2>2
  <2>6. \A d \in SubThread : DOMAIN R1[d] = 1..MaxChildTurn
    BY ONLY <2>4, <2>5, c \in SubThread
  <2>7. R1[c][n] = x /\ \A i \in 1..MaxChildTurn : i # n => R1[c][i] = R[c][i]
    BY ONLY <2>4, <2>5, c \in SubThread, n \in 1..MaxChildTurn
  <2>8. \A d \in SubThread, i \in 1..MaxChildTurn : d # c \/ i # n => R1[d][i] = R[d][i]
    BY ONLY <2>4, <2>7
  <2> QED BY ONLY <2>2, <2>4, <2>6, <2>7, <2>8
<1>13. Children
  BY <1>10, <1>11, <1>12 DEF Children
<1>14. Hears
  <2>1. \A d \in SubThread, i \in 1..MaxChildTurn : d # c \/ i # n => ~Starts(1, d, i) /\ ~EndsTurn(1, d, i)
    BY <1>1 DEF Starts, EndsTurn, IsFrom
  <2>2. started \/ EndsTurn(1, c, n)
    BY <1>1 DEF EndsTurn, IsFrom
  <2>3. Starts(1, c, n) => started
    BY <1>1 DEF Starts, IsFrom
  <2>4. started => Starts(1, c, n)
    BY <1>1 DEF Starts, IsFrom
  <2>5. \A d \in SubThread : ~IsFrom(1, "thread/started", d)
    BY DEF IsFrom
  <2>6. \A d \in SubThread, i \in 1..MaxChildTurn :
          /\ Starts(1, d, i) => codex'.reported[d][i] = "in_progress"
          /\ ~Starts(1, d, i) /\ ~EndsTurn(1, d, i) => codex'.reported[d][i] = codex.reported[d][i]
    <3> TAKE d \in SubThread, i \in 1..MaxChildTurn
    <3>1. CASE d = c /\ i = n
      BY <1>5, <1>12, <2>2, <2>3, <2>4, <3>1
    <3>2. CASE d # c \/ i # n
      BY <1>12, <2>1, <3>2
    <3> QED BY <3>1, <3>2
  <2> QED BY <1>11, <2>5, <2>6 DEF Hears
<1>15. Learns
  <2>1. started \/ EndMark(1, c)
    BY <1>1 DEF EndMark, IsFrom
  <2>2. ~IsFrom(1, "thread/started", inbox[1].thread) /\ inbox[1].type # "collaboration"
    BY DEF IsFrom
  <2> QED BY <1>0, <1>6, <1>10, <1>11, <2>1, <2>2, LearnsOne
<1> QED BY <1>9, <1>13, <1>14, <1>15

LEMMA TracksChild ==
  ASSUME CodexType, NEW m, m.to \in SubThread
  PROVE  \/ trackChild(codex, m) = codex /\ m.to \notin Known /\ m.detail # "spawnAgent"
         \/ \E s : /\ DOMAIN s = {"active", "closed", "turn"}
                   /\ m.detail # "closeAgent" /\ (m.to \in Known => m.to \in active(codex)) => s.active
                   /\ trackChild(codex, m) = [codex EXCEPT !.child = [codex.child EXCEPT ![m.to] = {s}]]
<1> DEFINE c == m.to
           Told(s) == CASE m.detail = "closeAgent" -> [s EXCEPT !.closed = TRUE, !.active = FALSE]
                        [] m.detail = "sendInput" -> [s EXCEPT !.closed = FALSE]
                        [] OTHER -> s
<1>1. ASSUME NEW s, DOMAIN s = {"active", "closed", "turn"}
      PROVE  /\ DOMAIN Told(s) = {"active", "closed", "turn"}
             /\ m.detail # "closeAgent" /\ s.active => Told(s).active
  <2>1. CASE m.detail = "closeAgent"
    <3>1. Told(s) = [s EXCEPT !.closed = TRUE, !.active = FALSE]
      BY <2>1
    <3> QED BY <1>1, <2>1, <3>1
  <2>2. CASE m.detail = "sendInput"
    <3>1. Told(s) = [s EXCEPT !.closed = FALSE]
      BY <2>2
    <3> HIDE DEF Told
    <3> QED BY <1>1, <2>2, <3>1
  <2>3. CASE m.detail \notin {"closeAgent", "sendInput"}
    <3>1. Told(s) = s
      BY <2>3
    <3> HIDE DEF Told
    <3> QED BY <1>1, <2>3, <3>1
  <2> QED BY <2>1, <2>2, <2>3
<1>2. CASE known(codex, c)
  <2>1. PICK s : codex.child[c] = {s} /\ DOMAIN s = {"active", "closed", "turn"}
    BY <1>2 DEF CodexType, known
  <2>2. tracked(codex, c) = s
    BY <2>1 DEF tracked
  <2>3. trackChild(codex, m) = [codex EXCEPT !.child[c] = {Told(s)}]
    BY <1>2, <2>2 DEF trackChild
  <2>4. trackChild(codex, m) = [codex EXCEPT !.child = [codex.child EXCEPT ![c] = {Told(s)}]]
    BY <2>3
  <2>5. c \in Known /\ (c \in active(codex) => s.active)
    BY <1>2, <2>1 DEF known, Known, active
  <2> HIDE DEF Told
  <2> QED BY <1>1, <2>1, <2>4, <2>5
<1>3. CASE ~known(codex, c) /\ m.detail = "spawnAgent"
  <2> DEFINE j == [codex EXCEPT !.child = [codex.child EXCEPT ![c] = {NewChild}]]
  <2>1. j.child[c] = {NewChild} /\ known(j, c)
    BY DEF known, CodexType, CodexFields
  <2>2. tracked(j, c) = NewChild
    BY <2>1 DEF tracked
  <2>3. trackChild(codex, m) = [j EXCEPT !.child[c] = {Told(NewChild)}]
    BY <1>3, <2>1, <2>2 DEF trackChild
  <2>4. DOMAIN NewChild = {"active", "closed", "turn"} /\ NewChild.active
    BY DEF NewChild
  <2>5. Told(NewChild) = NewChild
    BY <1>3
  <2>6. trackChild(codex, m) = [codex EXCEPT !.child = [codex.child EXCEPT ![c] = {NewChild}]]
    BY <2>3, <2>5 DEF CodexType, CodexFields
  <2> QED BY <2>4, <2>6
<1>4. CASE ~known(codex, c) /\ m.detail # "spawnAgent"
  BY <1>4 DEF trackChild, known, Known
<1> QED BY <1>2, <1>3, <1>4

LEMMA TakesTool ==
  ASSUME Reading, inbox[1].type = "collaboration"
  PROVE  Decides /\ Children /\ Hears /\ Learns
<1> DEFINE m == inbox[1]
<1>0. /\ CodexInv /\ RootOutcome /\ Listens /\ CodexType /\ InboxType /\ 1 \in 1..Len(inbox) /\ ~Asks
      /\ codex.stray = FALSE
  BY DEF Reading, CodexInv, Shifts, Asks, Scoped
<1>1. codex' = emitItem(trackChild(codex, m), m)
  BY DEF Reading, dispatch, collaboration
<1>2. m.thread = Root \/ (m.thread \in SubThread /\ m.thread \in Known /\ codex.reported[m.thread][m.turn] = "in_progress")
  BY <1>0, HeadScoped DEF InboxType, Thread
<1>3. m.to \in SubThread
  BY <1>0 DEF InboxType
<1>4. CASE trackChild(codex, m) = codex /\ m.to \notin Known /\ m.detail # "spawnAgent"
  <2>1. codex' = codex
    BY <1>1, <1>2, <1>4, EmitsNothing DEF known, Known
  <2> QED BY <1>0, <1>4, <2>1, SameDecides, SameLearns
<1>5. ASSUME NEW s, DOMAIN s = {"active", "closed", "turn"},
             m.detail # "closeAgent" /\ (m.to \in Known => m.to \in active(codex)) => s.active,
             trackChild(codex, m) = [codex EXCEPT !.child = [codex.child EXCEPT ![m.to] = {s}]]
      PROVE  Decides /\ Children /\ Hears /\ Learns
  <2>0. PICK c \in SubThread : c = m.to
    BY <1>3
  <2> DEFINE j == [codex EXCEPT !.child = [codex.child EXCEPT ![c] = {s}]]
  <2>1. /\ DOMAIN j = CodexFields /\ j.status = codex.status /\ j.closing = codex.closing
        /\ j.cancelling = codex.cancelling /\ j.cancelRequested = codex.cancelRequested
        /\ j.rootOutcome = codex.rootOutcome /\ j.tools = codex.tools /\ j.code = codex.code
        /\ j.child = [codex.child EXCEPT ![c] = {s}] /\ j.stray = codex.stray
        /\ j.reported = codex.reported
    BY <1>0 DEF CodexType, CodexFields
  <2>2. trackChild(codex, m) = j
    BY <1>5, <2>0
  <2> HIDE DEF j
  <2>3. \A d \in Known : j.child[d] # {} /\ d \in SubThread
    BY <1>0, <2>1 DEF CodexType, Known
  <2>4. codex' = j
    <3>1. m.thread = Root \/ (known(j, m.thread) /\ j.reported[m.thread][m.turn] = "in_progress")
      BY <1>2, <2>1, <2>3 DEF known
    <3>2. emitItem(j, m) = j
      BY <3>1, EmitsNothing
    <3> QED BY <1>1, <2>2, <3>2
  <2>5. /\ DOMAIN codex'.child = SubThread
        /\ \A d \in SubThread : codex'.child[d] = {} \/ \E x : codex'.child[d] = {x} /\ DOMAIN x = {"active", "closed", "turn"}
        /\ Known' = Known \cup {c}
        /\ s.active => c \in active(codex)'
        /\ \A d \in SubThread : d # c => (d \in active(codex)' <=> d \in active(codex))
    BY <1>0, <1>5, <2>1, <2>4, OneChild
  <2>6. Decides
    BY <1>0, <2>1, <2>4 DEF Decides, RootOutcome, CodexType, Listens, Active
  <2>7. Children
    BY <1>0, <2>1, <2>4, <2>5 DEF Children, CodexType
  <2>8. Hears
    BY <2>1, <2>4, <2>5 DEF Hears, IsFrom, Starts
  <2>9. m.detail = "closeAgent" => EndMark(1, c)
    BY <2>0 DEF EndMark
  <2>10. Learns
    BY <1>0, <1>5, <2>0, <2>1, <2>4, <2>5, <2>9, LearnsOne DEF IsFrom
  <2> QED BY <2>6, <2>7, <2>8, <2>10
<1> QED BY <1>0, <1>3, <1>4, <1>5, TracksChild

LEMMA Takes ==
  ASSUME Reading PROVE Decides /\ Children /\ Hears /\ Learns
<1> DEFINE m == inbox[1]
<1>0. InboxType /\ 1 \in 1..Len(inbox)
  BY DEF Reading, CodexInv, Shifts
<1>1. CASE m.type = "turn/started"
  <2>1. m.thread \in SubThread /\ known(codex, m.thread)
    BY <1>0, <1>1, HeadScoped DEF InboxType, known, Known
  <2>2. codex' = childTurn(codex, m, TRUE)
    BY <1>1, <2>1 DEF Reading, dispatch, turnStarted
  <2> QED BY <1>1, <2>1, <2>2, TakesChildTurn
<1>2. CASE m.type = "turn/completed" /\ m.thread # Root
  <2>1. m.thread \in SubThread /\ known(codex, m.thread)
    BY <1>0, <1>2, HeadScoped DEF InboxType, known, Known, Thread
  <2>2. codex' = childTurn(codex, m, FALSE)
    BY <1>2, <2>1 DEF Reading, dispatch, turnCompleted
  <2> QED BY <1>2, <2>1, <2>2, TakesChildTurn
<1> QED BY <1>0, <1>1, <1>2, TakesAnnouncement, TakesItem, TakesCall, TakesRoot, TakesTool DEF InboxType

LEMMA ReceiveStep == ASSUME CodexInv, RootOutcome, receive PROVE CodexInv' /\ RootOutcome'
<1> DEFINE m == inbox[1]
<1>0. /\ CodexType /\ InboxType /\ Cancels /\ Places /\ AwaitsResults /\ Scoped /\ InOrder
      /\ CompletesQuiet
  BY DEF CodexInv
<1>1. native.alive /\ inbox # <<>> /\ inbox' = Tail(inbox) /\ UNCHANGED <<control, seen>>
  BY DEF receive
<1>2. Shifts /\ InboxType' /\ Head(inbox) = inbox[1]
  BY <1>0, <1>1, InboxShifts
<1>3. CASE codex.status \notin Active
  <2>1. UNCHANGED <<codex, rpc, native, code>>
    BY <1>3 DEF receive
  <2>2. CodexType' /\ Cancels' /\ AwaitsResults' /\ CompletesQuiet'
    BY <1>0, <1>1, <2>1 DEF CodexType, Cancels, AwaitsResults, CompletesQuiet
  <2>3. Scoped' /\ InOrder'
    BY <1>0, <1>3, <2>1 DEF Scoped, InOrder, Listens
  <2>4. Places'
    <3>1. \A k : Coded(k)' <=> Coded(k)
      BY <2>1 DEF Coded
    <3>2. \A k \in CodexCall : m.type = "call" /\ m.to = k =>
            k \notin codex.tools /\ ~Coded(k) /\ native.call[k].answers \in {0, 1}
      BY <1>0, <1>2 DEF Places, Calling, Shifts
    <3> QED BY <1>0, <1>2, <2>1, <3>1, <3>2, PlacesRead
  <2> QED BY <1>2, <2>1, <2>2, <2>3, <2>4 DEF CodexInv, RootOutcome
<1>4. CASE codex.status \in Active
  <2>1. ~codex.closing /\ Listens
    BY <1>0, <1>1, <1>4 DEF Cancels, Listens, Active, Terminal
  <2>2. /\ codex' = dispatch(codex, m) /\ rpc' = rpc \cup Interrupts(m)
        /\ native' = IF m.type = "call" /\ m.detail = "ask" THEN Answered(m.to) ELSE native
        /\ code' = IF m.type = "call" /\ m.detail \in {"code", "delegate"}
                   THEN [code EXCEPT ![m.to] = m.detail] ELSE code
    BY <1>2, <1>4, <2>1 DEF receive
  <2>3. Reading
    BY <1>2, <2>1, <2>2 DEF Reading
  <2>4. Decides /\ Children /\ Hears /\ Learns
    BY <2>3, Takes
  <2>5. /\ Calmed /\ native'.interrupted = native.interrupted
        /\ DOMAIN native'.call = CodexCall
        /\ \A l \in CodexCall : DOMAIN native'.call[l] = {"by", "answers"}
        /\ \A l \in CodexCall : ~(m.type = "call" /\ m.to = l) => native'.call[l] = native.call[l]
        /\ \A l \in CodexCall : m.type = "call" /\ m.to = l /\ m.detail # "ask" =>
             native'.call[l] = native.call[l]
        /\ \A l \in CodexCall : m.type = "call" /\ m.to = l /\ m.detail = "ask" =>
             native'.call[l].answers = native.call[l].answers + 1
    <3>1. CASE m.type = "call" /\ m.detail = "ask"
      <4>1. m.to \in CodexCall /\ native' = Answered(m.to)
        BY <1>0, <1>2, <2>2, <3>1 DEF InboxType, Shifts
      <4> QED BY <1>0, <3>1, <4>1, CalmAnswer
    <3>2. CASE ~(m.type = "call" /\ m.detail = "ask")
      <4>1. native' = native
        BY <2>2, <3>2
      <4> QED BY <1>0, <3>2, <4>1, CalmSame
    <3> QED BY <3>1, <3>2
  <2>6. /\ DOMAIN code' = CodexCall
        /\ \A l \in CodexCall : ~(m.type = "call" /\ m.to = l) => (Coded(l)' <=> Coded(l))
        /\ \A l \in CodexCall : m.type = "call" /\ m.to = l /\ m.detail \notin {"code", "delegate"} =>
             (Coded(l)' <=> Coded(l))
    <3>1. CASE m.type = "call" /\ m.detail \in {"code", "delegate"}
      <4>1. m.to \in CodexCall /\ code' = [code EXCEPT ![m.to] = m.detail]
        BY <1>0, <1>2, <2>2, <3>1 DEF InboxType, Shifts
      <4> QED BY <1>0, <3>1, <4>1 DEF CodexType, Coded
    <3>2. CASE ~(m.type = "call" /\ m.detail \in {"code", "delegate"})
      <4>1. code' = code
        BY <2>2, <3>2
      <4> QED BY <1>0, <3>2, <4>1 DEF CodexType, Coded
    <3> QED BY <3>1, <3>2
  <2>7. CodexType'
    BY <1>0, <1>1, <2>4, <2>5, <2>6 DEF CodexType, Decides, Children, Calmed
  <2>8. Cancels'
    <3>1. /\ codex'.closing = codex.closing /\ codex'.cancelling = codex.cancelling
          /\ codex'.cancelRequested = codex.cancelRequested
          /\ codex'.status = "completed" => ~codex.cancelling
      BY <2>4 DEF Decides
    <3>2. ~codex.cancelRequested => Interrupts(m) = {}
      BY DEF Interrupts
    <3> QED BY <1>0, <1>1, <2>1, <2>2, <2>5, <3>1, <3>2 DEF Cancels
  <2>9. Places'
    <3>1. \A k \in CodexCall : m.type = "call" /\ m.to = k =>
            k \notin codex.tools /\ ~Coded(k) /\ native.call[k].answers = 0
      BY <1>0, <1>2 DEF Places, Calling, Shifts
    <3>2. \A k \in CodexCall : ~(m.type = "call" /\ m.to = k) =>
            /\ native'.call[k] = native.call[k] /\ (k \in codex'.tools <=> k \in codex.tools)
            /\ (Coded(k)' <=> Coded(k))
      BY <2>4, <2>5, <2>6 DEF Decides, Asks
    <3>3. ASSUME NEW k \in CodexCall, m.type = "call", m.to = k
          PROVE  /\ native'.call[k].answers \in {0, 1}
                 /\ k \in codex'.tools \/ Coded(k)' =>
                      native'.call[k].answers = 0 /\ native'.call[k].by = native.call[k].by
                 /\ k \in codex'.tools => ~Coded(k)'
      <4>1. m.detail # "function" => codex'.tools = codex.tools
        BY <2>4 DEF Decides, Asks
      <4>2. CASE m.detail = "ask"
        BY <2>5, <2>6, <3>1, <3>3, <4>1, <4>2
      <4>3. CASE m.detail \in {"code", "delegate"}
        BY <2>5, <3>1, <3>3, <4>1, <4>3
      <4>4. CASE m.detail \notin {"ask", "code", "delegate"}
        BY <2>5, <2>6, <3>1, <3>3, <4>4
      <4> QED BY <4>2, <4>3, <4>4
    <3> QED BY <1>0, <1>2, <3>2, <3>3, PlacesRead
  <2>10. AwaitsResults'
    BY <1>0, <1>4, <2>4 DEF AwaitsResults, Decides
  <2>11. Scoped'
    BY <1>0, <1>2, <2>1, <2>4, <2>5, ScopesRead DEF Children, Calmed
  <2>12. ~codex.cancelRequested /\ seen.resumed = {} => Ordered'
    BY <1>0, <1>2, <2>1, <2>4, <2>5, OrderRead DEF InOrder, Ordered, Calmed
  <2>13. InOrder'
    <3>1. codex'.cancelRequested = codex.cancelRequested /\ seen' = seen
      BY <1>1, <2>4 DEF Decides
    <3> QED BY <2>12, <3>1 DEF InOrder, Ordered
  <2>14. CompletesQuiet'
    <3> SUFFICES ASSUME codex'.status = "completed", seen'.resumed = {}
                 PROVE \A c \in SubThread : native'.state[c] \in {"none", "idle", "closed"} \/ c \in native'.closing
      BY DEF CompletesQuiet
    <3>1. ~codex.cancelling /\ codex'.rootOutcome # {} /\ active(codex)' = {}
      BY <2>4 DEF Decides
    <3>2. Ordered'
      BY <1>0, <1>1, <2>12, <3>1 DEF Cancels
    <3>3. Wound'
      BY <1>2, <2>7, <3>1, <3>2 DEF Wound
    <3> QED BY <3>3, QuietNext DEF Quiet
  <2> QED BY <1>2, <2>4, <2>7, <2>8, <2>9, <2>10, <2>11, <2>13, <2>14 DEF CodexInv, Decides
<1> QED BY <1>3, <1>4

\* The root's outcome is one of two, and only a cancellation changes it besides the messages.
LEMMA OutcomeStep ==
  ASSUME CodexInv, RootOutcome, CodexNext PROVE RootOutcome'
<1>0. DOMAIN codex = CodexFields
  BY DEF CodexInv, CodexType
<1>k. CASE codex'.rootOutcome = codex.rootOutcome
  BY <1>k DEF RootOutcome
<1>1. CASE AppServer
  <2>1. codex' = codex
    BY <1>1 DEF AppServer, Spawns, Follows, Closes, Announces, TurnStarts, Reports, Item, NativeEnds, Calls
  <2> QED BY <1>k, <2>1
<1>2. CASE receive
  BY <1>2, ReceiveStep
<1>3. CASE exited
  BY <1>0, <1>3, <1>k, JobFails DEF exited, OnlyStatus
<1>4. ASSUME NEW k \in CodexCall, codeTool(k) \/ applyTool(k) \/ answerCode(k) PROVE RootOutcome'
  <2>1. PICK j, s : /\ codex' = setStatus(j, s) /\ DOMAIN j = CodexFields
                    /\ j.rootOutcome = codex.rootOutcome
    BY <1>0, <1>4 DEF codeTool, applyTool, answerCode, settleWaiting, CodexFields
  <2> QED BY <1>k, <2>1, StatusSet DEF OnlyStatus
<1>5. ASSUME NEW k \in CodexCall, NEW e, NEW u, delegated(k) \/ respondCode(k, e, u) PROVE RootOutcome'
  <2>1. codex' = codex \/ codex' = fail(codex)
    BY <1>5 DEF delegated, respondCode
  <2> QED BY <1>0, <1>k, <2>1, JobFails DEF OnlyStatus
<1>6. CASE cancelTurn
  <2>1. codex'.rootOutcome = IF codex.rootOutcome = {} THEN codex.rootOutcome ELSE {"cancelled"}
    BY <1>0, <1>6 DEF cancelTurn, CodexFields
  <2> QED BY <2>1 DEF RootOutcome
<1>7. CASE steerTurn \/ cancelRoot \/ (\E c \in SubThread : cancelChild(c))
  <2>1. codex'.rootOutcome = codex.rootOutcome
    BY <1>0, <1>7 DEF steerTurn, cancelRoot, cancelChild, CodexFields
  <2> QED BY <1>k, <2>1
<1>8. CASE cancelDone
  BY <1>0, <1>8, <1>k, Finishes DEF cancelDone, OnlyStatus
<1>9. CASE stop
  <2>1. codex'.rootOutcome = codex.rootOutcome
    BY <1>0, <1>9 DEF stop, close, CodexFields
  <2> QED BY <1>k, <2>1
<1>10. ASSUME NEW r, answers(r) PROVE RootOutcome'
  BY <1>10, <1>k DEF answers
<1> QED BY <1>1, <1>2, <1>3, <1>4, <1>5, <1>6, <1>7, <1>8, <1>9, <1>10 DEF CodexNext, Control, Runner

LEMMA CodexStep == CodexInv /\ RootOutcome /\ [CodexNext]_codexVars => (CodexInv /\ RootOutcome)'
<1> SUFFICES ASSUME CodexInv, RootOutcome, [CodexNext]_codexVars PROVE CodexInv' /\ RootOutcome'
  OBVIOUS
<1>1. CASE UNCHANGED codexVars
  <2>1. CodexType' /\ InboxType' /\ Cancels' /\ RootOutcome'
    BY <1>1 DEF CodexInv, codexVars, CodexType, InboxType, Cancels, RootOutcome
  <2>2. Places' /\ AwaitsResults' /\ CompletesQuiet'
    BY <1>1 DEF CodexInv, codexVars, Places, Calling, Coded, AwaitsResults, CompletesQuiet
  <2>3. Scoped'
    BY <1>1, ScopesKept DEF CodexInv, codexVars
  <2>4. InOrder'
    BY <1>1, OrderKept DEF CodexInv, codexVars
  <2> QED BY <2>1, <2>2, <2>3, <2>4 DEF CodexInv
<1>2. CASE CodexNext
  <2>1. AppServer \/ exited => CodexInv'
    BY AppServerStep, ExitStep
  <2>2. \A k \in CodexCall : applyTool(k) \/ answerCode(k) => CodexInv'
    BY ApplyToolStep, AnswerCodeStep
  <2>3. \A k \in CodexCall : codeTool(k) \/ delegated(k) => CodexInv'
    BY CodeToolStep, DelegatedStep
  <2>4. \A k \in CodexCall : \A e, u : respondCode(k, e, u) => CodexInv'
    BY RespondStep
  <2>5. steerTurn \/ cancelTurn \/ cancelRoot \/ cancelDone \/ stop => CodexInv'
    BY SteerStep, CancelStep, CancelRootStep, CancelDoneStep, StopStep
  <2>6. \A c \in SubThread : cancelChild(c) => CodexInv'
    BY CancelChildStep
  <2>7. \A r : answers(r) => CodexInv'
    BY AnswerStep
  <2>8. receive => CodexInv'
    BY ReceiveStep
  <2>9. CodexInv'
    BY <1>2, <2>1, <2>2, <2>3, <2>4, <2>5, <2>6, <2>7, <2>8 DEF CodexNext, Control, Runner
  <2> QED BY <1>2, <2>9, OutcomeStep
<1> QED BY <1>1, <1>2

LEMMA CodexAccounts == CodexInv => CompletesQuiet /\ EveryMessageAccounted
<1> SUFFICES ASSUME CodexInv PROVE CompletesQuiet /\ EveryMessageAccounted
  OBVIOUS
<1>1. ScopedToOpenTurn
  BY DEF CodexInv, Scoped, ScopedToOpenTurn
<1>2. \A k \in CodexCall : native.call[k].answers <= 1
  BY DEF CodexInv, Places
<1>3. AnsweredOnce
  BY <1>2 DEF CodexInv, AwaitsResults, AnsweredOnce, Listening
<1> QED BY <1>1, <1>3 DEF EveryMessageAccounted, CodexInv

LEMMA HandoverAlways == HandoverSpec => [](CodexInv /\ RootOutcome)
<1>1. HandoverInit => CodexInv /\ RootOutcome
  <2>1. CodexInit => RootOutcome
    BY DEF CodexInit, RootOutcome
  <2> QED BY <2>1, CodexStart DEF HandoverInit
<1>2. CodexInv /\ RootOutcome /\ [HandoverNext]_<<part, vars, codexVars>> => (CodexInv /\ RootOutcome)'
  <2>1. [HandoverNext]_<<part, vars, codexVars>> => [CodexNext]_codexVars
    BY DEF HandoverNext
  <2> QED BY <2>1, CodexStep
<1> QED BY <1>1, <1>2, PTL DEF HandoverSpec

\* A Codex turn that completed left no subagent at work, however many threads it spawned and
\* in whatever order their notifications and the root's came (CompletesQuiet).
THEOREM CodexCompletesQuiet == HandoverSpec => []CompletesQuiet
<1>1. CodexInv => CompletesQuiet
  BY CodexAccounts
<1> QED BY <1>1, HandoverAlways, PTL

\* An event names the thread it came from and a turn of it that is open; a request of the
\* app-server is answered once, and the job waits exactly while a result is owed.
THEOREM CodexMessagesAccounted == HandoverSpec => []EveryMessageAccounted
<1>1. CodexInv => EveryMessageAccounted
  BY CodexAccounts
<1> QED BY <1>1, HandoverAlways, PTL

=============================================================================
