----------------------------- MODULE ToolsProofs -----------------------------
(***************************************************************************)
(* Proofs about what the tools of a turn run outside its job: Commands,    *)
(* for any set of requests, Code, for any set of tool calls and any        *)
(* limits, and Delegation, for any set of children, any limit and logs of  *)
(* any length.                                                             *)
(*                                                                         *)
(* CommandsContained is not inductive: that no command runs outside its    *)
(* turn rests on who holds the permit while one is on its way, and that a  *)
(* result is whole rests on why each kill was sent.  CommandsInv adds      *)
(* both, with what each end of the stream knows of the other.              *)
(*                                                                         *)
(* Nor is NoHiddenEffects.  The bridge of the code may forget no call: one *)
(* that failed or was refused left a doubt, and a verdict that lets the    *)
(* turn go on found neither a doubt nor an open call, and closed the       *)
(* bridge behind it.                                                       *)
(*                                                                         *)
(* Of Delegation, RelayedWhole speaks of what was said and of the child's  *)
(* log; a page that is under way, or stored with a terminal row, stands    *)
(* between the two, so each page is kept related to the log and to the     *)
(* cursor of the relay (PageOf), and the cursor to what was said           *)
(* (Faithful).  ChildrenSettleFirst speaks of the order of what was said;  *)
(* every write of a record says its part (Kept).  ChildrenBounded speaks   *)
(* of a stop; a stop under way accounts for each child that still works    *)
(* (StopShape).  The proof of its step has three layers: what one operator *)
(* does to one record (...Keeps), what any step may do to one variable     *)
(* (...GoesOn, ...Step), and from these the conjuncts of the invariant.    *)
(***************************************************************************)
EXTENDS Commands, Code, Delegation, SequenceTheorems, FiniteSetTheorems, TLAPS


-----------------------------------------------------------------------------
(* Commands                                                                *)

CommandsTypeOK ==
  /\ kind \in [Requests -> {"bash", "file", "edit"}]
  /\ turnState \in {"current", "revoked", "superseded"}
  /\ permit \in Requests \cup {"free"}
  /\ request \in [Requests -> {"none", "open", "result", "failed", "cancelled"}]
  /\ op \in [Requests -> {"none", "queued", "calling", "abandoned", "reading", "deaf", "over"}]
  /\ command \in [Requests -> {"none", "asked", "booting", "execing", "running", "over"}]
  /\ halted \subseteq Requests /\ listening \subseteq Requests /\ killing \subseteq Requests
  /\ group \in [Requests -> {"none", "running", "gone"}]
  /\ output \in [Requests -> {"within", "truncated"}]
  /\ ending \in [Requests -> {"none", "exit", "timeout", "lost", "killed"}]
  /\ line \in [Requests -> {"none", "result", "error"}]

\* A command is under way at the SandboxDO.
UnderWay(r) == command[r] \in {"asked", "booting", "execing", "running"}

\* A request is open as long as its operation serves it; nothing is asked of the
\* SandboxDO before the permit was there.
RequestShape ==
  \A r \in Requests :
    /\ request[r] = "none" => op[r] = "none"
    /\ request[r] = "open" <=> op[r] \in {"queued", "calling", "reading"}
    /\ op[r] \in {"none", "queued"} => command[r] = "none"

\* A command under way holds the permit or was dropped by its caller.
PermitKept ==
  \A r \in Requests : UnderWay(r) /\ request[r] # "cancelled" => permit = r

\* Once the turn is stopped only dropped commands are under way.
StopWaits ==
  turnState # "current" => \A r \in Requests : UnderWay(r) => request[r] = "cancelled"

\* The process, the stream's last line and the SandboxDO's progress agree.
StreamShape ==
  \A r \in Requests :
    /\ group[r] = "running" => command[r] = "running"
    /\ line[r] # "none" => command[r] = "over"
    /\ group[r] = "gone" <=> ending[r] # "none"
    /\ command[r] \in {"none", "asked", "booting", "execing"} => group[r] = "none"
    /\ request[r] = "result" => line[r] = "result"

\* A kill has a cause that fails the command; a result has none.
KillsHaveCause ==
  \A r \in Requests :
    /\ r \in listening => kind[r] = "bash"
    /\ r \in killing \/ (ending[r] = "killed" /\ command[r] = "running") =>
         output[r] = "truncated" \/ (kind[r] = "bash" /\ r \in halted)
    /\ line[r] = "result" => ending[r] = "exit" /\ output[r] = "within"

CommandsInv ==
  CommandsTypeOK /\ RequestShape /\ PermitKept /\ StopWaits /\ StreamShape /\ KillsHaveCause

\* What the invariant says of the property.
LEMMA CommandsInvContains == CommandsInv => CommandsContained
<1> SUFFICES ASSUME CommandsInv PROVE CommandsContained
  OBVIOUS
<1> USE DEF CommandsInv
<1>1. CommandsKeepToTheirTurn
  BY DEF CommandsKeepToTheirTurn, StopWaits, StreamShape, UnderWay
<1>2. EndedCommandsAreGone
  BY DEF EndedCommandsAreGone, StreamShape
<1>3. ResultsAreWhole
  BY DEF ResultsAreWhole, StreamShape, KillsHaveCause
<1> QED BY <1>1, <1>2, <1>3 DEF CommandsContained

\* Nothing has been asked for at first.
LEMMA CommandsInvInit == CommandsInit => CommandsInv
BY DEF CommandsInit, CommandsInv, CommandsTypeOK, RequestShape, PermitKept, StopWaits,
       StreamShape, KillsHaveCause, UnderWay

\* Every step keeps the invariant.
LEMMA CommandsInvStep == CommandsInv /\ [CommandsNext]_commandVars => CommandsInv'
<1> SUFFICES ASSUME CommandsInv, [CommandsNext]_commandVars PROVE CommandsInv'
  OBVIOUS
<1> USE CommandsAssumption
        DEF CommandsInv, CommandsTypeOK, RequestShape, PermitKept, StopWaits, StreamShape,
            KillsHaveCause, UnderWay, harnessSide, processSide, sandboxSide
<1>1. ASSUME NEW r \in Requests, Receive(r) PROVE CommandsInv'
  BY <1>1 DEF Receive
<1>2. ASSUME NEW r \in Requests, Operate(r) PROVE CommandsInv'
  BY <1>2 DEF Operate, StillCurrent, Fail
<1>3. ASSUME NEW r \in Requests, Follow(r) PROVE CommandsInv'
  BY <1>3 DEF Follow
<1>4. ASSUME NEW r \in Requests, Answer(r) PROVE CommandsInv'
  BY <1>4 DEF Answer, Released
<1>5. ASSUME NEW r \in Requests, Cancel(r) PROVE CommandsInv'
  <2>1. request[r] = "open" /\ op[r] \in {"queued", "calling", "reading"}
    BY <1>5 DEF Cancel
  <2>2. CASE op[r] = "queued"
    BY <1>5, <2>1, <2>2 DEF Cancel, Released
  <2>3. CASE op[r] = "calling"
    BY <1>5, <2>1, <2>3 DEF Cancel, Released
  <2>4. CASE op[r] = "reading"
    BY <1>5, <2>1, <2>4 DEF Cancel, Released
  <2> QED BY <2>1, <2>2, <2>3, <2>4
<1>6. CASE HarnessStops
  BY <1>6 DEF HarnessStops
<1>7. CASE Supersede
  BY <1>7 DEF Supersede
<1>8. ASSUME NEW r \in Requests, BeginTool(r) PROVE CommandsInv'
  BY <1>8 DEF BeginTool
<1>9. ASSUME NEW r \in Requests, StartCommand(r) PROVE CommandsInv'
  BY <1>9 DEF StartCommand, Says
<1>10. ASSUME NEW r \in Requests, Exec(r) PROVE CommandsInv'
  BY <1>10 DEF Exec
<1>11. ASSUME NEW r \in Requests, Overflow(r) PROVE CommandsInv'
  BY <1>11 DEF Overflow
<1>12. ASSUME NEW r \in Requests, GroupEnds(r) PROVE CommandsInv'
  BY <1>12 DEF GroupEnds
<1>13. ASSUME NEW r \in Requests, EditGoesOn(r) PROVE CommandsInv'
  BY <1>13 DEF EditGoesOn, Result
<1>14. ASSUME NEW r \in Requests, RunReturns(r) PROVE CommandsInv'
  BY <1>14 DEF RunReturns, Says, Result
<1>15. ASSUME NEW r \in Requests, Break(r) PROVE CommandsInv'
  BY <1>15 DEF Break, Says
<1>16. CASE UNCHANGED commandVars
  BY <1>16 DEF commandVars
<1> QED
  BY <1>1, <1>2, <1>3, <1>4, <1>5, <1>6, <1>7, <1>8, <1>9, <1>10, <1>11, <1>12, <1>13,
     <1>14, <1>15, <1>16 DEF CommandsNext

\* A command runs in its own turn only, is gone when its call is over and is answered for
\* by all it said: sandboxRequest, workspaceTool and exec.run, for any number of requests.
THEOREM CommandsStayContained == CommandsSpec => []CommandsContained
<1>1. CommandsInit => CommandsInv
  BY CommandsInvInit
<1>2. CommandsInv /\ [CommandsNext]_commandVars => CommandsInv'
  BY CommandsInvStep
<1>3. CommandsInv => CommandsContained
  BY CommandsInvContains
<1> QED BY <1>1, <1>2, <1>3, PTL DEF CommandsSpec

-----------------------------------------------------------------------------
(* Code                                                                    *)

CodeTypeOK ==
  /\ assigned \in {"current", "revoked", "superseded"}
  /\ parentJob \in {"running", "failed"}
  /\ runner \in {"idle", "asked", "running", "decided", "over"}
  /\ program \in {"none", "running", "returned", "thrown"}
  /\ invocation \in BOOLEAN /\ aborted \in BOOLEAN /\ doubt \in BOOLEAN
  /\ toolCall \in [ToolCalls -> {"none", "sent", "answered", "confirmed", "broken", "refused"}]
  /\ performed \subseteq ToolCalls
  /\ verdict \in {"none", "ok", "failed", "uncertain"}
  /\ told \in {"none", "result", "error"}

\* Before the isolate runs nothing was called.
NotBegun ==
  runner \in {"idle", "asked"} =>
    program = "none" /\ verdict = "none" /\ \A c \in ToolCalls : toolCall[c] = "none"

\* A call that did not end well left a doubt; what was performed was called.
DoubtsKept ==
  \A c \in ToolCalls :
    /\ toolCall[c] \in {"broken", "refused"} => doubt
    /\ c \in performed => toolCall[c] \notin {"none", "refused"}

\* A verdict that lets the turn go on found every call settled, and no other follows.
VerdictSettles ==
  verdict \in {"ok", "failed"} =>
    aborted /\ \A c \in ToolCalls : toolCall[c] \in {"none", "confirmed"}

\* The runtime is told of such a verdict only.
ToldVerdict ==
  /\ runner = "decided" => verdict # "none"
  /\ told # "none" => runner = "over" /\ verdict \in {"ok", "failed"}

CodeInv == CodeTypeOK /\ NotBegun /\ DoubtsKept /\ VerdictSettles /\ ToldVerdict

\* Nothing has been called at first.
LEMMA CodeInvInit == CodeInit => CodeInv
BY DEF CodeInit, CodeInv, CodeTypeOK, NotBegun, DoubtsKept, VerdictSettles, ToldVerdict

\* Every step keeps the invariant.
LEMMA CodeInvStep == CodeInv /\ [CodeNext]_codeVars => CodeInv'
<1> SUFFICES ASSUME CodeInv, [CodeNext]_codeVars PROVE CodeInv'
  OBVIOUS
<1> USE DEF CodeInv, CodeTypeOK, NotBegun, DoubtsKept, VerdictSettles, ToldVerdict,
            supervisorSide, bridgeSide
<1>1. CASE Execute
  BY <1>1 DEF Execute
<1>2. CASE Returns
  BY <1>2 DEF Returns, codeLeftCallsOpen
<1>3. CASE RunnerLost
  BY <1>3 DEF RunnerLost
<1>4. CASE BeginCode
  BY <1>4 DEF BeginCode
<1>5. CASE BeginFails
  BY <1>5 DEF BeginFails
<1>6. CASE ProgramEnds
  BY <1>6 DEF ProgramEnds
<1>7. CASE Abort
  BY <1>7 DEF Abort
<1>8. CASE Unassign
  BY <1>8 DEF Unassign
<1>9. CASE Decide
  <2>1. /\ verdict' \in {"ok", "failed", "uncertain"}
        /\ verdict' # "uncertain" => ~doubt /\ OpenCalls = {}
    BY <1>9 DEF Decide, Verdicts, uncertain
  <2>2. OpenCalls = {} => \A c \in ToolCalls : toolCall[c] \notin {"sent", "answered"}
    BY DEF OpenCalls
  <2>3. verdict' # "uncertain" => \A c \in ToolCalls : toolCall[c] \in {"none", "confirmed"}
    BY <2>1, <2>2
  <2>4. /\ runner = "running" /\ runner' = "decided" /\ aborted' = TRUE
        /\ assigned' \in {assigned, "revoked"}
        /\ UNCHANGED <<parentJob, invocation, performed, told, program, toolCall, doubt>>
    BY <1>9 DEF Decide
  <2>5. told = "none"
    BY <2>4
  <2> QED BY <2>1, <2>3, <2>4, <2>5
<1>10. ASSUME NEW c \in ToolCalls, codeTool(c) PROVE CodeInv'
  BY <1>10 DEF codeTool
<1>11. ASSUME NEW c \in ToolCalls, Call(c) PROVE CodeInv'
  BY <1>11 DEF Call, Bridged
<1>12. ASSUME NEW c \in ToolCalls, Answers(c) PROVE CodeInv'
  BY <1>12 DEF Answers
<1>13. ASSUME NEW c \in ToolCalls, Confirmed(c) PROVE CodeInv'
  <2>1. CASE aborted
    <3>1. toolCall' = [toolCall EXCEPT ![c] = "broken"] /\ doubt' = TRUE
      BY <1>13, <2>1 DEF Confirmed
    <3> QED BY <1>13, <2>1, <3>1 DEF Confirmed
  <2>2. CASE ~aborted
    <3>1. toolCall' = [toolCall EXCEPT ![c] = "confirmed"] /\ doubt' = doubt
      BY <1>13, <2>2 DEF Confirmed
    <3> QED BY <1>13, <2>2, <3>1 DEF Confirmed
  <2> QED BY <2>1, <2>2
<1>14. ASSUME NEW c \in ToolCalls, Breaks(c) PROVE CodeInv'
  BY <1>14 DEF Breaks
<1>15. CASE UNCHANGED codeVars
  BY <1>15 DEF codeVars
<1> QED
  BY <1>1, <1>2, <1>3, <1>4, <1>5, <1>6, <1>7, <1>8, <1>9, <1>10, <1>11, <1>12, <1>13,
     <1>14, <1>15 DEF CodeNext

\* A runtime that goes on after its code was told of every tool that was used:
\* runProgrammatic, its bridge and executeCode, for any number of calls and any limits.
THEOREM EffectsNeverHidden == CodeSpec => []NoHiddenEffects
<1>1. CodeInit => CodeInv
  BY CodeInvInit
<1>2. CodeInv /\ [CodeNext]_codeVars => CodeInv'
  BY CodeInvStep
<1>3. CodeInv => NoHiddenEffects
  BY DEF CodeInv, NoHiddenEffects, DoubtsKept, VerdictSettles, ToldVerdict, CodeTypeOK
<1> QED BY <1>1, <1>2, <1>3, PTL DEF CodeSpec

-----------------------------------------------------------------------------
(* Delegation                                                              *)

\* What the variables range over: events of a log, what is said of a child, the pages
\* of getChild, the supervisor's record of a child, its poll, the row of the HarnessDO.
Event == {"text", "call", "nested"}
Word == {"text", "call", "passedOver"}
Saying == Word \cup {"opened", "turnOpened", "turnClosed", "closed"}
Outcomes == {"completed", "failed", "cancelled", "uncertain"}
Page == [status : Outcomes \cup {"running"}, from : Nat, events : Seq(Event)]
Batches == Page \cup {<<>>}
KidStatus == {"none", "in_progress", "completed", "failed", "cancelled"}
KidType == [status : KidStatus, cursor : Nat, closed : BOOLEAN, pending : BOOLEAN]
PollAt == {"idle", "sent", "refused", "answered"}
PollType == [at : PollAt, batch : Batches]
RowStatus == Outcomes \cup {"none", "live"}
RowType == [status : RowStatus, batch : Batches]
WorkType == Busy \cup Ended \cup {"none", "stopped"}

\* The types of the variables.
DelegationTypeOK ==
  /\ limit \in Nat \ {0}
  /\ task \in {"working", "settling", "completed", "cancelling", "interrupting",
               "cancelled", "failed", "gone"}
  /\ asked \subseteq Agents /\ closing \subseteq Agents
  /\ spawn \in [Agents -> {"none", "sent", "arrived", "refused", "starting", "started"}]
  /\ kid \in [Agents -> KidType]
  /\ said \in [Agents -> Seq(Saying)]
  /\ poll \in [Agents -> PollType]
  /\ turn \in [id : {1, 2}, revoked : BOOLEAN]
  /\ row \in [Agents -> RowType]
  /\ stops \subseteq Agents /\ stopped \in BOOLEAN
  /\ work \in [Agents -> WorkType]
  /\ log \in [Agents -> Seq(Event)]
  /\ unstopped \subseteq Agents

-----------------------------------------------------------------------------
(* What is relayed                                                         *)

\* The places of s that relay an event, and the rank of one of them.
Words(s) == {i \in DOMAIN s : s[i] \in Word}
Rank(s, i) == Cardinality({j \in Words(s) : j <= i})
\* What the parent hears of an event (relay).
Heed(e) == IF e = "nested" THEN "passedOver" ELSE e

\* s relays the first c events of the log l, each at its rank.
Faithful(s, l, c) ==
  /\ c <= Len(l)
  /\ Cardinality(Words(s)) = c
  /\ \A i \in Words(s) : Rank(s, i) \in 1..c /\ s[i] = Heed(l[Rank(s, i)])

\* The places of a sequence are finitely many.
LEMMA WordsFinite ==
  ASSUME NEW s \in Seq(Saying)
  PROVE  /\ IsFiniteSet(Words(s)) /\ Cardinality(Words(s)) \in Nat
         /\ \A i : IsFiniteSet({j \in Words(s) : j <= i}) /\ Rank(s, i) \in Nat
<1>1. Words(s) \subseteq 1..Len(s) /\ Len(s) \in Nat
  BY DEF Words
<1>2. IsFiniteSet(1..Len(s))
  BY <1>1, FS_Interval
<1>3. IsFiniteSet(Words(s))
  BY <1>1, <1>2, FS_Subset
<1>4. ASSUME NEW i PROVE IsFiniteSet({j \in Words(s) : j <= i})
  BY <1>3, FS_Subset
<1> QED BY <1>3, <1>4, FS_CardinalityType DEF Rank

\* What Append does.
LEMMA Appended ==
  ASSUME NEW T, NEW s \in Seq(T), NEW e \in T
  PROVE  /\ Append(s, e) \in Seq(T) /\ Len(Append(s, e)) = Len(s) + 1 /\ Len(s) \in Nat
         /\ Append(s, e)[Len(s) + 1] = e /\ \A i \in 1..Len(s) : Append(s, e)[i] = s[i]
         /\ DOMAIN Append(s, e) = 1..Len(s) + 1 /\ DOMAIN s = 1..Len(s)
OBVIOUS

\* The marks are no events.
LEMMA Sayings ==
  /\ Word \subseteq Saying
  /\ "opened" \in Saying \ Word /\ "turnOpened" \in Saying \ Word
  /\ "turnClosed" \in Saying \ Word /\ "closed" \in Saying \ Word
BY DEF Saying, Word

\* What is relayed is said.
LEMMA WordsAreSayings ==
  ASSUME NEW t \in Seq(Word)
  PROVE  t \in Seq(Saying) /\ Len(t) \in Nat
<1>1. Word \subseteq Saying
  BY DEF Saying
<1>2. \A n \in 1..Len(t) : t[n] \in Saying
  BY <1>1
<1> QED BY <1>2

\* What a relayed page adds takes the next ranks, in its order.
LEMMA WordsConcat ==
  ASSUME NEW s \in Seq(Saying), NEW t \in Seq(Word)
  PROVE  /\ s \o t \in Seq(Saying)
         /\ Cardinality(Words(s \o t)) = Cardinality(Words(s)) + Len(t)
         /\ \A i \in Words(s) : i \in Words(s \o t) /\ Rank(s \o t, i) = Rank(s, i)
         /\ \A n \in 1..Len(t) : Rank(s \o t, Len(s) + n) = Cardinality(Words(s)) + n
         /\ \A i \in Words(s \o t) : i \in Words(s) \/ \E n \in 1..Len(t) : i = Len(s) + n
<1> DEFINE u == s \o t
           k == Len(s)
           new(n) == (k + 1)..(k + n)
<1>1. /\ u \in Seq(Saying) /\ Len(u) = k + Len(t) /\ k \in Nat /\ Len(t) \in Nat
      /\ \A i \in 1..k : u[i] = s[i]
      /\ \A n \in 1..Len(t) : u[k + n] = t[n] /\ t[n] \in Word
  <2>1. t \in Seq(Saying) /\ k \in Nat /\ Len(t) \in Nat
    BY WordsAreSayings
  <2>2. u \in Seq(Saying) /\ Len(u) = k + Len(t)
    BY <2>1
  <2>3. \A i \in 1..k : u[i] = s[i]
    BY <2>1
  <2>4. ASSUME NEW n \in 1..Len(t) PROVE u[k + n] = t[n] /\ t[n] \in Word
    BY <2>1
  <2> QED BY <2>1, <2>2, <2>3, <2>4
<1>2. Words(s) \subseteq 1..k
  BY DEF Words
<1>3. Words(u) = Words(s) \cup new(Len(t))
  <2>1. ASSUME NEW i \in Words(u) PROVE i \in Words(s) \cup new(Len(t))
    BY <1>1, <2>1 DEF Words
  <2>2. ASSUME NEW i \in Words(s) PROVE i \in Words(u)
    BY <1>1, <2>2 DEF Words
  <2>3. ASSUME NEW i \in new(Len(t)) PROVE i \in Words(u)
    <3>1. i - k \in 1..Len(t) /\ i = k + (i - k)
      BY <1>1
    <3>2. u[i] \in Word /\ i \in 1..Len(u)
      BY <1>1, <3>1
    <3> QED BY <1>1, <3>2 DEF Words
  <2> QED BY <2>1, <2>2, <2>3
<1>4. ASSUME NEW n \in 0..Len(t)
      PROVE  Cardinality(Words(s) \cup new(n)) = Cardinality(Words(s)) + n
  <2>1. IsFiniteSet(new(n)) /\ Cardinality(new(n)) = n
    <3>1. k + 1 \in Int /\ k + n \in Int /\ (k + n) - (k + 1) + 1 = n /\ n \in Nat
      BY <1>1
    <3>2. k + 1 > k + n => n = 0
      BY <1>1
    <3> QED BY <3>1, <3>2, FS_Interval
  <2>2. Words(s) \cap new(n) = {}
    BY <1>1, <1>2
  <2>3. Cardinality(Words(s) \cap new(n)) = 0
    BY <2>2, FS_EmptySet
  <2>4. Cardinality(Words(s) \cup new(n)) =
          Cardinality(Words(s)) + Cardinality(new(n)) - Cardinality(Words(s) \cap new(n))
    BY <2>1, WordsFinite, FS_Union
  <2> QED BY <2>1, <2>3, <2>4, WordsFinite
<1>5. Cardinality(Words(u)) = Cardinality(Words(s)) + Len(t)
  BY <1>1, <1>3, <1>4
<1>6. ASSUME NEW i \in Words(s) PROVE i \in Words(u) /\ Rank(u, i) = Rank(s, i)
  <2>1. {j \in Words(u) : j <= i} = {j \in Words(s) : j <= i}
    BY <1>1, <1>2, <1>3
  <2> QED BY <1>3, <2>1 DEF Rank
<1>7. ASSUME NEW n \in 1..Len(t) PROVE Rank(u, k + n) = Cardinality(Words(s)) + n
  <2>1. {j \in Words(u) : j <= k + n} = Words(s) \cup new(n)
    BY <1>1, <1>2, <1>3
  <2>2. n \in 0..Len(t)
    BY <1>1
  <2> QED BY <2>1, <2>2, <1>4 DEF Rank
<1>8. ASSUME NEW i \in Words(u) PROVE i \in Words(s) \/ \E n \in 1..Len(t) : i = k + n
  <2>1. CASE i \in new(Len(t))
    <3>1. i - k \in 1..Len(t) /\ i = k + (i - k)
      BY <1>1, <2>1
    <3> QED BY <3>1
  <2> QED BY <1>3, <1>8, <2>1
<1> QED BY <1>1, <1>5, <1>6, <1>7, <1>8

\* A mark is no relayed event.
LEMMA WordsAppend ==
  ASSUME NEW s \in Seq(Saying), NEW e \in Saying \ Word
  PROVE  Append(s, e) \in Seq(Saying) /\ Words(Append(s, e)) = Words(s)
<1>1. Append(s, e) \in Seq(Saying) /\ Len(Append(s, e)) = Len(s) + 1
  OBVIOUS
<1>2. /\ \A i \in 1..Len(s) : Append(s, e)[i] = s[i]
      /\ Append(s, e)[Len(s) + 1] = e /\ Len(s) \in Nat
  OBVIOUS
<1> QED BY <1>1, <1>2 DEF Words

\* Relaying the next events of the log keeps the relay faithful (PollTold).
LEMMA FaithfulRelay ==
  ASSUME NEW s \in Seq(Saying), NEW l \in Seq(Event), NEW c \in Nat, Faithful(s, l, c),
         NEW t \in Seq(Word), c + Len(t) <= Len(l),
         \A n \in 1..Len(t) : t[n] = Heed(l[c + n])
  PROVE  Faithful(s \o t, l, c + Len(t))
<1> DEFINE u == s \o t
           k == Len(s)
<1>1. /\ k \in Nat /\ Len(t) \in Nat /\ Words(s) \subseteq 1..k
      /\ Cardinality(Words(s)) = c
  BY DEF Words, Faithful
<1>2. Cardinality(Words(u)) = c + Len(t)
  BY <1>1, WordsConcat
<1>3. ASSUME NEW i \in Words(u)
      PROVE  Rank(u, i) \in 1..c + Len(t) /\ u[i] = Heed(l[Rank(u, i)])
  <2>1. i \in Words(s) \/ \E n \in 1..Len(t) : i = k + n
    BY <1>3, WordsConcat
  <2>2. CASE i \in Words(s)
    <3>1. Rank(u, i) = Rank(s, i)
      BY <2>2, WordsConcat
    <3>2. u[i] = s[i]
      BY <1>1, <2>2
    <3>3. Rank(s, i) \in 1..c /\ s[i] = Heed(l[Rank(s, i)])
      BY <2>2 DEF Faithful
    <3> QED BY <1>1, <3>1, <3>2, <3>3
  <2>3. ASSUME NEW n \in 1..Len(t), i = k + n
        PROVE  Rank(u, i) \in 1..c + Len(t) /\ u[i] = Heed(l[Rank(u, i)])
    <3>1. Rank(u, i) = c + n
      BY <1>1, <2>3, WordsConcat
    <3>2. u[i] = t[n]
      BY <1>1, <2>3
    <3> QED BY <1>1, <3>1, <3>2
  <2> QED BY <2>1, <2>2, <2>3
<1> QED BY <1>2, <1>3 DEF Faithful

\* A mark keeps it.
LEMMA FaithfulSays ==
  ASSUME NEW s \in Seq(Saying), NEW l \in Seq(Event), NEW c \in Nat, Faithful(s, l, c),
         NEW e \in Saying \ Word
  PROVE  Faithful(Append(s, e), l, c)
<1> DEFINE u == Append(s, e)
<1>1. Words(u) = Words(s)
  BY WordsAppend
<1>2. \A i \in Words(s) : u[i] = s[i]
  BY DEF Words
<1>3. \A i : Rank(u, i) = Rank(s, i)
  BY <1>1 DEF Rank
<1> QED BY <1>1, <1>2, <1>3 DEF Faithful

\* So does the end of a turn and of a record (terminate, closeRecord).
LEMMA FaithfulEnds ==
  ASSUME NEW s \in Seq(Saying), NEW l \in Seq(Event), NEW c \in Nat, Faithful(s, l, c), NEW k
  PROVE  Faithful(Closed(s, k), l, c) /\ Faithful(Closed(Append(s, "turnClosed"), k), l, c)
<1>1. "turnClosed" \in Saying \ Word /\ "closed" \in Saying \ Word
  BY Sayings
<1>2. Append(s, "turnClosed") \in Seq(Saying) /\ Faithful(Append(s, "turnClosed"), l, c)
  BY <1>1, FaithfulSays, WordsAppend
<1>3. \A v \in Seq(Saying) : Faithful(v, l, c) => Faithful(Closed(v, k), l, c)
  BY <1>1, FaithfulSays DEF Closed
<1> QED BY <1>2, <1>3

\* So does an event more in the log.
LEMMA FaithfulLog ==
  ASSUME NEW s \in Seq(Saying), NEW l \in Seq(Event), NEW c \in Nat, Faithful(s, l, c),
         NEW e \in Event
  PROVE  Faithful(s, Append(l, e), c)
<1>1. Len(Append(l, e)) = Len(l) + 1 /\ Len(l) \in Nat
  OBVIOUS
<1>2. \A n \in 1..c : Append(l, e)[n] = l[n]
  BY DEF Faithful
<1> QED BY <1>1, <1>2 DEF Faithful

-----------------------------------------------------------------------------
(* What is closed                                                          *)

\* The mark e was said once at most; it was said; the record is over.
Once(s, e) == \A i, j \in DOMAIN s : s[i] = e /\ s[j] = e => i = j
Has(s, e) == \E i \in DOMAIN s : s[i] = e
Over(k) == k.status \notin {"none", "in_progress"}

\* What was said of a child agrees with its record k.
Kept(s, k) ==
  /\ k.status = "none" => s = <<>>
  /\ Once(s, "turnClosed") /\ Once(s, "closed")
  /\ Has(s, "closed") <=> k.closed
  /\ Has(s, "turnClosed") <=> Over(k)
  /\ \A i, j \in DOMAIN s : s[i] = "turnClosed" /\ i < j => s[j] = "closed"
  /\ Over(k) => k.closed

\* Relayed events leave the marks alone.
LEMMA KeptRelay ==
  ASSUME NEW s \in Seq(Saying), NEW t \in Seq(Word), NEW k, NEW m, Kept(s, k),
         k.status = "in_progress", m.status = "in_progress", m.closed <=> k.closed
  PROVE  Kept(s \o t, m)
<1> DEFINE u == s \o t
<1>0. t \in Seq(Saying) /\ Len(s) \in Nat /\ Len(t) \in Nat
  BY WordsAreSayings
<1>1. Len(u) = Len(s) + Len(t) /\ u \in Seq(Saying)
  BY <1>0
<1>2. \A i \in 1..Len(s) : u[i] = s[i]
  BY <1>0
<1>3. ASSUME NEW i \in 1..Len(u), i \notin 1..Len(s) PROVE u[i] \in Word
  <2>1. i - Len(s) \in 1..Len(t) /\ u[i] = t[i - Len(s)]
    BY <1>0, <1>1, <1>3
  <2> QED BY <2>1
<1>4. \A i \in 1..Len(u) : u[i] \in {"turnClosed", "closed"} => i \in 1..Len(s)
  BY <1>3 DEF Word
<1>5. DOMAIN u = 1..Len(u) /\ DOMAIN s = 1..Len(s) /\ 1..Len(s) \subseteq 1..Len(u)
  BY <1>0, <1>1
<1> HIDE DEF u
<1>6. Once(u, "turnClosed") /\ Once(u, "closed")
  BY <1>2, <1>4, <1>5 DEF Kept, Once
<1>7. Has(u, "closed") <=> Has(s, "closed")
  BY <1>2, <1>4, <1>5 DEF Has
<1>8. \A i \in DOMAIN u : u[i] # "turnClosed"
  <2>1. \A i \in DOMAIN s : s[i] # "turnClosed"
    BY DEF Kept, Has, Over
  <2> QED BY <2>1, <1>2, <1>4, <1>5
<1>9. ~Over(k) /\ ~Over(m)
  BY DEF Over
<1> QED BY <1>6, <1>7, <1>8, <1>9 DEF Kept, u, Has

\* closeRecord closes a record once.
LEMMA KeptSays ==
  ASSUME NEW s \in Seq(Saying), NEW k, NEW m, Kept(s, k), k.status # "none",
         m.status = k.status, m.closed
  PROVE  Kept(Closed(s, k), m) /\ Closed(s, k) \in Seq(Saying)
<1>0. Over(m) <=> Over(k)
  BY DEF Over
<1>1. CASE k.closed
  BY <1>0, <1>1 DEF Kept, Closed
<1>2. CASE ~k.closed
  <2> DEFINE u == Append(s, "closed")
  <2>0. "closed" \in Saying
    BY Sayings
  <2>1. /\ Len(u) = Len(s) + 1 /\ Len(s) \in Nat /\ u \in Seq(Saying)
        /\ u[Len(s) + 1] = "closed" /\ \A i \in 1..Len(s) : u[i] = s[i]
    BY ONLY <2>0, Appended
  <2>2. DOMAIN u = 1..Len(u) /\ DOMAIN s = 1..Len(s)
    BY <2>1
  <2>3. ~Over(k) /\ \A i \in 1..Len(s) : s[i] # "closed" /\ s[i] # "turnClosed"
    BY <1>2, <2>2 DEF Kept, Has
  <2> HIDE DEF u
  <2>4. \A i \in 1..Len(u) : u[i] # "turnClosed" /\ (u[i] = "closed" => i = Len(s) + 1)
    BY ONLY <2>1, <2>3, <2>2
  <2>5. Once(u, "turnClosed") /\ Once(u, "closed") /\ Has(u, "closed")
    BY ONLY <2>1, <2>2, <2>4 DEF Once, Has
  <2>6. ~Has(u, "turnClosed")
    BY ONLY <2>2, <2>4 DEF Has
  <2>7. Kept(u, m)
    BY <1>0, <2>2, <2>3, <2>4, <2>5, <2>6 DEF Kept
  <2> QED BY <1>2, <2>1, <2>7 DEF Closed, u
<1> QED BY <1>1, <1>2

\* A turn that ends is said to end once, before its record is.
LEMMA KeptTerminated ==
  ASSUME NEW s \in Seq(Saying), NEW k, NEW m, Kept(s, k), k.status = "in_progress",
         Over(m), m.closed
  PROVE  /\ Kept(Closed(Append(s, "turnClosed"), k), m)
         /\ Closed(Append(s, "turnClosed"), k) \in Seq(Saying)
<1> DEFINE v == Append(s, "turnClosed")
<1>0. "turnClosed" \in Saying
  BY Sayings
<1>1. /\ Len(v) = Len(s) + 1 /\ Len(s) \in Nat /\ v \in Seq(Saying)
      /\ v[Len(s) + 1] = "turnClosed" /\ \A i \in 1..Len(s) : v[i] = s[i]
  BY ONLY <1>0, Appended
<1>2. DOMAIN v = 1..Len(v) /\ DOMAIN s = 1..Len(s)
  BY ONLY <1>1, <1>0, Appended
<1>3. ~Over(k) /\ \A i \in 1..Len(s) : s[i] # "turnClosed"
  BY <1>2 DEF Kept, Has, Over
<1> HIDE DEF v
<1>4. \A i \in 1..Len(v) : (v[i] = "turnClosed" <=> i = Len(s) + 1)
  BY ONLY <1>1, <1>3
<1>5. Has(v, "turnClosed")
  BY ONLY <1>1, <1>2, <1>4 DEF Has
<1>6. m.status # "none"
  BY DEF Over
<1>7. CASE k.closed
  <2>1. Once(v, "turnClosed") /\ Once(v, "closed") /\ Has(v, "closed")
    <3>1. Once(s, "closed") /\ Has(s, "closed")
      BY <1>7 DEF Kept
    <3> QED BY ONLY <1>1, <1>2, <1>4, <3>1 DEF Once, Has
  <2>2. \A i, j \in DOMAIN v : v[i] = "turnClosed" /\ i < j => v[j] = "closed"
    BY ONLY <1>1, <1>2, <1>4
  <2>3. Kept(v, m)
    BY <1>5, <1>6, <2>1, <2>2 DEF Kept
  <2> QED BY <1>1, <1>7, <2>3 DEF Closed, v
<1>8. CASE ~k.closed
  <2> DEFINE u == Append(v, "closed")
  <2>1. /\ Len(u) = Len(s) + 2 /\ u \in Seq(Saying)
        /\ u[Len(s) + 2] = "closed" /\ \A i \in 1..(Len(s) + 1) : u[i] = v[i]
    <3>1. "closed" \in Saying
      BY Sayings
    <3>2. /\ u \in Seq(Saying) /\ Len(u) = Len(v) + 1 /\ u[Len(v) + 1] = "closed"
          /\ \A i \in 1..Len(v) : u[i] = v[i]
      BY ONLY <1>1, <3>1, Appended
    <3> QED BY ONLY <1>1, <3>2
  <2>2. DOMAIN u = 1..Len(u)
    BY <2>1
  <2>3. \A i \in 1..Len(s) : s[i] # "closed"
    BY <1>8, <1>2 DEF Kept, Has
  <2> HIDE DEF u
  <2>4. \A i \in 1..Len(u) : /\ (u[i] = "turnClosed" <=> i = Len(s) + 1)
                            /\ (u[i] = "closed" <=> i = Len(s) + 2)
    BY ONLY <1>1, <1>4, <2>1, <2>3
  <2>5. Once(u, "turnClosed") /\ Once(u, "closed")
    BY ONLY <2>2, <2>4 DEF Once
  <2>6. Has(u, "closed") /\ Has(u, "turnClosed")
    BY ONLY <1>1, <2>1, <2>2, <2>4 DEF Has
  <2>7. \A i, j \in DOMAIN u : u[i] = "turnClosed" /\ i < j => u[j] = "closed"
    BY ONLY <1>1, <2>1, <2>2, <2>4
  <2>8. Kept(u, m)
    BY <1>6, <2>5, <2>6, <2>7 DEF Kept
  <2> QED BY <1>8, <2>1, <2>8 DEF Closed, v, u
<1> QED BY <1>7, <1>8

-----------------------------------------------------------------------------
(* The invariant                                                           *)

\* The page b is of a's own log from where it says on, and is not ahead of the relay;
\* a last page goes to the end of a log that does not grow any more.
PageOf(a, b) ==
  /\ b \in Page
  /\ b.from <= kid[a].cursor
  /\ b.from + Len(b.events) <= Len(log[a])
  /\ \A n \in 1..Len(b.events) : b.events[n] = log[a][b.from + n]
  /\ b.status # "running" => b.from + Len(b.events) = Len(log[a]) /\ work[a] \notin Busy

\* How far a spawn got says what the supervisor knows of the child ...
KidShape(a) ==
  /\ a \in asked => spawn[a] # "none" /\ kid[a].status = "none"
  /\ kid[a].status # "none" => spawn[a] = "started"
  /\ kid[a].status = "none" =>
        kid[a].cursor = 0 /\ ~kid[a].closed /\ poll[a].at = "idle" /\ a \notin closing

\* ... and the HarnessDO.
StartShape(a) ==
  /\ spawn[a] \in {"none", "sent", "arrived"} => row[a].status = "none" /\ work[a] = "none"
  /\ spawn[a] = "starting" => row[a].status = "live"
  /\ work[a] \in Busy => row[a].status = "live" \/ a \in unstopped
  /\ a \in stops => row[a].status # "none"

\* How far a spawn got, on both sides.
SpawnShape(a) == KidShape(a) /\ StartShape(a)

\* The page under way and the page stored with a terminal row are of the log.
PageShape(a) ==
  /\ poll[a].at = "answered" => PageOf(a, poll[a].batch)
  /\ spawn[a] = "started" /\ row[a].status # "live" => PageOf(a, row[a].batch)

\* What was said is the log up to the cursor, and all of it for a completed child.
RelayShape(a) ==
  /\ Faithful(said[a], log[a], kid[a].cursor)
  /\ kid[a].status = "completed" => kid[a].cursor = Len(log[a]) /\ work[a] \notin Busy

\* The invariant of one child.
ChildInv(a) == SpawnShape(a) /\ PageShape(a) /\ RelayShape(a) /\ Kept(said[a], kid[a])

\* A stop that began finds every child that still works in its list or failed on it.
StopShape ==
  /\ stopped => stops = {}
  /\ stopped \/ stops # {} =>
        /\ turn.revoked \/ turn.id = 2
        /\ \A a \in Agents : work[a] \in Busy => a \in stops \/ a \in unstopped

\* The live rows are within the limit.
LimitShape == IsFiniteSet(LiveRows) /\ ChildLimit

\* The inductive invariant.
DelegationInv ==
  /\ DelegationTypeOK
  /\ \A a \in Agents : ChildInv(a)
  /\ task = "completed" => active = {}
  /\ StopShape
  /\ LimitShape

-----------------------------------------------------------------------------
(* Types                                                                   *)

\* What an update of the supervisor's record does.
LEMMA KidDomain ==
  /\ NoKid \in KidType
  /\ \A k \in KidType :
       /\ k.status \in KidStatus /\ k.cursor \in Nat
       /\ \A s \in KidStatus : /\ [k EXCEPT !.status = s] \in KidType
                               /\ [k EXCEPT !.status = s].status = s
                               /\ [k EXCEPT !.status = s].cursor = k.cursor
                               /\ [k EXCEPT !.status = s].closed <=> k.closed
       /\ [k EXCEPT !.pending = FALSE] \in KidType
       /\ [k EXCEPT !.pending = FALSE].status = k.status
       /\ [k EXCEPT !.pending = FALSE].cursor = k.cursor
       /\ [k EXCEPT !.pending = FALSE].closed <=> k.closed
       /\ [k EXCEPT !.closed = TRUE] \in KidType
       /\ [k EXCEPT !.closed = TRUE].status = k.status
       /\ [k EXCEPT !.closed = TRUE].cursor = k.cursor
       /\ [k EXCEPT !.closed = TRUE].closed
BY DEF KidType, KidStatus, NoKid

\* The update that ends a record.
LEMMA KidEnds ==
  ASSUME NEW k \in KidType, NEW s \in KidStatus,
         NEW m, m = [k EXCEPT !.status = s, !.closed = TRUE, !.pending = FALSE]
  PROVE  m \in KidType /\ m.status = s /\ m.cursor = k.cursor /\ m.closed
BY DEF KidType, KidStatus

\* The updates of a poll.
LEMMA PollDomain ==
  /\ NoPoll \in PollType /\ NoPoll.at = "idle"
  /\ \A x \in PollAt, b \in Batches :
        /\ [at |-> x, batch |-> b] \in PollType
        /\ [at |-> x, batch |-> b].at = x /\ [at |-> x, batch |-> b].batch = b
  /\ \A p \in PollType :
       /\ p.at \in PollAt /\ p.batch \in Batches
       /\ [p EXCEPT !.at = "refused"] \in PollType
       /\ [p EXCEPT !.at = "refused"].at = "refused"
BY DEF PollType, PollAt, NoPoll, Batches

\* The rows.
LEMMA RowDomain ==
  /\ Live \in RowType /\ Live.status = "live"
  /\ NoRow \in RowType /\ NoRow.status = "none"
  /\ \A x \in RowStatus, b \in Batches :
        /\ [status |-> x, batch |-> b] \in RowType
        /\ [status |-> x, batch |-> b].status = x /\ [status |-> x, batch |-> b].batch = b
  /\ \A r \in RowType : r.status \in RowStatus /\ r.batch \in Batches
BY DEF RowType, RowStatus, Live, NoRow, Batches

\* The update that revokes the turn.
LEMMA TurnDomain ==
  ASSUME DelegationTypeOK
  PROVE  /\ turn.id \in {1, 2}
         /\ [turn EXCEPT !.revoked = TRUE] \in [id : {1, 2}, revoked : BOOLEAN]
         /\ [turn EXCEPT !.revoked = TRUE].revoked
         /\ [turn EXCEPT !.revoked = TRUE].id = turn.id
BY DEF DelegationTypeOK

\* A cancelled child was one that could be (requestCancel).
LEMMA CancelEffect ==
  ASSUME DelegationTypeOK, NEW A, requestCancel(A)
  PROVE  /\ work' \in [Agents -> WorkType]
         /\ \A b \in Agents : work'[b] # work[b] =>
               work'[b] = "cancelled" /\ work[b] \in {"working", "waiting"}
<1>1. PICK S : /\ S \subseteq Cancellable(A)
               /\ work' = [b \in Agents |-> IF b \in S THEN "cancelled" ELSE work[b]]
  BY DEF requestCancel
<1>2. \A b \in Agents : b \in S => work[b] \in {"working", "waiting"}
  BY <1>1 DEF Cancellable
<1>3. \A b \in Agents : work[b] \in WorkType /\ "cancelled" \in WorkType
  BY DEF DelegationTypeOK, WorkType, Ended
<1>4. ASSUME NEW b \in Agents
      PROVE  work'[b] # work[b] =>
               work'[b] = "cancelled" /\ work[b] \in {"working", "waiting"}
  <2>1. CASE b \in S
    BY <1>1, <1>2, <2>1
  <2>2. CASE b \notin S
    BY <1>1, <2>2
  <2> QED BY <2>1, <2>2
<1>5. work' \in [Agents -> WorkType]
  BY ONLY <1>1, <1>3
<1> QED BY <1>4, <1>5

\* terminate ends the records of A, and those only.
LEMMA TerminateEffect ==
  ASSUME DelegationTypeOK, NEW A, A \subseteq active, NEW s \in KidStatus,
         s \notin {"none", "in_progress", "completed"},
         \A b \in Agents : Kept(said[b], kid[b]) /\ RelayShape(b), UNCHANGED <<log, work>>,
         terminate(A, s)
  PROVE  /\ kid' \in [Agents -> KidType] /\ said' \in [Agents -> Seq(Saying)]
         /\ \A b \in Agents \ A : kid'[b] = kid[b] /\ said'[b] = said[b]
         /\ \A b \in A : /\ kid[b].status = "in_progress" /\ kid'[b].status = s
                        /\ kid'[b].cursor = kid[b].cursor
         /\ \A b \in Agents : Kept(said[b], kid[b])' /\ RelayShape(b)'
<1>1. /\ kid \in [Agents -> KidType] /\ said \in [Agents -> Seq(Saying)]
      /\ log \in [Agents -> Seq(Event)]
      /\ A \subseteq Agents /\ \A b \in A : kid[b].status = "in_progress"
  BY DEF DelegationTypeOK, active
<1>2. /\ kid' = [b \in Agents |-> IF b \in A
                  THEN [kid[b] EXCEPT !.status = s, !.closed = TRUE, !.pending = FALSE]
                  ELSE kid[b]]
      /\ said' = [b \in Agents |-> IF b \in A
                  THEN Closed(Append(said[b], "turnClosed"), kid[b]) ELSE said[b]]
  BY DEF terminate
<1>3. ASSUME NEW b \in A
      PROVE  /\ kid'[b] \in KidType /\ kid'[b].status = s /\ kid'[b].cursor = kid[b].cursor
             /\ kid'[b].closed
  BY <1>1, <1>2, KidEnds
<1>4. ASSUME NEW b \in A
      PROVE  said'[b] \in Seq(Saying) /\ Kept(said[b], kid[b])' /\ RelayShape(b)'
  <2> DEFINE u == Closed(Append(said[b], "turnClosed"), kid[b])
  <2>1. said'[b] = u /\ said[b] \in Seq(Saying) /\ log[b] \in Seq(Event)
    BY <1>1, <1>2
  <2>2. Over(kid'[b]) /\ kid'[b].closed
    BY <1>3 DEF Over
  <2>3. Kept(u, kid'[b]) /\ u \in Seq(Saying)
    BY <1>1, <2>1, <2>2, KeptTerminated
  <2>4. Faithful(u, log[b], kid[b].cursor)
    <3>1. Faithful(said[b], log[b], kid[b].cursor) /\ kid[b].cursor \in Nat
      BY <1>1, KidDomain DEF RelayShape
    <3> QED BY <2>1, <3>1, FaithfulEnds
  <2>5. Faithful(said'[b], log'[b], kid'[b].cursor) /\ kid'[b].status # "completed"
    BY <1>3, <2>1, <2>4
  <2> QED BY <2>1, <2>3, <2>5 DEF RelayShape
<1>5. ASSUME NEW b \in Agents \ A
      PROVE  /\ kid'[b] = kid[b] /\ said'[b] = said[b]
             /\ Kept(said[b], kid[b])' /\ RelayShape(b)'
  <2>1. kid'[b] = kid[b] /\ said'[b] = said[b]
    BY <1>2
  <2> QED BY <2>1 DEF RelayShape
<1>6. kid' \in [Agents -> KidType] /\ said' \in [Agents -> Seq(Saying)]
  <2>1. \A b \in Agents : kid'[b] \in KidType /\ said'[b] \in Seq(Saying)
    BY <1>1, <1>3, <1>4, <1>5
  <2> HIDE DEF terminate
  <2>2. /\ kid' = [b \in Agents |-> kid'[b]] /\ said' = [b \in Agents |-> said'[b]]
    BY <1>2
  <2> QED BY <2>1, <2>2
<1> QED BY <1>1, <1>3, <1>4, <1>5, <1>6

-----------------------------------------------------------------------------
(* The pages                                                               *)

\* What a page from c on holds of the log.
LEMMA Suffix ==
  ASSUME NEW T, NEW l \in Seq(T), NEW c \in Nat
  PROVE  /\ SubSeq(l, c + 1, Len(l)) \in Seq(T) /\ Len(l) \in Nat
         /\ c <= Len(l) => Len(SubSeq(l, c + 1, Len(l))) = Len(l) - c
         /\ c >= Len(l) => Len(SubSeq(l, c + 1, Len(l))) = 0
         /\ \A n \in 1..Len(SubSeq(l, c + 1, Len(l))) : SubSeq(l, c + 1, Len(l))[n] = l[c + n]
<1> DEFINE m == c + 1
           k == Len(l)
           u == SubSeq(l, m, k)
<1>1. m \in 1..(k + 1) \/ m > k + 1
  OBVIOUS
<1>2. k \in Nat /\ m \in Nat /\ m >= 1
  OBVIOUS
<1>3. u \in Seq(T)
  BY <1>2
<1>4. Len(u) = IF m <= k + 1 THEN k - m + 1 ELSE 0
  BY <1>2
<1>5. \A n \in 1..Len(u) : u[n] = l[m + n - 1]
  BY <1>2, <1>4
<1> QED BY <1>2, <1>3, <1>4, <1>5

\* The cursor is within the log.
LEMMA CursorInLog ==
  ASSUME DelegationTypeOK, NEW a \in Agents, RelayShape(a)
  PROVE  /\ kid[a].cursor \in Nat /\ log[a] \in Seq(Event) /\ Len(log[a]) \in Nat
         /\ kid[a].cursor <= Len(log[a])
<1>1. kid[a] \in KidType /\ log[a] \in Seq(Event)
  BY DEF DelegationTypeOK
<1>2. kid[a].cursor \in Nat
  BY <1>1, KidDomain
<1>3. kid[a].cursor <= Len(log[a])
  BY DEF RelayShape, Faithful
<1> QED BY <1>1, <1>2, <1>3

\* The page served to a poll is of the child's own log.
LEMMA BatchIsPage ==
  ASSUME DelegationTypeOK, NEW a \in Agents, ChildInv(a), poll[a].at = "sent"
  PROVE  PageOf(a, BatchOf(a)) /\ spawn[a] = "started"
<1> DEFINE c == kid[a].cursor
           l == log[a]
<1>1. kid[a].status # "none" /\ spawn[a] = "started"
  BY DEF ChildInv, SpawnShape, KidShape, StartShape
<1>2. c \in Nat /\ l \in Seq(Event) /\ Len(l) \in Nat /\ c <= Len(l)
  <2>1. RelayShape(a)
    BY DEF ChildInv
  <2> QED BY <2>1, CursorInLog
<1>3. CASE row[a].status # "live"
  BY <1>1, <1>3 DEF ChildInv, PageShape, BatchOf
<1>4. CASE row[a].status = "live"
  <2> DEFINE s == IF work[a] \in Ended THEN work[a]
                  ELSE IF work[a] = "stopped" THEN "failed" ELSE "running"
             e == SubSeq(l, c + 1, Len(l))
             b == [status |-> s, from |-> c, events |-> e]
  <2>1. BatchOf(a) = b
    BY <1>4 DEF BatchOf
  <2>2. s \in Outcomes \cup {"running"}
    BY DEF Outcomes, Ended
  <2>3. s # "running" => work[a] \notin Busy
    BY DEF Ended, Busy
  <2>4. /\ e \in Seq(Event) /\ Len(e) = Len(l) - c
        /\ \A n \in 1..Len(e) : e[n] = l[c + n]
    BY ONLY <1>2, Suffix
  <2>5. b.status = s /\ b.from = c /\ b.events = e
    OBVIOUS
  <2>6. b \in Page
    <3> HIDE DEF s, e, c
    <3> QED BY <1>2, <2>2, <2>4 DEF Page
  <2> HIDE DEF b, s, e, c, l
  <2>7. /\ b.from <= c /\ b.from + Len(b.events) = Len(l)
        /\ b.from + Len(b.events) <= Len(l)
        /\ \A n \in 1..Len(b.events) : b.events[n] = l[b.from + n]
    BY ONLY <1>2, <2>4, <2>5
  <2>8. PageOf(a, b)
    BY <2>3, <2>5, <2>6, <2>7 DEF PageOf, c, l
  <2> QED BY <1>1, <2>1, <2>8
<1> QED BY <1>3, <1>4

\* What the cursor has not passed of a page goes on from the cursor.
LEMMA FreshEffect ==
  ASSUME DelegationTypeOK, NEW a \in Agents, RelayShape(a), NEW b, PageOf(a, b)
  PROVE  /\ relay(fresh(a, b)) \in Seq(Word) /\ Len(relay(fresh(a, b))) \in Nat
         /\ kid[a].cursor + Len(relay(fresh(a, b))) <= Len(log[a])
         /\ \A n \in 1..Len(relay(fresh(a, b))) :
              relay(fresh(a, b))[n] = Heed(log[a][kid[a].cursor + n])
         /\ b.status # "running" =>
              kid[a].cursor + Len(relay(fresh(a, b))) = Len(log[a]) /\ work[a] \notin Busy
<1> DEFINE c == kid[a].cursor
           l == log[a]
           d == c - b.from
           f == fresh(a, b)
           r == relay(f)
<1>1. c \in Nat /\ l \in Seq(Event) /\ Len(l) \in Nat /\ c <= Len(l)
  BY CursorInLog
<1>2. b.from \in Nat /\ b.events \in Seq(Event) /\ Len(b.events) \in Nat
  BY DEF PageOf, Page
<1>3. d \in Nat /\ b.from + d = c
  BY <1>1, <1>2 DEF PageOf
<1>4. f = SubSeq(b.events, d + 1, Len(b.events))
  BY DEF fresh
<1>5. /\ f \in Seq(Event) /\ Len(f) \in Nat
      /\ d <= Len(b.events) => Len(f) = Len(b.events) - d
      /\ d >= Len(b.events) => Len(f) = 0
      /\ \A n \in 1..Len(f) : f[n] = b.events[d + n]
  <2> HIDE DEF d, f
  <2> DEFINE g == b.events
  <2>1. g \in Seq(Event) /\ Len(g) \in Nat /\ f = SubSeq(g, d + 1, Len(g))
    BY <1>2, <1>4
  <2> HIDE DEF g
  <2>2. /\ f \in Seq(Event)
        /\ d <= Len(g) => Len(f) = Len(g) - d
        /\ d >= Len(g) => Len(f) = 0
        /\ \A n \in 1..Len(f) : f[n] = g[d + n]
    BY ONLY <1>3, <2>1, Suffix
  <2>3. Len(f) \in Nat
    BY ONLY <2>2
  <2> QED BY <2>2, <2>3 DEF g
<1> HIDE DEF d, f
<1>6. /\ b.from + Len(b.events) <= Len(l)
      /\ \A n \in 1..Len(b.events) : b.events[n] = l[b.from + n]
      /\ b.status # "running" => b.from + Len(b.events) = Len(l) /\ work[a] \notin Busy
  BY DEF PageOf
<1>7. /\ c + Len(f) <= Len(l)
      /\ b.status # "running" => c + Len(f) = Len(l)
  BY <1>1, <1>2, <1>3, <1>5, <1>6
<1>8. ASSUME NEW n \in 1..Len(f) PROVE f[n] = l[c + n]
  <2>1. d + n \in 1..Len(b.events) /\ b.from + (d + n) = c + n
    <3>1. /\ n \in 1..Len(f) /\ Len(f) \in Nat
          /\ d <= Len(b.events) => Len(f) = Len(b.events) - d
          /\ d >= Len(b.events) => Len(f) = 0
      BY <1>5
    <3> QED BY ONLY <1>1, <1>2, <1>3, <3>1
  <2> QED BY <1>5, <1>6, <2>1
<1>9. r \in Seq(Word) /\ Len(r) = Len(f) /\ \A n \in 1..Len(f) : r[n] = Heed(f[n])
  <2>1. \A n \in 1..Len(f) : Heed(f[n]) \in Word
    BY <1>5 DEF Heed, Word, Event
  <2>2. r = [n \in 1..Len(f) |-> Heed(f[n])]
    BY <1>5 DEF relay, Heed
  <2>3. r \in Seq(Word)
    BY <1>5, <2>1, <2>2
  <2>4. Len(r) = Len(f)
    BY <1>5, <2>2
  <2> QED BY <2>2, <2>3, <2>4
<1> HIDE DEF r
<1> QED BY <1>5, <1>6, <1>7, <1>8, <1>9 DEF f, r

-----------------------------------------------------------------------------
(* The records                                                             *)

\* A child's record only goes on, and agrees with what was said of the child.
Followed(b) ==
  /\ kid[b].cursor <= kid'[b].cursor
  /\ kid[b].status # "none" => kid'[b].status # "none"
  /\ kid'[b].status = "none" => kid'[b] = kid[b]
  /\ Kept(said[b], kid[b])' /\ RelayShape(b)'

\* Every record goes on so.
RecordsKept ==
  /\ kid' \in [Agents -> KidType] /\ said' \in [Agents -> Seq(Saying)]
  /\ \A b \in Agents : Followed(b)

\* A record left alone goes on.
LEMMA SameRecord ==
  ASSUME DelegationTypeOK, NEW b \in Agents, Kept(said[b], kid[b]), RelayShape(b),
         kid'[b] = kid[b], said'[b] = said[b], log'[b] = log[b],
         kid[b].status # "none" /\ work[b] \notin Busy => work'[b] \notin Busy
  PROVE  Followed(b)
<1>1. kid[b].cursor \in Nat
  BY KidDomain DEF DelegationTypeOK
<1>2. kid[b].cursor <= kid'[b].cursor
  BY <1>1
<1>3. Kept(said[b], kid[b])'
  BY DEF Kept
<1>4. RelayShape(b)'
  BY DEF RelayShape
<1> QED BY <1>2, <1>3, <1>4 DEF Followed

\* One record changed.
LEMMA OneRecord ==
  ASSUME DelegationTypeOK, \A b \in Agents : ChildInv(b), NEW a \in Agents,
         NEW k, k \in KidType, NEW s, s \in Seq(Saying),
         kid' = [kid EXCEPT ![a] = k], said' = [said EXCEPT ![a] = s],
         UNCHANGED log, \A b \in Agents : work[b] \notin Busy => work'[b] \notin Busy,
         kid[a].cursor <= k.cursor, k.status # "none", Kept(s, k), Faithful(s, log[a], k.cursor),
         k.status = "completed" => k.cursor = Len(log[a]) /\ work[a] \notin Busy
  PROVE  RecordsKept
<1>1. kid \in [Agents -> KidType] /\ said \in [Agents -> Seq(Saying)]
  BY DEF DelegationTypeOK
<1>2. kid'[a] = k /\ said'[a] = s
  BY <1>1
<1>3. Followed(a)
  BY <1>2 DEF Followed, RelayShape
<1>4. ASSUME NEW b \in Agents, b # a PROVE Followed(b)
  <2>1. kid'[b] = kid[b] /\ said'[b] = said[b] /\ log'[b] = log[b]
    BY <1>1, <1>4
  <2>2. Kept(said[b], kid[b]) /\ RelayShape(b)
    BY DEF ChildInv
  <2> QED BY <2>1, <2>2, SameRecord
<1>5. kid' \in [Agents -> KidType] /\ said' \in [Agents -> Seq(Saying)]
  BY <1>1
<1> QED BY <1>3, <1>4, <1>5 DEF RecordsKept

\* The record as the invariant has it.
LEMMA RecordFacts ==
  ASSUME DelegationTypeOK, NEW a \in Agents, ChildInv(a)
  PROVE  /\ kid[a] \in KidType /\ said[a] \in Seq(Saying) /\ log[a] \in Seq(Event)
         /\ kid[a].cursor \in Nat /\ kid[a].cursor <= kid[a].cursor
         /\ Kept(said[a], kid[a]) /\ Faithful(said[a], log[a], kid[a].cursor)
         /\ kid[a].status = "completed" => kid[a].cursor = Len(log[a]) /\ work[a] \notin Busy
<1>1. kid[a] \in KidType /\ said[a] \in Seq(Saying) /\ log[a] \in Seq(Event)
  BY DEF DelegationTypeOK
<1>2. kid[a].cursor \in Nat
  BY <1>1, KidDomain
<1> QED BY <1>1, <1>2 DEF ChildInv, RelayShape

\* No record changed.
LEMMA SameRecords ==
  ASSUME DelegationTypeOK, \A b \in Agents : Kept(said[b], kid[b]) /\ RelayShape(b),
         UNCHANGED <<kid, said, log>>,
         \A b \in Agents :
           kid[b].status # "none" /\ work[b] \notin Busy => work'[b] \notin Busy
  PROVE  RecordsKept
<1>1. kid \in [Agents -> KidType] /\ said \in [Agents -> Seq(Saying)]
  BY DEF DelegationTypeOK
<1>2. ASSUME NEW b \in Agents PROVE Followed(b)
  BY SameRecord
<1> QED BY <1>1, <1>2 DEF RecordsKept

\* Records ended.
LEMMA TerminateKeeps ==
  ASSUME DelegationTypeOK, NEW A, A \subseteq active, NEW s \in KidStatus,
         s \notin {"none", "in_progress", "completed"},
         \A b \in Agents : Kept(said[b], kid[b]) /\ RelayShape(b), UNCHANGED <<log, work>>,
         terminate(A, s)
  PROVE  RecordsKept
<1>1. /\ kid' \in [Agents -> KidType] /\ said' \in [Agents -> Seq(Saying)]
      /\ \A b \in Agents \ A : kid'[b] = kid[b] /\ said'[b] = said[b]
      /\ \A b \in A : /\ kid[b].status = "in_progress" /\ kid'[b].status = s
                     /\ kid'[b].cursor = kid[b].cursor
      /\ \A b \in Agents : Kept(said[b], kid[b])' /\ RelayShape(b)'
  BY TerminateEffect
<1>2. ASSUME NEW b \in Agents PROVE Followed(b)
  <2>1. kid[b].cursor \in Nat
    BY KidDomain DEF DelegationTypeOK
  <2>2. CASE b \in A
    <3>1. kid[b].cursor <= kid'[b].cursor /\ kid'[b].status # "none"
      BY <1>1, <2>1, <2>2
    <3> QED BY <1>1, <3>1 DEF Followed
  <2>3. CASE b \notin A
    BY <1>1, <2>3, SameRecord
  <2> QED BY <2>2, <2>3
<1> QED BY <1>1, <1>2 DEF RecordsKept

\* The record of a child that started.
LEMMA SpawnToldKeeps ==
  ASSUME DelegationTypeOK, \A b \in Agents : ChildInv(b), NEW a \in Agents, SpawnTold(a)
  PROVE  RecordsKept
<1> DEFINE k == [kid[a] EXCEPT !.status = "in_progress"]
           s == <<"opened", "turnOpened">>
<1>1. kid[a].status = "none" /\ kid[a].cursor = 0 /\ ~kid[a].closed
  BY DEF SpawnTold, ChildInv, SpawnShape, KidShape, StartShape
<1>2. kid[a] \in KidType /\ log[a] \in Seq(Event) /\ kid \in [Agents -> KidType]
  BY DEF DelegationTypeOK
<1>3. k \in KidType /\ k.status = "in_progress" /\ k.cursor = 0 /\ ~k.closed
  <2>1. "in_progress" \in KidStatus
    BY DEF KidStatus
  <2>2. k \in KidType /\ k.status = "in_progress" /\ k.cursor = kid[a].cursor
        /\ (k.closed <=> kid[a].closed)
    BY <1>2, <2>1, KidDomain
  <2> QED BY <1>1, <2>2
<1>4. /\ s \in Seq(Saying) /\ Len(s) = 2
      /\ \A i \in DOMAIN s : s[i] \in {"opened", "turnOpened"}
  BY DEF Saying
<1>5. kid' = [kid EXCEPT ![a] = k] /\ said' = [said EXCEPT ![a] = s]
  BY <1>2 DEF SpawnTold
<1>6. UNCHANGED <<log, work>>
  BY DEF SpawnTold, childVars
<1> HIDE DEF k, s
<1>7. Kept(s, k)
  BY <1>3, <1>4 DEF Kept, Once, Has, Over
<1>8. Faithful(s, log[a], 0)
  <2>1. Words(s) = {}
    BY <1>4 DEF Words, Word
  <2>2. Cardinality(Words(s)) = 0
    BY <2>1, FS_EmptySet
  <2> QED BY <1>2, <2>1, <2>2 DEF Faithful
<1>9. kid[a].cursor <= k.cursor /\ k.status # "none" /\ k.status # "completed"
  BY <1>1, <1>3
<1>10. Faithful(s, log[a], k.cursor)
  BY <1>3, <1>8
<1>11. UNCHANGED log /\ \A b \in Agents : work[b] \notin Busy => work'[b] \notin Busy
  BY <1>6
<1> QED BY <1>3, <1>4, <1>5, <1>7, <1>9, <1>10, <1>11, OneRecord

\* A page handled: relayed from the cursor on, and the last one ends the child.
LEMMA PollToldKeeps ==
  ASSUME DelegationTypeOK, \A b \in Agents : ChildInv(b), NEW a \in Agents, PollTold(a)
  PROVE  /\ RecordsKept
         /\ task' = task \/ task' = "failed"
<1> DEFINE b == poll[a].batch
           r == relay(fresh(a, b))
           n == Len(r)
           t == said[a] \o r
<1>1. PageOf(a, b) /\ kid[a].status = "in_progress"
  BY DEF PollTold, ChildInv, PageShape, active
<1>2. /\ r \in Seq(Word) /\ n \in Nat /\ kid[a].cursor + n <= Len(log[a])
      /\ \A i \in 1..n : r[i] = Heed(log[a][kid[a].cursor + i])
      /\ b.status # "running" => kid[a].cursor + n = Len(log[a]) /\ work[a] \notin Busy
  <2>1. RelayShape(a)
    BY DEF ChildInv
  <2> QED BY <1>1, <2>1, FreshEffect
<1>3. /\ kid[a] \in KidType /\ said[a] \in Seq(Saying) /\ log[a] \in Seq(Event)
      /\ kid[a].cursor \in Nat /\ Kept(said[a], kid[a])
      /\ Faithful(said[a], log[a], kid[a].cursor)
  BY RecordFacts
<1>4. t \in Seq(Saying) /\ Faithful(t, log[a], kid[a].cursor + n)
  BY <1>2, <1>3, FaithfulRelay, WordsConcat
<1>5. UNCHANGED <<log, work>> /\ b.status \in Outcomes \cup {"running"}
  BY <1>1 DEF PollTold, childVars, PageOf, Page
<1>6. kid[a].cursor <= kid[a].cursor + n
  BY <1>2, <1>3
<1> DEFINE heard == [kid[a] EXCEPT !.cursor = @ + n,
                                   !.pending =
                                       IF \E i \in DOMAIN r : r[i] = "call" THEN TRUE ELSE @]
<1>7. /\ heard \in KidType /\ heard.status = "in_progress"
      /\ heard.cursor = kid[a].cursor + n /\ (heard.closed <=> kid[a].closed)
  <2> DEFINE k == kid[a]
             d == k.cursor + n
  <2>0. k \in KidType /\ d \in Nat
    BY <1>2, <1>3
  <2>1. \/ heard = [k EXCEPT !.cursor = d, !.pending = TRUE]
        \/ heard = [k EXCEPT !.cursor = d]
    BY <2>0 DEF KidType
  <2> HIDE DEF d, k, heard
  <2>2. /\ heard \in KidType /\ heard.status = k.status
        /\ heard.cursor = d /\ (heard.closed <=> k.closed)
    <3>1. CASE heard = [k EXCEPT !.cursor = d, !.pending = TRUE]
      BY ONLY <2>0, <3>1 DEF KidType
    <3>2. CASE heard = [k EXCEPT !.cursor = d]
      BY ONLY <2>0, <3>2 DEF KidType
    <3> QED BY <2>1, <3>1, <3>2
  <2> QED BY <1>1, <2>2 DEF k, d
<1>8. Kept(t, heard)
  BY <1>1, <1>2, <1>3, <1>7, KeptRelay
<1>9. CASE b.status = "running"
  <2>1. kid' = [kid EXCEPT ![a] = heard] /\ said' = [said EXCEPT ![a] = t] /\ task' = task
    BY <1>9 DEF PollTold
  <2> HIDE DEF heard, t, r, n, b
  <2> QED BY <1>3, <1>4, <1>5, <1>6, <1>7, <1>8, <2>1, OneRecord
<1>10. CASE b.status # "running"
  <2> DEFINE m == [heard EXCEPT !.status = Outcome(b.status), !.closed = TRUE, !.pending = FALSE]
             u == Closed(Append(t, "turnClosed"), kid[a])
  <2>1. /\ kid' = [kid EXCEPT ![a] = m] /\ said' = [said EXCEPT ![a] = u]
        /\ task' = task \/ task' = "failed"
    BY <1>10 DEF PollTold
  <2>2. Outcome(b.status) \in KidStatus /\ Outcome(b.status) \notin {"none", "in_progress"}
    BY <1>5, <1>10 DEF Outcome, KidStatus, Outcomes
  <2> HIDE DEF heard, t, r, n, b
  <2>3. m \in KidType /\ m.status = Outcome(b.status) /\ m.cursor = heard.cursor /\ m.closed
    BY <1>7, <2>2, KidEnds
  <2>4. Over(m)
    BY <2>2, <2>3 DEF Over
  <2>5. Closed(Append(t, "turnClosed"), heard) = u
    BY <1>7 DEF Closed
  <2> HIDE DEF m
  <2>6. Kept(Closed(Append(t, "turnClosed"), heard), m)
        /\ Closed(Append(t, "turnClosed"), heard) \in Seq(Saying)
    BY <1>4, <1>7, <1>8, <2>3, <2>4, KeptTerminated
  <2>7. Faithful(u, log[a], m.cursor)
    BY <1>2, <1>3, <1>4, <1>7, <2>3, FaithfulEnds
  <2>8. /\ kid[a].cursor <= m.cursor /\ m.status # "none"
        /\ m.cursor = Len(log[a]) /\ work[a] \notin Busy
    BY <1>2, <1>6, <1>7, <1>10, <2>2, <2>3 DEF n, r, b
  <2> HIDE DEF u
  <2> QED BY <1>5, <2>1, <2>3, <2>5, <2>6, <2>7, <2>8, OneRecord
<1> QED BY <1>9, <1>10

\* A poll that failed ends the child's record as failed.
LEMMA PollFailsKeeps ==
  ASSUME DelegationTypeOK, \A b \in Agents : ChildInv(b), NEW a \in Agents, PollFails(a)
  PROVE  RecordsKept
<1>1. UNCHANGED <<log, work>>
  BY DEF PollFails, childVars
<1>2. \A b \in Agents : Kept(said[b], kid[b]) /\ RelayShape(b)
  BY DEF ChildInv
<1>3. CASE a \in active /\ task \notin Sealed
  BY <1>1, <1>2, <1>3, TerminateKeeps DEF PollFails, KidStatus
<1>4. CASE ~(a \in active /\ task \notin Sealed)
  BY <1>1, <1>2, <1>4, SameRecords DEF PollFails
<1> QED BY <1>3, <1>4

\* A routed tool result touches no more than the pending call.
LEMMA RouteKeeps ==
  ASSUME DelegationTypeOK, \A b \in Agents : ChildInv(b), NEW a \in Agents, routeToolResult(a)
  PROVE  RecordsKept
<1> DEFINE k == [kid[a] EXCEPT !.pending = FALSE]
           s == said[a]
<1>1. /\ kid[a] \in KidType /\ s \in Seq(Saying) /\ kid[a].status = "in_progress"
      /\ kid[a].cursor \in Nat /\ kid[a].cursor <= kid[a].cursor /\ Kept(s, kid[a])
      /\ Faithful(s, log[a], kid[a].cursor)
  BY RecordFacts DEF routeToolResult, active
<1>2. /\ k \in KidType /\ k.status = "in_progress" /\ k.cursor = kid[a].cursor
      /\ k.closed <=> kid[a].closed
  BY <1>1, KidDomain
<1>3. /\ kid' = [kid EXCEPT ![a] = k] /\ said' = [said EXCEPT ![a] = s] /\ UNCHANGED log
  BY DEF routeToolResult, DelegationTypeOK
<1>4. \A b \in Agents : work[b] \notin Busy => work'[b] \notin Busy
  BY DEF routeToolResult, DelegationTypeOK, Busy
<1> HIDE DEF k, s
<1>5. Kept(s, k)
  BY <1>1, <1>2 DEF Kept, Over
<1> QED BY <1>1, <1>2, <1>3, <1>4, <1>5, OneRecord

\* A closed child.
LEMMA CloseEndsKeeps ==
  ASSUME DelegationTypeOK, \A b \in Agents : ChildInv(b), NEW a \in Agents, CloseEnds(a),
         a \in closing
  PROVE  RecordsKept
<1> DEFINE k == [kid[a] EXCEPT !.closed = TRUE]
           s == Closed(said[a], kid[a])
<1>1. /\ kid[a] \in KidType /\ said[a] \in Seq(Saying) /\ log[a] \in Seq(Event)
      /\ kid[a].cursor \in Nat /\ kid[a].cursor <= kid[a].cursor /\ Kept(said[a], kid[a])
      /\ Faithful(said[a], log[a], kid[a].cursor)
      /\ kid[a].status = "completed" => kid[a].cursor = Len(log[a]) /\ work[a] \notin Busy
  BY RecordFacts
<1>2. kid[a].status # "none"
  BY DEF ChildInv, SpawnShape, KidShape, StartShape
<1>3. k \in KidType /\ k.status = kid[a].status /\ k.cursor = kid[a].cursor /\ k.closed
  BY <1>1, KidDomain
<1>4. /\ kid' = [kid EXCEPT ![a] = k] /\ said' = [said EXCEPT ![a] = s]
      /\ UNCHANGED <<log, work>>
  BY DEF CloseEnds, childVars
<1> HIDE DEF k
<1>5. Kept(s, k) /\ s \in Seq(Saying)
  BY <1>1, <1>2, <1>3, KeptSays
<1>6. Faithful(s, log[a], kid[a].cursor)
  BY <1>1, FaithfulEnds
<1> HIDE DEF s
<1> QED BY <1>1, <1>2, <1>3, <1>4, <1>5, <1>6, OneRecord

\* The records when the parent is cancelled.
LEMMA CancelAllKeeps ==
  ASSUME DelegationTypeOK, \A b \in Agents : ChildInv(b), cancelAll
  PROVE  RecordsKept
<1>1. UNCHANGED <<log, work>>
  BY DEF cancelAll, childVars
<1>2. \A b \in Agents : Kept(said[b], kid[b]) /\ RelayShape(b)
  BY DEF ChildInv
<1> QED BY <1>1, <1>2, TerminateKeeps DEF cancelAll, KidStatus

-----------------------------------------------------------------------------
(* What a step may do to each part                                         *)

\* A child begins to work with its reservation only, under a turn that is not revoked.
WorkGoesOn ==
  /\ work' \in [Agents -> WorkType]
  /\ \A b \in Agents : work[b] \notin Busy /\ work'[b] \in Busy =>
        spawn[b] = "arrived" /\ row'[b].status = "live"
        /\ ~turn.revoked /\ turn.id = 1

\* Nobody is revived: only a reservation lets a child begin.
LEMMA WorkStep ==
  ASSUME DelegationTypeOK, [DelegationNext]_delegationVars
  PROVE  WorkGoesOn
<1> USE DEF WorkGoesOn, supervisorVars, harnessVars, childVars, WorkType, Busy, Ended,
             DelegationTypeOK
<1>1. ASSUME NEW a \in Agents, SpawnAsk(a) PROVE WorkGoesOn
  BY <1>1 DEF SpawnAsk
<1>2. ASSUME NEW a \in Agents, delegateRequest(a) PROVE WorkGoesOn
  BY <1>2 DEF delegateRequest
<1>3. ASSUME NEW a \in Agents, Reserve(a) PROVE WorkGoesOn
  <2>1. CASE reserved(a)
    <3>1. row'[a].status = "live"
      BY <1>3, <2>1, RowDomain DEF Reserve
    <3> QED BY <1>3, <2>1, <3>1 DEF Reserve, reserved
  <2>2. CASE ~reserved(a)
    BY <1>3, <2>2 DEF Reserve
  <2> QED BY <2>1, <2>2
<1>4. ASSUME NEW a \in Agents, ChildStarted(a) PROVE WorkGoesOn
  BY <1>4 DEF ChildStarted
<1>5. ASSUME NEW a \in Agents, StartFails(a) PROVE WorkGoesOn
  BY <1>5 DEF StartFails
<1>6. ASSUME NEW a \in Agents, SpawnTold(a) PROVE WorkGoesOn
  BY <1>6 DEF SpawnTold
<1>7. ASSUME NEW a \in Agents, SpawnGivenUp(a) PROVE WorkGoesOn
  BY <1>7 DEF SpawnGivenUp
<1>8. ASSUME NEW a \in Agents, PollAsk(a) PROVE WorkGoesOn
  BY <1>8 DEF PollAsk
<1>9. ASSUME NEW a \in Agents, PollServed(a) PROVE WorkGoesOn
  BY <1>9 DEF PollServed
<1>10. ASSUME NEW a \in Agents, PollTold(a) PROVE WorkGoesOn
  BY <1>10 DEF PollTold
<1>11. ASSUME NEW a \in Agents, PollFails(a) PROVE WorkGoesOn
  BY <1>11 DEF PollFails
<1>12. ASSUME NEW a \in Agents, routeToolResult(a) PROVE WorkGoesOn
  BY <1>12 DEF routeToolResult
<1>13. ASSUME NEW a \in Agents, Close(a) PROVE WorkGoesOn
  BY <1>13, CancelEffect DEF Close
<1>14. ASSUME NEW a \in Agents, CloseEnds(a) PROVE WorkGoesOn
  BY <1>14 DEF CloseEnds
<1>15. ASSUME NEW a \in Agents, StopChild(a) PROVE WorkGoesOn
  BY <1>15 DEF StopChild
<1>16. ASSUME NEW a \in Agents, ChildSays(a) PROVE WorkGoesOn
  BY <1>16 DEF ChildSays
<1>17. ASSUME NEW a \in Agents, ChildEnds(a) PROVE WorkGoesOn
  BY <1>17 DEF ChildEnds
<1>18. CASE TaskEnds
  BY <1>18 DEF TaskEnds
<1>19. CASE settle
  BY <1>19 DEF settle
<1>20. CASE CancelTurn
  BY <1>20, CancelEffect DEF CancelTurn
<1>21. CASE cancelAll
  BY <1>21 DEF cancelAll
<1>22. CASE Seal
  BY <1>22 DEF Seal
<1>23. CASE StopTurn
  BY <1>23 DEF StopTurn
<1>24. CASE NextParentTurn
  BY <1>24 DEF NextParentTurn
<1>25. CASE EvictParent
  BY <1>25 DEF EvictParent
<1>26. CASE UNCHANGED delegationVars
  BY <1>26 DEF delegationVars, DelegationTypeOK
<1> QED
  BY <1>1, <1>2, <1>3, <1>4, <1>5, <1>6, <1>7, <1>8, <1>9, <1>10, <1>11, <1>12, <1>13,
     <1>14, <1>15, <1>16, <1>17, <1>18, <1>19, <1>20, <1>21, <1>22, <1>23, <1>24, <1>25,
     <1>26
     DEF DelegationNext, Spawning, Following, Controlling

\* A log grows by one event of a child that works.
LogGoesOn ==
  /\ log' \in [Agents -> Seq(Event)]
  /\ \A b \in Agents : log'[b] # log[b] =>
        work[b] \in Busy /\ \E e \in Event : log'[b] = Append(log[b], e)

\* A log only grows, while its child works.
LEMMA LogStep ==
  ASSUME DelegationTypeOK, [DelegationNext]_delegationVars
  PROVE  LogGoesOn
<1> USE DEF LogGoesOn, supervisorVars, harnessVars, childVars, Busy, DelegationTypeOK
<1>1. ASSUME NEW a \in Agents, SpawnAsk(a) PROVE LogGoesOn
  BY <1>1 DEF SpawnAsk
<1>2. ASSUME NEW a \in Agents, delegateRequest(a) PROVE LogGoesOn
  BY <1>2 DEF delegateRequest
<1>3. ASSUME NEW a \in Agents, Reserve(a) PROVE LogGoesOn
  BY <1>3 DEF Reserve
<1>4. ASSUME NEW a \in Agents, ChildStarted(a) PROVE LogGoesOn
  BY <1>4 DEF ChildStarted
<1>5. ASSUME NEW a \in Agents, StartFails(a) PROVE LogGoesOn
  BY <1>5 DEF StartFails
<1>6. ASSUME NEW a \in Agents, SpawnTold(a) PROVE LogGoesOn
  BY <1>6 DEF SpawnTold
<1>7. ASSUME NEW a \in Agents, SpawnGivenUp(a) PROVE LogGoesOn
  BY <1>7 DEF SpawnGivenUp
<1>8. ASSUME NEW a \in Agents, PollAsk(a) PROVE LogGoesOn
  BY <1>8 DEF PollAsk
<1>9. ASSUME NEW a \in Agents, PollServed(a) PROVE LogGoesOn
  BY <1>9 DEF PollServed
<1>10. ASSUME NEW a \in Agents, PollTold(a) PROVE LogGoesOn
  BY <1>10 DEF PollTold
<1>11. ASSUME NEW a \in Agents, PollFails(a) PROVE LogGoesOn
  BY <1>11 DEF PollFails
<1>12. ASSUME NEW a \in Agents, routeToolResult(a) PROVE LogGoesOn
  BY <1>12 DEF routeToolResult
<1>13. ASSUME NEW a \in Agents, Close(a) PROVE LogGoesOn
  BY <1>13 DEF Close
<1>14. ASSUME NEW a \in Agents, CloseEnds(a) PROVE LogGoesOn
  BY <1>14 DEF CloseEnds
<1>15. ASSUME NEW a \in Agents, StopChild(a) PROVE LogGoesOn
  BY <1>15 DEF StopChild
<1>16. ASSUME NEW a \in Agents, ChildSays(a) PROVE LogGoesOn
  <2>1. PICK e \in Event : log' = [log EXCEPT ![a] = Append(@, e)]
    BY <1>16 DEF ChildSays, Event
  <2>2. log[a] \in Seq(Event) /\ Append(log[a], e) \in Seq(Event) /\ work[a] \in Busy
    BY <1>16 DEF ChildSays
  <2>3. log' \in [Agents -> Seq(Event)]
    BY <2>1, <2>2
  <2>4. \A b \in Agents : b # a => log'[b] = log[b]
    BY <2>1
  <2>5. log'[a] = Append(log[a], e)
    BY <2>1
  <2> HIDE DEF DelegationTypeOK, Busy
  <2> QED BY ONLY <2>2, <2>3, <2>4, <2>5 DEF LogGoesOn
<1>17. ASSUME NEW a \in Agents, ChildEnds(a) PROVE LogGoesOn
  BY <1>17 DEF ChildEnds
<1>18. CASE TaskEnds
  BY <1>18 DEF TaskEnds
<1>19. CASE settle
  BY <1>19 DEF settle
<1>20. CASE CancelTurn
  BY <1>20 DEF CancelTurn
<1>21. CASE cancelAll
  BY <1>21 DEF cancelAll
<1>22. CASE Seal
  BY <1>22 DEF Seal
<1>23. CASE StopTurn
  BY <1>23 DEF StopTurn
<1>24. CASE NextParentTurn
  BY <1>24 DEF NextParentTurn
<1>25. CASE EvictParent
  BY <1>25 DEF EvictParent
<1>26. CASE UNCHANGED delegationVars
  BY <1>26 DEF delegationVars, DelegationTypeOK
<1> QED
  BY <1>1, <1>2, <1>3, <1>4, <1>5, <1>6, <1>7, <1>8, <1>9, <1>10, <1>11, <1>12, <1>13,
     <1>14, <1>15, <1>16, <1>17, <1>18, <1>19, <1>20, <1>21, <1>22, <1>23, <1>24, <1>25,
     <1>26
     DEF DelegationNext, Spawning, Following, Controlling

\* A spawn starts once the HarnessDO reserved it, and stays started.
SpawnGoesOn ==
  /\ spawn' \in [Agents -> {"none", "sent", "arrived", "refused", "starting", "started"}]
  /\ \A b \in Agents : /\ spawn[b] = "started" => spawn'[b] = "started"
                       /\ spawn'[b] = "started" => spawn[b] \in {"starting", "started"}

\* A spawn that started stays so.
LEMMA SpawnStep ==
  ASSUME DelegationTypeOK, [DelegationNext]_delegationVars
  PROVE  SpawnGoesOn
<1> USE DEF SpawnGoesOn, supervisorVars, harnessVars, childVars, DelegationTypeOK
<1>1. ASSUME NEW a \in Agents, SpawnAsk(a) PROVE SpawnGoesOn
  BY <1>1 DEF SpawnAsk
<1>2. ASSUME NEW a \in Agents, delegateRequest(a) PROVE SpawnGoesOn
  BY <1>2 DEF delegateRequest
<1>3. ASSUME NEW a \in Agents, Reserve(a) PROVE SpawnGoesOn
  BY <1>3 DEF Reserve
<1>4. ASSUME NEW a \in Agents, ChildStarted(a) PROVE SpawnGoesOn
  BY <1>4 DEF ChildStarted
<1>5. ASSUME NEW a \in Agents, StartFails(a) PROVE SpawnGoesOn
  BY <1>5 DEF StartFails
<1>6. ASSUME NEW a \in Agents, SpawnTold(a) PROVE SpawnGoesOn
  BY <1>6 DEF SpawnTold
<1>7. ASSUME NEW a \in Agents, SpawnGivenUp(a) PROVE SpawnGoesOn
  BY <1>7 DEF SpawnGivenUp
<1>8. ASSUME NEW a \in Agents, PollAsk(a) PROVE SpawnGoesOn
  BY <1>8 DEF PollAsk
<1>9. ASSUME NEW a \in Agents, PollServed(a) PROVE SpawnGoesOn
  BY <1>9 DEF PollServed
<1>10. ASSUME NEW a \in Agents, PollTold(a) PROVE SpawnGoesOn
  BY <1>10 DEF PollTold
<1>11. ASSUME NEW a \in Agents, PollFails(a) PROVE SpawnGoesOn
  BY <1>11 DEF PollFails
<1>12. ASSUME NEW a \in Agents, routeToolResult(a) PROVE SpawnGoesOn
  BY <1>12 DEF routeToolResult
<1>13. ASSUME NEW a \in Agents, Close(a) PROVE SpawnGoesOn
  BY <1>13 DEF Close
<1>14. ASSUME NEW a \in Agents, CloseEnds(a) PROVE SpawnGoesOn
  BY <1>14 DEF CloseEnds
<1>15. ASSUME NEW a \in Agents, StopChild(a) PROVE SpawnGoesOn
  BY <1>15 DEF StopChild
<1>16. ASSUME NEW a \in Agents, ChildSays(a) PROVE SpawnGoesOn
  BY <1>16 DEF ChildSays
<1>17. ASSUME NEW a \in Agents, ChildEnds(a) PROVE SpawnGoesOn
  BY <1>17 DEF ChildEnds
<1>18. CASE TaskEnds
  BY <1>18 DEF TaskEnds
<1>19. CASE settle
  BY <1>19 DEF settle
<1>20. CASE CancelTurn
  BY <1>20 DEF CancelTurn
<1>21. CASE cancelAll
  BY <1>21 DEF cancelAll
<1>22. CASE Seal
  BY <1>22 DEF Seal
<1>23. CASE StopTurn
  BY <1>23 DEF StopTurn
<1>24. CASE NextParentTurn
  BY <1>24 DEF NextParentTurn
<1>25. CASE EvictParent
  BY <1>25 DEF EvictParent
<1>26. CASE UNCHANGED delegationVars
  BY <1>26 DEF delegationVars, DelegationTypeOK
<1> QED
  BY <1>1, <1>2, <1>3, <1>4, <1>5, <1>6, <1>7, <1>8, <1>9, <1>10, <1>11, <1>12, <1>13,
     <1>14, <1>15, <1>16, <1>17, <1>18, <1>19, <1>20, <1>21, <1>22, <1>23, <1>24, <1>25,
     <1>26
     DEF DelegationNext, Spawning, Following, Controlling

\* A poll is answered with what the HarnessDO has then.
PollGoesOn ==
  /\ poll' \in [Agents -> PollType]
  /\ \A b \in Agents : poll'[b].at = "answered" /\ poll'[b] # poll[b] =>
        poll[b].at = "sent" /\ poll'[b].batch = BatchOf(b)

\* A poll is answered with the page of that moment.
LEMMA PollStep ==
  ASSUME DelegationTypeOK,
         \A b \in Agents : ChildInv(b), [DelegationNext]_delegationVars
  PROVE  PollGoesOn
<1> USE DEF PollGoesOn, supervisorVars, harnessVars, childVars
<1>1. ASSUME NEW a \in Agents, SpawnAsk(a) PROVE PollGoesOn
  BY <1>1 DEF SpawnAsk, DelegationTypeOK
<1>2. ASSUME NEW a \in Agents, delegateRequest(a) PROVE PollGoesOn
  BY <1>2 DEF delegateRequest, DelegationTypeOK
<1>3. ASSUME NEW a \in Agents, Reserve(a) PROVE PollGoesOn
  BY <1>3 DEF Reserve, DelegationTypeOK
<1>4. ASSUME NEW a \in Agents, ChildStarted(a) PROVE PollGoesOn
  BY <1>4 DEF ChildStarted, DelegationTypeOK
<1>5. ASSUME NEW a \in Agents, StartFails(a) PROVE PollGoesOn
  BY <1>5 DEF StartFails, DelegationTypeOK
<1>6. ASSUME NEW a \in Agents, SpawnTold(a) PROVE PollGoesOn
  BY <1>6 DEF SpawnTold, DelegationTypeOK
<1>7. ASSUME NEW a \in Agents, SpawnGivenUp(a) PROVE PollGoesOn
  BY <1>7 DEF SpawnGivenUp, DelegationTypeOK
<1>8. ASSUME NEW a \in Agents, PollAsk(a) PROVE PollGoesOn
  BY <1>8, PollDomain DEF PollAsk, DelegationTypeOK, PollAt, Batches
<1>9. ASSUME NEW a \in Agents, PollServed(a) PROVE PollGoesOn
  <2> USE DEF DelegationTypeOK
  <2>1. poll[a] \in PollType
    OBVIOUS
  <2>2. CASE turn.revoked \/ turn.id # 1
    <3> DEFINE p == [poll[a] EXCEPT !.at = "refused"]
    <3>1. poll' = [poll EXCEPT ![a] = p]
      BY <1>9, <2>2 DEF PollServed
    <3>2. p \in PollType /\ p.at = "refused"
      BY <2>1, PollDomain
    <3> HIDE DEF p
    <3> QED BY <3>1, <3>2
  <2>3. CASE ~(turn.revoked \/ turn.id # 1)
    <3> DEFINE p == [at |-> "answered", batch |-> BatchOf(a)]
    <3>1. poll' = [poll EXCEPT ![a] = p] /\ poll[a].at = "sent"
      BY <1>9, <2>3 DEF PollServed
    <3>2. BatchOf(a) \in Batches
      BY <3>1, BatchIsPage DEF PageOf, Batches
    <3>3. p \in PollType /\ p.batch = BatchOf(a)
      BY <3>2, PollDomain DEF PollAt
    <3> HIDE DEF p
    <3> QED BY <3>1, <3>3
  <2> QED BY <2>2, <2>3
<1>10. ASSUME NEW a \in Agents, PollTold(a) PROVE PollGoesOn
  BY <1>10, PollDomain DEF PollTold, DelegationTypeOK
<1>11. ASSUME NEW a \in Agents, PollFails(a) PROVE PollGoesOn
  BY <1>11, PollDomain DEF PollFails, DelegationTypeOK
<1>12. ASSUME NEW a \in Agents, routeToolResult(a) PROVE PollGoesOn
  BY <1>12 DEF routeToolResult, DelegationTypeOK
<1>13. ASSUME NEW a \in Agents, Close(a) PROVE PollGoesOn
  BY <1>13 DEF Close, DelegationTypeOK
<1>14. ASSUME NEW a \in Agents, CloseEnds(a) PROVE PollGoesOn
  BY <1>14 DEF CloseEnds, DelegationTypeOK
<1>15. ASSUME NEW a \in Agents, StopChild(a) PROVE PollGoesOn
  BY <1>15 DEF StopChild, DelegationTypeOK
<1>16. ASSUME NEW a \in Agents, ChildSays(a) PROVE PollGoesOn
  BY <1>16 DEF ChildSays, DelegationTypeOK
<1>17. ASSUME NEW a \in Agents, ChildEnds(a) PROVE PollGoesOn
  BY <1>17 DEF ChildEnds, DelegationTypeOK
<1>18. CASE TaskEnds
  BY <1>18 DEF TaskEnds, DelegationTypeOK
<1>19. CASE settle
  BY <1>19 DEF settle, DelegationTypeOK
<1>20. CASE CancelTurn
  BY <1>20 DEF CancelTurn, DelegationTypeOK
<1>21. CASE cancelAll
  BY <1>21 DEF cancelAll, DelegationTypeOK
<1>22. CASE Seal
  BY <1>22 DEF Seal, DelegationTypeOK
<1>23. CASE StopTurn
  BY <1>23 DEF StopTurn, DelegationTypeOK
<1>24. CASE NextParentTurn
  BY <1>24 DEF NextParentTurn, DelegationTypeOK
<1>25. CASE EvictParent
  BY <1>25 DEF EvictParent, DelegationTypeOK
<1>26. CASE UNCHANGED delegationVars
  BY <1>26 DEF delegationVars, DelegationTypeOK
<1> QED
  BY <1>1, <1>2, <1>3, <1>4, <1>5, <1>6, <1>7, <1>8, <1>9, <1>10, <1>11, <1>12, <1>13,
     <1>14, <1>15, <1>16, <1>17, <1>18, <1>19, <1>20, <1>21, <1>22, <1>23, <1>24, <1>25,
     <1>26
     DEF DelegationNext, Spawning, Following, Controlling

\* The three ways a row changes.
RowGoesOn ==
  /\ row' \in [Agents -> RowType]
  /\ \A b \in Agents : row'[b] # row[b] =>
        \/ row'[b].status = "live" /\ spawn[b] = "arrived" /\ reserved(b)
        \/ row'[b].status # "live" /\ spawn[b] = "starting" /\ spawn'[b] # "started"
        \/ row'[b].status # "live" /\ poll[b].at = "sent" /\ row'[b].batch = BatchOf(b)

\* A row changes with a reservation, a failed start or a last page.
LEMMA RowStep ==
  ASSUME DelegationTypeOK,
         \A b \in Agents : ChildInv(b), [DelegationNext]_delegationVars
  PROVE  RowGoesOn
<1> USE DEF RowGoesOn, supervisorVars, harnessVars, childVars
<1>1. ASSUME NEW a \in Agents, SpawnAsk(a) PROVE RowGoesOn
  BY <1>1 DEF SpawnAsk, DelegationTypeOK
<1>2. ASSUME NEW a \in Agents, delegateRequest(a) PROVE RowGoesOn
  BY <1>2 DEF delegateRequest, DelegationTypeOK
<1>3. ASSUME NEW a \in Agents, Reserve(a) PROVE RowGoesOn
  <2>1. CASE reserved(a)
    <3>1. row' = [row EXCEPT ![a] = Live] /\ spawn[a] = "arrived"
      BY <1>3, <2>1 DEF Reserve
    <3>2. Live \in RowType /\ Live.status = "live"
      BY RowDomain
    <3> HIDE DEF Live
    <3> QED BY <2>1, <3>1, <3>2 DEF DelegationTypeOK
  <2>2. CASE ~reserved(a)
    BY <1>3, <2>2 DEF Reserve, DelegationTypeOK
  <2> QED BY <2>1, <2>2
<1>4. ASSUME NEW a \in Agents, ChildStarted(a) PROVE RowGoesOn
  BY <1>4 DEF ChildStarted, DelegationTypeOK
<1>5. ASSUME NEW a \in Agents, StartFails(a) PROVE RowGoesOn
  <2> DEFINE x == [status |-> "failed", batch |-> <<>>]
  <2>1. x \in RowType /\ x.status = "failed"
    BY RowDomain DEF RowStatus, Outcomes, Batches
  <2>2. row' = [row EXCEPT ![a] = x] /\ spawn[a] = "starting" /\ spawn'[a] = "refused"
    BY <1>5 DEF StartFails, DelegationTypeOK
  <2> HIDE DEF x
  <2> QED BY <2>1, <2>2 DEF DelegationTypeOK
<1>6. ASSUME NEW a \in Agents, SpawnTold(a) PROVE RowGoesOn
  BY <1>6 DEF SpawnTold, DelegationTypeOK
<1>7. ASSUME NEW a \in Agents, SpawnGivenUp(a) PROVE RowGoesOn
  BY <1>7 DEF SpawnGivenUp, DelegationTypeOK
<1>8. ASSUME NEW a \in Agents, PollAsk(a) PROVE RowGoesOn
  BY <1>8 DEF PollAsk, DelegationTypeOK
<1>9. ASSUME NEW a \in Agents, PollServed(a) PROVE RowGoesOn
  <2> DEFINE x == [status |-> BatchOf(a).status, batch |-> BatchOf(a)]
  <2>1. CASE UNCHANGED row
    BY <2>1 DEF DelegationTypeOK
  <2>2. CASE row' # row
    <3>1. /\ row' = [row EXCEPT ![a] = x] /\ poll[a].at = "sent"
          /\ BatchOf(a).status # "running"
      BY <1>9, <2>2 DEF PollServed
    <3>2. BatchOf(a) \in Page
      BY <3>1, BatchIsPage DEF PageOf
    <3>3. BatchOf(a).status \in Outcomes
      BY <3>1, <3>2 DEF Page
    <3>4. x \in RowType /\ x.status \in Outcomes /\ x.batch = BatchOf(a)
      BY <3>2, <3>3, RowDomain DEF RowStatus, Batches
    <3>5. x.status # "live"
      BY <3>4 DEF Outcomes
    <3> HIDE DEF x
    <3> QED BY <3>1, <3>4, <3>5 DEF DelegationTypeOK
  <2> QED BY <2>1, <2>2
<1>10. ASSUME NEW a \in Agents, PollTold(a) PROVE RowGoesOn
  BY <1>10 DEF PollTold, DelegationTypeOK
<1>11. ASSUME NEW a \in Agents, PollFails(a) PROVE RowGoesOn
  BY <1>11 DEF PollFails, DelegationTypeOK
<1>12. ASSUME NEW a \in Agents, routeToolResult(a) PROVE RowGoesOn
  BY <1>12 DEF routeToolResult, DelegationTypeOK
<1>13. ASSUME NEW a \in Agents, Close(a) PROVE RowGoesOn
  BY <1>13 DEF Close, DelegationTypeOK
<1>14. ASSUME NEW a \in Agents, CloseEnds(a) PROVE RowGoesOn
  BY <1>14 DEF CloseEnds, DelegationTypeOK
<1>15. ASSUME NEW a \in Agents, StopChild(a) PROVE RowGoesOn
  BY <1>15 DEF StopChild, DelegationTypeOK
<1>16. ASSUME NEW a \in Agents, ChildSays(a) PROVE RowGoesOn
  BY <1>16 DEF ChildSays, DelegationTypeOK
<1>17. ASSUME NEW a \in Agents, ChildEnds(a) PROVE RowGoesOn
  BY <1>17 DEF ChildEnds, DelegationTypeOK
<1>18. CASE TaskEnds
  BY <1>18 DEF TaskEnds, DelegationTypeOK
<1>19. CASE settle
  BY <1>19 DEF settle, DelegationTypeOK
<1>20. CASE CancelTurn
  BY <1>20 DEF CancelTurn, DelegationTypeOK
<1>21. CASE cancelAll
  BY <1>21 DEF cancelAll, DelegationTypeOK
<1>22. CASE Seal
  BY <1>22 DEF Seal, DelegationTypeOK
<1>23. CASE StopTurn
  BY <1>23 DEF StopTurn, DelegationTypeOK
<1>24. CASE NextParentTurn
  BY <1>24 DEF NextParentTurn, DelegationTypeOK
<1>25. CASE EvictParent
  BY <1>25 DEF EvictParent, DelegationTypeOK
<1>26. CASE UNCHANGED delegationVars
  BY <1>26 DEF delegationVars, DelegationTypeOK
<1> QED
  BY <1>1, <1>2, <1>3, <1>4, <1>5, <1>6, <1>7, <1>8, <1>9, <1>10, <1>11, <1>12, <1>13,
     <1>14, <1>15, <1>16, <1>17, <1>18, <1>19, <1>20, <1>21, <1>22, <1>23, <1>24, <1>25,
     <1>26
     DEF DelegationNext, Spawning, Following, Controlling

\* The records only go on, and the supervisor says what they say.
LEMMA RecordsStep ==
  ASSUME DelegationTypeOK,
         \A b \in Agents : ChildInv(b), [DelegationNext]_delegationVars
  PROVE  RecordsKept
<1>a. \A b \in Agents : Kept(said[b], kid[b]) /\ RelayShape(b)
  BY DEF ChildInv
<1>b. \A b \in Agents : kid[b].status # "none" /\ work[b] \notin Busy => work'[b] \notin Busy
  BY WorkStep DEF WorkGoesOn, ChildInv, SpawnShape, KidShape, StartShape
<1> USE DEF supervisorVars, harnessVars, childVars
<1>1. ASSUME NEW a \in Agents, SpawnAsk(a) PROVE RecordsKept
  <2>1. UNCHANGED <<kid, said, log>>
    BY <1>1 DEF SpawnAsk
  <2> QED BY <1>a, <1>b, <2>1, SameRecords
<1>2. ASSUME NEW a \in Agents, delegateRequest(a) PROVE RecordsKept
  <2>1. UNCHANGED <<kid, said, log>>
    BY <1>2 DEF delegateRequest
  <2> QED BY <1>a, <1>b, <2>1, SameRecords
<1>3. ASSUME NEW a \in Agents, Reserve(a) PROVE RecordsKept
  <2>1. UNCHANGED <<kid, said, log>>
    BY <1>3 DEF Reserve
  <2> QED BY <1>a, <1>b, <2>1, SameRecords
<1>4. ASSUME NEW a \in Agents, ChildStarted(a) PROVE RecordsKept
  <2>1. UNCHANGED <<kid, said, log>>
    BY <1>4 DEF ChildStarted
  <2> QED BY <1>a, <1>b, <2>1, SameRecords
<1>5. ASSUME NEW a \in Agents, StartFails(a) PROVE RecordsKept
  <2>1. UNCHANGED <<kid, said, log>>
    BY <1>5 DEF StartFails
  <2> QED BY <1>a, <1>b, <2>1, SameRecords
<1>6. ASSUME NEW a \in Agents, SpawnTold(a) PROVE RecordsKept
  BY <1>6, SpawnToldKeeps
<1>7. ASSUME NEW a \in Agents, SpawnGivenUp(a) PROVE RecordsKept
  <2>1. UNCHANGED <<kid, said, log>>
    BY <1>7 DEF SpawnGivenUp
  <2> QED BY <1>a, <1>b, <2>1, SameRecords
<1>8. ASSUME NEW a \in Agents, PollAsk(a) PROVE RecordsKept
  <2>1. UNCHANGED <<kid, said, log>>
    BY <1>8 DEF PollAsk
  <2> QED BY <1>a, <1>b, <2>1, SameRecords
<1>9. ASSUME NEW a \in Agents, PollServed(a) PROVE RecordsKept
  <2>1. UNCHANGED <<kid, said, log>>
    BY <1>9 DEF PollServed
  <2> QED BY <1>a, <1>b, <2>1, SameRecords
<1>10. ASSUME NEW a \in Agents, PollTold(a) PROVE RecordsKept
  BY <1>10, PollToldKeeps
<1>11. ASSUME NEW a \in Agents, PollFails(a) PROVE RecordsKept
  BY <1>11, PollFailsKeeps
<1>12. ASSUME NEW a \in Agents, routeToolResult(a) PROVE RecordsKept
  BY <1>12, RouteKeeps
<1>13. ASSUME NEW a \in Agents, Close(a) PROVE RecordsKept
  <2>1. UNCHANGED <<kid, said, log>>
    BY <1>13 DEF Close
  <2> QED BY <1>a, <1>b, <2>1, SameRecords
<1>14. ASSUME NEW a \in Agents, CloseEnds(a) PROVE RecordsKept
  BY <1>14, CloseEndsKeeps DEF CloseEnds
<1>15. ASSUME NEW a \in Agents, StopChild(a) PROVE RecordsKept
  <2>1. UNCHANGED <<kid, said, log>>
    BY <1>15 DEF StopChild
  <2> QED BY <1>a, <1>b, <2>1, SameRecords
<1>16. ASSUME NEW a \in Agents, ChildSays(a) PROVE RecordsKept
  <2>1. PICK e \in Event : log' = [log EXCEPT ![a] = Append(@, e)]
    BY <1>16 DEF ChildSays, Event
  <2>2. /\ kid' = kid /\ said' = said /\ work[a] \in Busy /\ work'[a] \in Busy
        /\ \A b \in Agents : b # a => log'[b] = log[b] /\ work'[b] = work[b]
    BY <1>16, <2>1 DEF ChildSays, DelegationTypeOK, Busy
  <2>3. kid' \in [Agents -> KidType] /\ said' \in [Agents -> Seq(Saying)]
    BY <2>2 DEF DelegationTypeOK
  <2>4. ASSUME NEW b \in Agents, b # a PROVE Followed(b)
    BY <1>a, <2>2, <2>4, SameRecord DEF ChildInv
  <2>5. Followed(a)
    <3>1. /\ said[a] \in Seq(Saying) /\ log[a] \in Seq(Event) /\ kid[a].cursor \in Nat
          /\ kid[a].cursor <= kid[a].cursor /\ Kept(said[a], kid[a])
          /\ Faithful(said[a], log[a], kid[a].cursor) /\ kid[a].status # "completed"
      BY <1>a, <2>2, RecordFacts
    <3>2. log'[a] = Append(log[a], e)
      BY <2>1 DEF DelegationTypeOK
    <3>3. Faithful(said'[a], log'[a], kid'[a].cursor)
      BY <2>2, <3>1, <3>2, FaithfulLog
    <3>4. kid'[a].cursor = kid[a].cursor /\ kid'[a] = kid[a] /\ said'[a] = said[a]
      BY <2>2
    <3> QED BY <3>1, <3>3, <3>4 DEF Followed, RelayShape
  <2> QED BY <2>3, <2>4, <2>5 DEF RecordsKept
<1>17. ASSUME NEW a \in Agents, ChildEnds(a) PROVE RecordsKept
  <2>1. UNCHANGED <<kid, said, log>>
    BY <1>17 DEF ChildEnds
  <2> QED BY <1>a, <1>b, <2>1, SameRecords
<1>18. CASE TaskEnds
  <2>1. UNCHANGED <<kid, said, log>>
    BY <1>18 DEF TaskEnds
  <2> QED BY <1>a, <1>b, <2>1, SameRecords
<1>19. CASE settle
  <2>1. UNCHANGED <<kid, said, log>>
    BY <1>19 DEF settle
  <2> QED BY <1>a, <1>b, <2>1, SameRecords
<1>20. CASE CancelTurn
  <2>1. UNCHANGED <<kid, said, log>>
    BY <1>20 DEF CancelTurn
  <2> QED BY <1>a, <1>b, <2>1, SameRecords
<1>21. CASE cancelAll
  BY <1>21, CancelAllKeeps
<1>22. CASE Seal
  <2>1. UNCHANGED <<kid, said, log>>
    BY <1>22 DEF Seal
  <2> QED BY <1>a, <1>b, <2>1, SameRecords
<1>23. CASE StopTurn
  <2>1. UNCHANGED <<kid, said, log>>
    BY <1>23 DEF StopTurn
  <2> QED BY <1>a, <1>b, <2>1, SameRecords
<1>24. CASE NextParentTurn
  <2>1. UNCHANGED <<kid, said, log>>
    BY <1>24 DEF NextParentTurn
  <2> QED BY <1>a, <1>b, <2>1, SameRecords
<1>25. CASE EvictParent
  <2>1. UNCHANGED <<kid, said, log>>
    BY <1>25 DEF EvictParent
  <2> QED BY <1>a, <1>b, <2>1, SameRecords
<1>26. CASE UNCHANGED delegationVars
  <2>1. UNCHANGED <<kid, said, log>>
    BY <1>26 DEF delegationVars
  <2> QED BY <1>a, <1>b, <2>1, SameRecords
<1> QED
  BY <1>1, <1>2, <1>3, <1>4, <1>5, <1>6, <1>7, <1>8, <1>9, <1>10, <1>11, <1>12, <1>13,
     <1>14, <1>15, <1>16, <1>17, <1>18, <1>19, <1>20, <1>21, <1>22, <1>23, <1>24, <1>25,
     <1>26
     DEF DelegationNext, Spawning, Following, Controlling

-----------------------------------------------------------------------------
(* The parts of the invariant                                              *)

\* A page stays one while the log keeps what it has and nobody is revived.
LEMMA PageStays ==
  ASSUME DelegationTypeOK,
         \A b \in Agents : ChildInv(b), [DelegationNext]_delegationVars,
         NEW a \in Agents, NEW b, PageOf(a, b), spawn[a] = "started"
  PROVE  PageOf(a, b)'
<1>1. Followed(a) /\ kid'[a] \in KidType
  BY RecordsStep DEF RecordsKept
<1>2. /\ kid[a].cursor \in Nat /\ log[a] \in Seq(Event) /\ Len(log[a]) \in Nat
      /\ b \in Page /\ b.from \in Nat /\ b.events \in Seq(Event) /\ Len(b.events) \in Nat
  BY CursorInLog DEF ChildInv, PageOf, Page
<1>3. b.from <= kid'[a].cursor
  <2>1. kid[a].cursor <= kid'[a].cursor /\ kid'[a].cursor \in Nat
    BY <1>1, KidDomain DEF Followed
  <2> QED BY <1>2, <2>1 DEF PageOf
<1>4. /\ b.from + Len(b.events) <= Len(log[a])
      /\ \A n \in 1..Len(b.events) : b.events[n] = log[a][b.from + n]
      /\ b.status # "running" => b.from + Len(b.events) = Len(log[a]) /\ work[a] \notin Busy
  BY DEF PageOf
<1>5. work[a] \notin Busy => work'[a] \notin Busy
  BY WorkStep DEF WorkGoesOn
<1>6. CASE log'[a] = log[a]
  BY <1>2, <1>3, <1>4, <1>5, <1>6 DEF PageOf
<1>7. CASE log'[a] # log[a]
  <2>1. PICK e \in Event : work[a] \in Busy /\ log'[a] = Append(log[a], e)
    BY <1>7, LogStep DEF LogGoesOn
  <2>2. /\ Len(log'[a]) = Len(log[a]) + 1
        /\ \A n \in 1..Len(log[a]) : log'[a][n] = log[a][n]
    BY <1>2, <2>1
  <2>3. b.from + Len(b.events) <= Len(log'[a])
    BY <1>2, <1>4, <2>2
  <2>4. ASSUME NEW n \in 1..Len(b.events) PROVE b.events[n] = log'[a][b.from + n]
    <3>1. b.from + n \in 1..Len(log[a])
      BY <1>2, <1>4
    <3> QED BY <1>4, <2>2, <3>1
  <2> QED BY <1>2, <1>3, <1>4, <2>1, <2>3, <2>4 DEF PageOf
<1> QED BY <1>6, <1>7

\* Every page of the next state is one.
LEMMA PageStep ==
  ASSUME DelegationTypeOK,
         \A b \in Agents : ChildInv(b), [DelegationNext]_delegationVars
  PROVE  \A a \in Agents : PageShape(a)'
<1> SUFFICES ASSUME NEW a \in Agents PROVE PageShape(a)'
  OBVIOUS
<1>0. PageShape(a) /\ KidShape(a) /\ StartShape(a)
  BY DEF ChildInv, SpawnShape
<1>1. \A b : spawn[a] = "started" /\ PageOf(a, b) => PageOf(a, b)'
  BY PageStays
<1>2. ASSUME poll[a].at = "sent" PROVE PageOf(a, BatchOf(a)) /\ spawn[a] = "started"
  BY <1>2, BatchIsPage
<1>3. ASSUME poll'[a].at = "answered", NEW b, b = poll'[a].batch PROVE PageOf(a, b)'
  <2>1. CASE poll'[a] = poll[a]
    <3>1. PageOf(a, b) /\ spawn[a] = "started"
      BY <1>0, <1>3, <2>1 DEF PageShape, KidShape
    <3> QED BY <1>1, <3>1
  <2>2. CASE poll'[a] # poll[a]
    <3>1. poll[a].at = "sent" /\ b = BatchOf(a)
      BY <1>3, <2>2, PollStep DEF PollGoesOn
    <3>2. PageOf(a, b) /\ spawn[a] = "started"
      BY <1>2, <3>1
    <3> QED BY <1>1, <3>2
  <2> QED BY <2>1, <2>2
<1>4. ASSUME spawn'[a] = "started", row'[a].status # "live", NEW b, b = row'[a].batch
      PROVE  PageOf(a, b)'
  <2>1. spawn[a] \in {"starting", "started"}
    BY <1>4, SpawnStep DEF SpawnGoesOn
  <2>2. CASE row'[a] = row[a]
    <3>1. PageOf(a, b) /\ spawn[a] = "started"
      BY <1>0, <1>4, <2>1, <2>2 DEF PageShape, StartShape
    <3> QED BY <1>1, <3>1
  <2>3. CASE row'[a] # row[a]
    <3>1. poll[a].at = "sent" /\ b = BatchOf(a)
      BY <1>4, <2>1, <2>3, RowStep DEF RowGoesOn
    <3>2. PageOf(a, b) /\ spawn[a] = "started"
      BY <1>2, <3>1
    <3> QED BY <1>1, <3>2
  <2> QED BY <2>2, <2>3
<1> QED
  <2>1. poll'[a].at = "answered" => PageOf(a, poll[a].batch)'
    BY <1>3 DEF PageOf
  <2>2. spawn'[a] = "started" /\ row'[a].status # "live" => PageOf(a, row[a].batch)'
    BY <1>4 DEF PageOf
  <2> QED BY <2>1, <2>2 DEF PageShape

\* The rest of the types.
LEMMA TypeStep ==
  ASSUME DelegationTypeOK,
         \A b \in Agents : ChildInv(b), [DelegationNext]_delegationVars
  PROVE  DelegationTypeOK'
<1>T. /\ kid' \in [Agents -> KidType] /\ said' \in [Agents -> Seq(Saying)]
      /\ spawn' \in [Agents -> {"none", "sent", "arrived", "refused", "starting", "started"}]
      /\ poll' \in [Agents -> PollType] /\ row' \in [Agents -> RowType]
      /\ work' \in [Agents -> WorkType] /\ log' \in [Agents -> Seq(Event)]
  BY RecordsStep, SpawnStep, PollStep, RowStep, WorkStep, LogStep
     DEF RecordsKept, SpawnGoesOn, PollGoesOn, RowGoesOn, WorkGoesOn, LogGoesOn
<1> USE DEF supervisorVars, harnessVars, childVars, DelegationTypeOK
<1>1. ASSUME NEW a \in Agents, SpawnAsk(a) PROVE DelegationTypeOK'
  BY <1>T, <1>1 DEF SpawnAsk
<1>2. ASSUME NEW a \in Agents, delegateRequest(a) PROVE DelegationTypeOK'
  BY <1>T, <1>2 DEF delegateRequest
<1>3. ASSUME NEW a \in Agents, Reserve(a) PROVE DelegationTypeOK'
  BY <1>T, <1>3 DEF Reserve
<1>4. ASSUME NEW a \in Agents, ChildStarted(a) PROVE DelegationTypeOK'
  BY <1>T, <1>4 DEF ChildStarted
<1>5. ASSUME NEW a \in Agents, StartFails(a) PROVE DelegationTypeOK'
  BY <1>T, <1>5 DEF StartFails
<1>6. ASSUME NEW a \in Agents, SpawnTold(a) PROVE DelegationTypeOK'
  BY <1>T, <1>6 DEF SpawnTold
<1>7. ASSUME NEW a \in Agents, SpawnGivenUp(a) PROVE DelegationTypeOK'
  BY <1>T, <1>7 DEF SpawnGivenUp
<1>8. ASSUME NEW a \in Agents, PollAsk(a) PROVE DelegationTypeOK'
  BY <1>T, <1>8 DEF PollAsk
<1>9. ASSUME NEW a \in Agents, PollServed(a) PROVE DelegationTypeOK'
  BY <1>T, <1>9 DEF PollServed
<1>10. ASSUME NEW a \in Agents, PollTold(a) PROVE DelegationTypeOK'
  BY <1>10, <1>T, PollToldKeeps DEF PollTold
<1>11. ASSUME NEW a \in Agents, PollFails(a) PROVE DelegationTypeOK'
  BY <1>T, <1>11 DEF PollFails
<1>12. ASSUME NEW a \in Agents, routeToolResult(a) PROVE DelegationTypeOK'
  BY <1>T, <1>12 DEF routeToolResult
<1>13. ASSUME NEW a \in Agents, Close(a) PROVE DelegationTypeOK'
  BY <1>T, <1>13 DEF Close
<1>14. ASSUME NEW a \in Agents, CloseEnds(a) PROVE DelegationTypeOK'
  BY <1>T, <1>14 DEF CloseEnds
<1>15. ASSUME NEW a \in Agents, StopChild(a) PROVE DelegationTypeOK'
  BY <1>T, <1>15 DEF StopChild
<1>16. ASSUME NEW a \in Agents, ChildSays(a) PROVE DelegationTypeOK'
  BY <1>T, <1>16 DEF ChildSays
<1>17. ASSUME NEW a \in Agents, ChildEnds(a) PROVE DelegationTypeOK'
  BY <1>T, <1>17 DEF ChildEnds
<1>18. CASE TaskEnds
  BY <1>T, <1>18 DEF TaskEnds
<1>19. CASE settle
  BY <1>T, <1>19 DEF settle
<1>20. CASE CancelTurn
  BY <1>T, <1>20 DEF CancelTurn
<1>21. CASE cancelAll
  BY <1>T, <1>21 DEF cancelAll
<1>22. CASE Seal
  BY <1>T, <1>22 DEF Seal
<1>23. CASE StopTurn
  <2>1. turn' \in [id : {1, 2}, revoked : BOOLEAN]
    BY <1>23, TurnDomain DEF StopTurn
  <2>2. stops' \subseteq Agents /\ stopped' \in BOOLEAN
    BY <1>23 DEF StopTurn, LiveRows
  <2> QED BY <1>T, <1>23, <2>1, <2>2 DEF StopTurn
<1>24. CASE NextParentTurn
  BY <1>T, <1>24 DEF NextParentTurn
<1>25. CASE EvictParent
  BY <1>T, <1>25 DEF EvictParent
<1>26. CASE UNCHANGED delegationVars
  BY <1>26 DEF delegationVars, DelegationTypeOK
<1> QED
  BY <1>1, <1>2, <1>3, <1>4, <1>5, <1>6, <1>7, <1>8, <1>9, <1>10, <1>11, <1>12, <1>13,
     <1>14, <1>15, <1>16, <1>17, <1>18, <1>19, <1>20, <1>21, <1>22, <1>23, <1>24, <1>25,
     <1>26
     DEF DelegationNext, Spawning, Following, Controlling

\* A child whose spawn does not move keeps its shape.
LEMMA KidShapeKept ==
  ASSUME NEW b \in Agents, KidShape(b), spawn'[b] = spawn[b],
         kid[b].status # "none" => kid'[b].status # "none",
         kid'[b].status = "none" => kid'[b] = kid[b],
         b \in asked' => b \in asked, kid[b].status = "none" => kid'[b].status = "none",
         b \in closing' => b \in closing \/ kid[b].status # "none",
         poll'[b] = poll[b] \/ kid[b].status # "none"
  PROVE  KidShape(b)'
<1>1. CASE kid[b].status = "none"
  <2>1. /\ kid'[b].status = "none" => kid'[b] = kid[b]
        /\ b \notin closing' /\ poll'[b].at = "idle"
    BY <1>1 DEF KidShape
  <2> QED BY <1>1, <2>1 DEF KidShape
<1>2. CASE kid[b].status # "none"
  BY <1>2 DEF KidShape
<1> QED BY <1>1, <1>2

\* What the supervisor knows of each child.
LEMMA KidShapeStep ==
  ASSUME DelegationTypeOK,
         \A b \in Agents : ChildInv(b), [DelegationNext]_delegationVars
  PROVE  \A b \in Agents : KidShape(b)'
<1>0. \A b \in Agents : KidShape(b)
  BY DEF ChildInv, SpawnShape
<1>r. /\ \A b \in Agents : /\ kid[b].status # "none" => kid'[b].status # "none"
                           /\ kid'[b].status = "none" => kid'[b] = kid[b]
      /\ \A b \in Agents : spawn[b] = "started" => spawn'[b] = "started"
  <2>1. \A b \in Agents : Followed(b)
    BY RecordsStep DEF RecordsKept
  <2>2. \A b \in Agents : spawn[b] = "started" => spawn'[b] = "started"
    <3>1. SpawnGoesOn
      BY SpawnStep
    <3> QED BY ONLY <3>1 DEF SpawnGoesOn
  <2> QED BY <2>1, <2>2 DEF Followed
<1> USE DEF supervisorVars, harnessVars, childVars
<1>1. ASSUME NEW a \in Agents, SpawnAsk(a) PROVE \A b \in Agents : KidShape(b)'
  BY <1>0, <1>r, <1>1 DEF SpawnAsk, KidShape, DelegationTypeOK
<1>2. ASSUME NEW a \in Agents, delegateRequest(a) PROVE \A b \in Agents : KidShape(b)'
  BY <1>0, <1>r, <1>2 DEF delegateRequest, KidShape, DelegationTypeOK
<1>3. ASSUME NEW a \in Agents, Reserve(a) PROVE \A b \in Agents : KidShape(b)'
  BY <1>0, <1>r, <1>3 DEF Reserve, KidShape, DelegationTypeOK
<1>4. ASSUME NEW a \in Agents, ChildStarted(a) PROVE \A b \in Agents : KidShape(b)'
  BY <1>0, <1>r, <1>4 DEF ChildStarted, KidShape, DelegationTypeOK
<1>5. ASSUME NEW a \in Agents, StartFails(a) PROVE \A b \in Agents : KidShape(b)'
  BY <1>0, <1>r, <1>5 DEF StartFails, KidShape, DelegationTypeOK
<1>6. ASSUME NEW a \in Agents, SpawnTold(a) PROVE \A b \in Agents : KidShape(b)'
  BY <1>0, <1>r, <1>6 DEF SpawnTold, KidShape, DelegationTypeOK
<1>7. ASSUME NEW a \in Agents, SpawnGivenUp(a) PROVE \A b \in Agents : KidShape(b)'
  BY <1>0, <1>r, <1>7 DEF SpawnGivenUp, KidShape, DelegationTypeOK
<1>8. ASSUME NEW a \in Agents, PollAsk(a) PROVE \A b \in Agents : KidShape(b)'
  <2>0. kid' = kid
    BY <1>8 DEF PollAsk
  <2>1. /\ kid[a].status # "none" /\ \A b \in Agents : b # a => poll'[b] = poll[b]
        /\ asked' = asked /\ spawn' = spawn /\ closing' = closing
    BY <1>0, <1>8 DEF PollAsk, KidShape, active, DelegationTypeOK
  <2> QED BY <1>0, <1>r, <2>0, <2>1, KidShapeKept
<1>9. ASSUME NEW a \in Agents, PollServed(a) PROVE \A b \in Agents : KidShape(b)'
  <2>0. kid' = kid
    BY <1>9 DEF PollServed
  <2>1. /\ kid[a].status # "none" /\ \A b \in Agents : b # a => poll'[b] = poll[b]
        /\ asked' = asked /\ spawn' = spawn /\ closing' = closing
    BY <1>0, <1>9 DEF PollServed, KidShape, active, DelegationTypeOK
  <2> QED BY <1>0, <1>r, <2>0, <2>1, KidShapeKept
<1>10. ASSUME NEW a \in Agents, PollTold(a) PROVE \A b \in Agents : KidShape(b)'
  BY <1>0, <1>r, <1>10 DEF PollTold, KidShape, DelegationTypeOK
<1>11. ASSUME NEW a \in Agents, PollFails(a) PROVE \A b \in Agents : KidShape(b)'
  <2>0. \A b \in Agents : kid[b].status = "none" => kid'[b].status = "none"
    BY <1>11 DEF PollFails, terminate, active, DelegationTypeOK
  <2>1. /\ kid[a].status # "none" /\ \A b \in Agents : b # a => poll'[b] = poll[b]
        /\ asked' = asked /\ spawn' = spawn /\ closing' = closing
    BY <1>0, <1>11 DEF PollFails, KidShape, active, DelegationTypeOK
  <2> QED BY <1>0, <1>r, <2>0, <2>1, KidShapeKept
<1>12. ASSUME NEW a \in Agents, routeToolResult(a) PROVE \A b \in Agents : KidShape(b)'
  BY <1>0, <1>r, <1>12 DEF routeToolResult, KidShape, DelegationTypeOK
<1>13. ASSUME NEW a \in Agents, Close(a) PROVE \A b \in Agents : KidShape(b)'
  <2>0. kid' = kid
    BY <1>13 DEF Close
  <2>1. /\ kid[a].status # "none" /\ closing' = closing \cup {a}
        /\ asked' = asked /\ spawn' = spawn /\ poll' = poll
    BY <1>13 DEF Close, active
  <2> QED BY <1>0, <1>r, <2>0, <2>1, KidShapeKept
<1>14. ASSUME NEW a \in Agents, CloseEnds(a) PROVE \A b \in Agents : KidShape(b)'
  BY <1>0, <1>r, <1>14 DEF CloseEnds, KidShape, DelegationTypeOK
<1>15. ASSUME NEW a \in Agents, StopChild(a) PROVE \A b \in Agents : KidShape(b)'
  BY <1>0, <1>r, <1>15 DEF StopChild, KidShape, DelegationTypeOK
<1>16. ASSUME NEW a \in Agents, ChildSays(a) PROVE \A b \in Agents : KidShape(b)'
  BY <1>0, <1>r, <1>16 DEF ChildSays, KidShape, DelegationTypeOK
<1>17. ASSUME NEW a \in Agents, ChildEnds(a) PROVE \A b \in Agents : KidShape(b)'
  BY <1>0, <1>r, <1>17 DEF ChildEnds, KidShape, DelegationTypeOK
<1>18. CASE TaskEnds
  BY <1>0, <1>r, <1>18 DEF TaskEnds, KidShape, DelegationTypeOK
<1>19. CASE settle
  BY <1>0, <1>r, <1>19 DEF settle, KidShape, DelegationTypeOK
<1>20. CASE CancelTurn
  BY <1>0, <1>r, <1>20 DEF CancelTurn, KidShape, DelegationTypeOK
<1>21. CASE cancelAll
  <2>0. \A b \in Agents : kid[b].status = "none" => kid'[b].status = "none"
    BY <1>21 DEF cancelAll, terminate, active, DelegationTypeOK
  <2>1. asked' = asked /\ spawn' = spawn /\ poll' = poll /\ closing' = closing
    BY <1>21 DEF cancelAll
  <2> QED BY <1>0, <1>r, <2>0, <2>1, KidShapeKept
<1>22. CASE Seal
  BY <1>0, <1>r, <1>22 DEF Seal, KidShape, DelegationTypeOK
<1>23. CASE StopTurn
  BY <1>0, <1>r, <1>23 DEF StopTurn, KidShape, DelegationTypeOK
<1>24. CASE NextParentTurn
  BY <1>0, <1>r, <1>24 DEF NextParentTurn, KidShape, DelegationTypeOK
<1>25. CASE EvictParent
  BY <1>0, <1>r, <1>25 DEF EvictParent, KidShape, DelegationTypeOK
<1>26. CASE UNCHANGED delegationVars
  BY <1>0, <1>26 DEF delegationVars, KidShape
<1> QED
  BY <1>1, <1>2, <1>3, <1>4, <1>5, <1>6, <1>7, <1>8, <1>9, <1>10, <1>11, <1>12, <1>13,
     <1>14, <1>15, <1>16, <1>17, <1>18, <1>19, <1>20, <1>21, <1>22, <1>23, <1>24, <1>25,
     <1>26
     DEF DelegationNext, Spawning, Following, Controlling

\* What the HarnessDO knows of each child.
LEMMA StartShapeStep ==
  ASSUME DelegationTypeOK,
         \A b \in Agents : ChildInv(b), [DelegationNext]_delegationVars
  PROVE  \A b \in Agents : StartShape(b)'
<1>0. \A b \in Agents : StartShape(b)
  BY DEF ChildInv, SpawnShape
<1> USE DEF supervisorVars, harnessVars, childVars
<1>1. ASSUME NEW a \in Agents, SpawnAsk(a) PROVE \A b \in Agents : StartShape(b)'
  BY <1>0, <1>1 DEF SpawnAsk, StartShape, DelegationTypeOK, Busy, Live
<1>2. ASSUME NEW a \in Agents, delegateRequest(a) PROVE \A b \in Agents : StartShape(b)'
  BY <1>0, <1>2 DEF delegateRequest, StartShape, DelegationTypeOK, Busy, Live
<1>3. ASSUME NEW a \in Agents, Reserve(a) PROVE \A b \in Agents : StartShape(b)'
  <2>1. CASE reserved(a)
    <3>1. /\ spawn[a] = "arrived" /\ row'[a].status = "live" /\ work'[a] = "starting"
          /\ spawn'[a] = "starting" /\ unstopped' = unstopped
          /\ \A b \in Agents : b # a =>
                row'[b] = row[b] /\ work'[b] = work[b] /\ spawn'[b] = spawn[b]
      BY <1>3, <2>1, RowDomain DEF Reserve, DelegationTypeOK
    <3>2. stops' = stops
      BY <1>3 DEF Reserve
    <3> QED BY <1>0, <3>1, <3>2 DEF StartShape
  <2>2. CASE ~reserved(a)
    BY <1>0, <1>3, <2>2 DEF Reserve, StartShape, DelegationTypeOK
  <2> QED BY <2>1, <2>2
<1>4. ASSUME NEW a \in Agents, ChildStarted(a) PROVE \A b \in Agents : StartShape(b)'
  BY <1>0, <1>4 DEF ChildStarted, StartShape, DelegationTypeOK, Busy, Live
<1>5. ASSUME NEW a \in Agents, StartFails(a) PROVE \A b \in Agents : StartShape(b)'
  BY <1>0, <1>5 DEF StartFails, StartShape, DelegationTypeOK, Busy, Live
<1>6. ASSUME NEW a \in Agents, SpawnTold(a) PROVE \A b \in Agents : StartShape(b)'
  BY <1>0, <1>6 DEF SpawnTold, StartShape, DelegationTypeOK, Busy, Live
<1>7. ASSUME NEW a \in Agents, SpawnGivenUp(a) PROVE \A b \in Agents : StartShape(b)'
  BY <1>0, <1>7 DEF SpawnGivenUp, StartShape, DelegationTypeOK, Busy, Live
<1>8. ASSUME NEW a \in Agents, PollAsk(a) PROVE \A b \in Agents : StartShape(b)'
  BY <1>0, <1>8 DEF PollAsk, StartShape, DelegationTypeOK, Busy, Live
<1>9. ASSUME NEW a \in Agents, PollServed(a) PROVE \A b \in Agents : StartShape(b)'
  <2>1. /\ spawn[a] = "started" /\ spawn' = spawn
        /\ BatchOf(a).status # "running" => work[a] \notin Busy
    BY <1>9, BatchIsPage DEF PollServed, PageOf
  <2>2. CASE UNCHANGED <<row, work, unstopped>>
    BY <1>0, <1>9, <2>2 DEF PollServed, StartShape
  <2>3. CASE ~UNCHANGED <<row, work, unstopped>>
    <3> DEFINE x == [status |-> BatchOf(a).status, batch |-> BatchOf(a)]
    <3>1. /\ row' = [row EXCEPT ![a] = x] /\ BatchOf(a).status # "running"
          /\ work' = work \/ work' = [work EXCEPT ![a] = "stopped"]
          /\ unstopped \subseteq unstopped' /\ stops' = stops
      BY <1>9, <2>3 DEF PollServed
    <3>2. BatchOf(a).status \in Outcomes
      BY <1>9, <3>1, BatchIsPage DEF PollServed, PageOf, Page
    <3>3. x.status # "none"
      BY <3>2 DEF Outcomes
    <3> HIDE DEF x
    <3>4. /\ row'[a].status # "none" /\ work'[a] \notin Busy
          /\ \A b \in Agents : b # a => row'[b] = row[b] /\ work'[b] = work[b]
      BY <2>1, <3>1, <3>3 DEF DelegationTypeOK, Busy
    <3> QED BY <1>0, <2>1, <3>1, <3>4 DEF StartShape
  <2> QED BY <2>2, <2>3
<1>10. ASSUME NEW a \in Agents, PollTold(a) PROVE \A b \in Agents : StartShape(b)'
  BY <1>0, <1>10 DEF PollTold, StartShape, DelegationTypeOK, Busy, Live
<1>11. ASSUME NEW a \in Agents, PollFails(a) PROVE \A b \in Agents : StartShape(b)'
  BY <1>0, <1>11 DEF PollFails, StartShape, DelegationTypeOK, Busy, Live
<1>12. ASSUME NEW a \in Agents, routeToolResult(a) PROVE \A b \in Agents : StartShape(b)'
  BY <1>0, <1>12 DEF routeToolResult, StartShape, DelegationTypeOK, Busy, Live
<1>13. ASSUME NEW a \in Agents, Close(a) PROVE \A b \in Agents : StartShape(b)'
  <2>1. \A b \in Agents : work'[b] # work[b] => work'[b] \notin Busy /\ work[b] \in Busy
    BY <1>13, CancelEffect DEF Close, Busy
  <2> QED BY <1>0, <1>13, <2>1 DEF Close, StartShape, Busy
<1>14. ASSUME NEW a \in Agents, CloseEnds(a) PROVE \A b \in Agents : StartShape(b)'
  BY <1>0, <1>14 DEF CloseEnds, StartShape, DelegationTypeOK, Busy, Live
<1>15. ASSUME NEW a \in Agents, StopChild(a) PROVE \A b \in Agents : StartShape(b)'
  <2>1. /\ \A b \in Agents : work'[b] = work[b] \/ (b = a /\ work'[b] = "stopped")
        /\ \A b \in Agents : b \in unstopped => b \in unstopped'
        /\ row' = row /\ spawn' = spawn
    BY <1>15 DEF StopChild, DelegationTypeOK
  <2>2. row[a].status # "none"
    BY <1>0, <1>15 DEF StopChild, StartShape
  <2>3. stops' \subseteq stops
    BY <1>15 DEF StopChild
  <2> QED BY <1>0, <2>1, <2>2, <2>3 DEF StartShape, Busy
<1>16. ASSUME NEW a \in Agents, ChildSays(a) PROVE \A b \in Agents : StartShape(b)'
  BY <1>0, <1>16 DEF ChildSays, StartShape, DelegationTypeOK, Busy, Live
<1>17. ASSUME NEW a \in Agents, ChildEnds(a) PROVE \A b \in Agents : StartShape(b)'
  BY <1>0, <1>17 DEF ChildEnds, StartShape, DelegationTypeOK, Busy, Live
<1>18. CASE TaskEnds
  BY <1>0, <1>18 DEF TaskEnds, StartShape, DelegationTypeOK, Busy, Live
<1>19. CASE settle
  BY <1>0, <1>19 DEF settle, StartShape, DelegationTypeOK, Busy, Live
<1>20. CASE CancelTurn
  <2>1. \A b \in Agents : work'[b] # work[b] => work'[b] \notin Busy /\ work[b] \in Busy
    BY <1>20, CancelEffect DEF CancelTurn, Busy
  <2> QED BY <1>0, <1>20, <2>1 DEF CancelTurn, StartShape, Busy
<1>21. CASE cancelAll
  BY <1>0, <1>21 DEF cancelAll, StartShape, DelegationTypeOK, Busy, Live
<1>22. CASE Seal
  BY <1>0, <1>22 DEF Seal, StartShape, DelegationTypeOK, Busy, Live
<1>23. CASE StopTurn
  BY <1>0, <1>23 DEF StopTurn, StartShape, LiveRows
<1>24. CASE NextParentTurn
  BY <1>0, <1>24 DEF NextParentTurn, StartShape, DelegationTypeOK, Busy, Live
<1>25. CASE EvictParent
  BY <1>0, <1>25 DEF EvictParent, StartShape, DelegationTypeOK, Busy, Live
<1>26. CASE UNCHANGED delegationVars
  BY <1>0, <1>26 DEF delegationVars, StartShape
<1> QED
  BY <1>1, <1>2, <1>3, <1>4, <1>5, <1>6, <1>7, <1>8, <1>9, <1>10, <1>11, <1>12, <1>13,
     <1>14, <1>15, <1>16, <1>17, <1>18, <1>19, <1>20, <1>21, <1>22, <1>23, <1>24, <1>25,
     <1>26
     DEF DelegationNext, Spawning, Following, Controlling

\* A parent that completed has no child in progress.
LEMMA SettledStep ==
  ASSUME DelegationTypeOK,
         \A b \in Agents : ChildInv(b),
         task = "completed" => active = {}, [DelegationNext]_delegationVars
  PROVE  task' = "completed" => active' = {}
<1> USE DEF supervisorVars, harnessVars, childVars, Sealed
<1>1. ASSUME NEW a \in Agents, SpawnAsk(a) PROVE task' = "completed" => active' = {}
  BY <1>1 DEF SpawnAsk, active
<1>2. ASSUME NEW a \in Agents, delegateRequest(a) PROVE task' = "completed" => active' = {}
  BY <1>2 DEF delegateRequest, active
<1>3. ASSUME NEW a \in Agents, Reserve(a) PROVE task' = "completed" => active' = {}
  BY <1>3 DEF Reserve, active
<1>4. ASSUME NEW a \in Agents, ChildStarted(a) PROVE task' = "completed" => active' = {}
  BY <1>4 DEF ChildStarted, active
<1>5. ASSUME NEW a \in Agents, StartFails(a) PROVE task' = "completed" => active' = {}
  BY <1>5 DEF StartFails, active
<1>6. ASSUME NEW a \in Agents, SpawnTold(a) PROVE task' = "completed" => active' = {}
  BY <1>6 DEF SpawnTold, active
<1>7. ASSUME NEW a \in Agents, SpawnGivenUp(a) PROVE task' = "completed" => active' = {}
  BY <1>7 DEF SpawnGivenUp, active
<1>8. ASSUME NEW a \in Agents, PollAsk(a) PROVE task' = "completed" => active' = {}
  BY <1>8 DEF PollAsk, active
<1>9. ASSUME NEW a \in Agents, PollServed(a) PROVE task' = "completed" => active' = {}
  BY <1>9 DEF PollServed, active
<1>10. ASSUME NEW a \in Agents, PollTold(a) PROVE task' = "completed" => active' = {}
  BY <1>10, PollToldKeeps DEF PollTold
<1>11. ASSUME NEW a \in Agents, PollFails(a) PROVE task' = "completed" => active' = {}
  BY <1>11 DEF PollFails, active
<1>12. ASSUME NEW a \in Agents, routeToolResult(a) PROVE task' = "completed" => active' = {}
  BY <1>12 DEF routeToolResult, active
<1>13. ASSUME NEW a \in Agents, Close(a) PROVE task' = "completed" => active' = {}
  BY <1>13 DEF Close, active
<1>14. ASSUME NEW a \in Agents, CloseEnds(a) PROVE task' = "completed" => active' = {}
  BY <1>14 DEF CloseEnds, active
<1>15. ASSUME NEW a \in Agents, StopChild(a) PROVE task' = "completed" => active' = {}
  BY <1>15 DEF StopChild, active
<1>16. ASSUME NEW a \in Agents, ChildSays(a) PROVE task' = "completed" => active' = {}
  BY <1>16 DEF ChildSays, active
<1>17. ASSUME NEW a \in Agents, ChildEnds(a) PROVE task' = "completed" => active' = {}
  BY <1>17 DEF ChildEnds, active
<1>18. CASE TaskEnds
  BY <1>18 DEF TaskEnds, active
<1>19. CASE settle
  BY <1>19 DEF settle, AllSettled, active
<1>20. CASE CancelTurn
  BY <1>20 DEF CancelTurn, active
<1>21. CASE cancelAll
  BY <1>21 DEF cancelAll, active
<1>22. CASE Seal
  BY <1>22 DEF Seal, active
<1>23. CASE StopTurn
  BY <1>23 DEF StopTurn, active
<1>24. CASE NextParentTurn
  BY <1>24 DEF NextParentTurn, active
<1>25. CASE EvictParent
  BY <1>25 DEF EvictParent, active
<1>26. CASE UNCHANGED delegationVars
  BY <1>26 DEF delegationVars, active
<1> QED
  BY <1>1, <1>2, <1>3, <1>4, <1>5, <1>6, <1>7, <1>8, <1>9, <1>10, <1>11, <1>12, <1>13,
     <1>14, <1>15, <1>16, <1>17, <1>18, <1>19, <1>20, <1>21, <1>22, <1>23, <1>24, <1>25,
     <1>26
     DEF DelegationNext, Spawning, Following, Controlling

\* The stop keeps account of the children that still work.
LEMMA StopStep ==
  ASSUME DelegationTypeOK,
         \A b \in Agents : ChildInv(b), StopShape, [DelegationNext]_delegationVars
  PROVE  StopShape'
<1>w. \A b \in Agents : work[b] \notin Busy /\ work'[b] \in Busy =>
        ~turn.revoked /\ turn.id = 1
  BY WorkStep DEF WorkGoesOn
<1> USE DEF supervisorVars, harnessVars, childVars, StopShape
<1>1. ASSUME NEW a \in Agents, SpawnAsk(a) PROVE StopShape'
  BY <1>w, <1>1 DEF SpawnAsk, DelegationTypeOK
<1>2. ASSUME NEW a \in Agents, delegateRequest(a) PROVE StopShape'
  BY <1>w, <1>2 DEF delegateRequest, DelegationTypeOK
<1>3. ASSUME NEW a \in Agents, Reserve(a) PROVE StopShape'
  BY <1>w, <1>3 DEF Reserve, reserved
<1>4. ASSUME NEW a \in Agents, ChildStarted(a) PROVE StopShape'
  BY <1>w, <1>4 DEF ChildStarted, DelegationTypeOK
<1>5. ASSUME NEW a \in Agents, StartFails(a) PROVE StopShape'
  BY <1>w, <1>5 DEF StartFails, DelegationTypeOK
<1>6. ASSUME NEW a \in Agents, SpawnTold(a) PROVE StopShape'
  BY <1>w, <1>6 DEF SpawnTold, DelegationTypeOK
<1>7. ASSUME NEW a \in Agents, SpawnGivenUp(a) PROVE StopShape'
  BY <1>w, <1>7 DEF SpawnGivenUp, DelegationTypeOK
<1>8. ASSUME NEW a \in Agents, PollAsk(a) PROVE StopShape'
  BY <1>w, <1>8 DEF PollAsk, DelegationTypeOK
<1>9. ASSUME NEW a \in Agents, PollServed(a) PROVE StopShape'
  BY <1>w, <1>9 DEF PollServed, DelegationTypeOK
<1>10. ASSUME NEW a \in Agents, PollTold(a) PROVE StopShape'
  BY <1>w, <1>10 DEF PollTold, DelegationTypeOK
<1>11. ASSUME NEW a \in Agents, PollFails(a) PROVE StopShape'
  BY <1>w, <1>11 DEF PollFails, DelegationTypeOK
<1>12. ASSUME NEW a \in Agents, routeToolResult(a) PROVE StopShape'
  BY <1>w, <1>12 DEF routeToolResult, DelegationTypeOK
<1>13. ASSUME NEW a \in Agents, Close(a) PROVE StopShape'
  BY <1>w, <1>13 DEF Close, DelegationTypeOK
<1>14. ASSUME NEW a \in Agents, CloseEnds(a) PROVE StopShape'
  BY <1>w, <1>14 DEF CloseEnds, DelegationTypeOK
<1>15. ASSUME NEW a \in Agents, StopChild(a) PROVE StopShape'
  <2>1. stops # {} /\ ~stopped /\ turn' = turn
    BY <1>15 DEF StopChild
  <2>2. \A b \in Agents : work'[b] \in Busy => b \in stops' \/ b \in unstopped'
    BY <1>15, <2>1 DEF StopChild, DelegationTypeOK, Busy
  <2>3. stopped' => stops' = {}
    BY <1>15 DEF StopChild
  <2> QED BY <2>1, <2>2, <2>3
<1>16. ASSUME NEW a \in Agents, ChildSays(a) PROVE StopShape'
  BY <1>w, <1>16 DEF ChildSays, DelegationTypeOK
<1>17. ASSUME NEW a \in Agents, ChildEnds(a) PROVE StopShape'
  BY <1>w, <1>17 DEF ChildEnds, DelegationTypeOK
<1>18. CASE TaskEnds
  BY <1>w, <1>18 DEF TaskEnds, DelegationTypeOK
<1>19. CASE settle
  BY <1>w, <1>19 DEF settle, DelegationTypeOK
<1>20. CASE CancelTurn
  BY <1>w, <1>20 DEF CancelTurn, DelegationTypeOK
<1>21. CASE cancelAll
  BY <1>w, <1>21 DEF cancelAll, DelegationTypeOK
<1>22. CASE Seal
  BY <1>w, <1>22 DEF Seal, DelegationTypeOK
<1>23. CASE StopTurn
  <2>1. turn'.revoked
    BY <1>23, TurnDomain DEF StopTurn
  <2>2. \A b \in Agents : work'[b] \in Busy => b \in LiveRows \/ b \in unstopped'
    BY <1>23 DEF StopTurn, ChildInv, SpawnShape, StartShape, LiveRows
  <2> QED BY <1>23, <2>1, <2>2 DEF StopTurn
<1>24. CASE NextParentTurn
  BY <1>w, <1>24 DEF NextParentTurn, DelegationTypeOK
<1>25. CASE EvictParent
  BY <1>w, <1>25 DEF EvictParent, DelegationTypeOK
<1>26. CASE UNCHANGED delegationVars
  BY <1>26 DEF delegationVars
<1> QED
  BY <1>1, <1>2, <1>3, <1>4, <1>5, <1>6, <1>7, <1>8, <1>9, <1>10, <1>11, <1>12, <1>13,
     <1>14, <1>15, <1>16, <1>17, <1>18, <1>19, <1>20, <1>21, <1>22, <1>23, <1>24, <1>25,
     <1>26
     DEF DelegationNext, Spawning, Following, Controlling

\* The row that changed is the only one that may have become live.
OneRowAtMost ==
  \A x \in Agents : row'[x] # row[x] => LiveRows' \subseteq LiveRows \cup {x}

\* A step changes one row at most.
LEMMA RowChanges ==
  ASSUME DelegationTypeOK,
         \A b \in Agents : ChildInv(b), [DelegationNext]_delegationVars
  PROVE  OneRowAtMost
<1> USE DEF OneRowAtMost, supervisorVars, harnessVars, childVars, LiveRows,
             DelegationTypeOK
<1>1. ASSUME NEW a \in Agents, SpawnAsk(a) PROVE OneRowAtMost
  BY <1>1 DEF SpawnAsk
<1>2. ASSUME NEW a \in Agents, delegateRequest(a) PROVE OneRowAtMost
  BY <1>2 DEF delegateRequest
<1>3. ASSUME NEW a \in Agents, Reserve(a) PROVE OneRowAtMost
  BY <1>3 DEF Reserve
<1>4. ASSUME NEW a \in Agents, ChildStarted(a) PROVE OneRowAtMost
  BY <1>4 DEF ChildStarted
<1>5. ASSUME NEW a \in Agents, StartFails(a) PROVE OneRowAtMost
  BY <1>5 DEF StartFails
<1>6. ASSUME NEW a \in Agents, SpawnTold(a) PROVE OneRowAtMost
  BY <1>6 DEF SpawnTold
<1>7. ASSUME NEW a \in Agents, SpawnGivenUp(a) PROVE OneRowAtMost
  BY <1>7 DEF SpawnGivenUp
<1>8. ASSUME NEW a \in Agents, PollAsk(a) PROVE OneRowAtMost
  BY <1>8 DEF PollAsk
<1>9. ASSUME NEW a \in Agents, PollServed(a) PROVE OneRowAtMost
  BY <1>9 DEF PollServed
<1>10. ASSUME NEW a \in Agents, PollTold(a) PROVE OneRowAtMost
  BY <1>10 DEF PollTold
<1>11. ASSUME NEW a \in Agents, PollFails(a) PROVE OneRowAtMost
  BY <1>11 DEF PollFails
<1>12. ASSUME NEW a \in Agents, routeToolResult(a) PROVE OneRowAtMost
  BY <1>12 DEF routeToolResult
<1>13. ASSUME NEW a \in Agents, Close(a) PROVE OneRowAtMost
  BY <1>13 DEF Close
<1>14. ASSUME NEW a \in Agents, CloseEnds(a) PROVE OneRowAtMost
  BY <1>14 DEF CloseEnds
<1>15. ASSUME NEW a \in Agents, StopChild(a) PROVE OneRowAtMost
  BY <1>15 DEF StopChild
<1>16. ASSUME NEW a \in Agents, ChildSays(a) PROVE OneRowAtMost
  BY <1>16 DEF ChildSays
<1>17. ASSUME NEW a \in Agents, ChildEnds(a) PROVE OneRowAtMost
  BY <1>17 DEF ChildEnds
<1>18. CASE TaskEnds
  BY <1>18 DEF TaskEnds
<1>19. CASE settle
  BY <1>19 DEF settle
<1>20. CASE CancelTurn
  BY <1>20 DEF CancelTurn
<1>21. CASE cancelAll
  BY <1>21 DEF cancelAll
<1>22. CASE Seal
  BY <1>22 DEF Seal
<1>23. CASE StopTurn
  BY <1>23 DEF StopTurn
<1>24. CASE NextParentTurn
  BY <1>24 DEF NextParentTurn
<1>25. CASE EvictParent
  BY <1>25 DEF EvictParent
<1>26. CASE UNCHANGED delegationVars
  BY <1>26 DEF delegationVars, DelegationTypeOK
<1> QED
  BY <1>1, <1>2, <1>3, <1>4, <1>5, <1>6, <1>7, <1>8, <1>9, <1>10, <1>11, <1>12, <1>13,
     <1>14, <1>15, <1>16, <1>17, <1>18, <1>19, <1>20, <1>21, <1>22, <1>23, <1>24, <1>25,
     <1>26
     DEF DelegationNext, Spawning, Following, Controlling

\* A live row more is one the transaction counted.
LEMMA LimitStep ==
  ASSUME DelegationTypeOK,
         \A b \in Agents : ChildInv(b), LimitShape, [DelegationNext]_delegationVars
  PROVE  LimitShape'
<1>1. limit' = limit /\ limit \in Nat
  <2> USE DEF supervisorVars, harnessVars, childVars
  <2>1. limit \in Nat
    BY DEF DelegationTypeOK
  <2>2. limit' = limit
    <3>1. ASSUME NEW a \in Agents, SpawnAsk(a) PROVE limit' = limit
      BY <3>1 DEF SpawnAsk
    <3>2. ASSUME NEW a \in Agents, delegateRequest(a) PROVE limit' = limit
      BY <3>2 DEF delegateRequest
    <3>3. ASSUME NEW a \in Agents, Reserve(a) PROVE limit' = limit
      BY <3>3 DEF Reserve
    <3>4. ASSUME NEW a \in Agents, ChildStarted(a) PROVE limit' = limit
      BY <3>4 DEF ChildStarted
    <3>5. ASSUME NEW a \in Agents, StartFails(a) PROVE limit' = limit
      BY <3>5 DEF StartFails
    <3>6. ASSUME NEW a \in Agents, SpawnTold(a) PROVE limit' = limit
      BY <3>6 DEF SpawnTold
    <3>7. ASSUME NEW a \in Agents, SpawnGivenUp(a) PROVE limit' = limit
      BY <3>7 DEF SpawnGivenUp
    <3>8. ASSUME NEW a \in Agents, PollAsk(a) PROVE limit' = limit
      BY <3>8 DEF PollAsk
    <3>9. ASSUME NEW a \in Agents, PollServed(a) PROVE limit' = limit
      BY <3>9 DEF PollServed
    <3>10. ASSUME NEW a \in Agents, PollTold(a) PROVE limit' = limit
      BY <3>10 DEF PollTold
    <3>11. ASSUME NEW a \in Agents, PollFails(a) PROVE limit' = limit
      BY <3>11 DEF PollFails
    <3>12. ASSUME NEW a \in Agents, routeToolResult(a) PROVE limit' = limit
      BY <3>12 DEF routeToolResult
    <3>13. ASSUME NEW a \in Agents, Close(a) PROVE limit' = limit
      BY <3>13 DEF Close
    <3>14. ASSUME NEW a \in Agents, CloseEnds(a) PROVE limit' = limit
      BY <3>14 DEF CloseEnds
    <3>15. ASSUME NEW a \in Agents, StopChild(a) PROVE limit' = limit
      BY <3>15 DEF StopChild
    <3>16. ASSUME NEW a \in Agents, ChildSays(a) PROVE limit' = limit
      BY <3>16 DEF ChildSays
    <3>17. ASSUME NEW a \in Agents, ChildEnds(a) PROVE limit' = limit
      BY <3>17 DEF ChildEnds
    <3>18. CASE TaskEnds
      BY <3>18 DEF TaskEnds
    <3>19. CASE settle
      BY <3>19 DEF settle
    <3>20. CASE CancelTurn
      BY <3>20 DEF CancelTurn
    <3>21. CASE cancelAll
      BY <3>21 DEF cancelAll
    <3>22. CASE Seal
      BY <3>22 DEF Seal
    <3>23. CASE StopTurn
      BY <3>23 DEF StopTurn
    <3>24. CASE NextParentTurn
      BY <3>24 DEF NextParentTurn
    <3>25. CASE EvictParent
      BY <3>25 DEF EvictParent
    <3>26. CASE UNCHANGED delegationVars
      BY <3>26 DEF delegationVars
    <3> QED
      BY <3>1, <3>2, <3>3, <3>4, <3>5, <3>6, <3>7, <3>8, <3>9, <3>10, <3>11, <3>12, <3>13,
         <3>14, <3>15, <3>16, <3>17, <3>18, <3>19, <3>20, <3>21, <3>22, <3>23, <3>24, <3>25,
         <3>26
         DEF DelegationNext, Spawning, Following, Controlling
  <2> QED BY <2>1, <2>2
<1>2. IsFiniteSet(LiveRows) /\ Cardinality(LiveRows) \in Nat /\ Cardinality(LiveRows) <= limit
  BY FS_CardinalityType DEF LimitShape, ChildLimit
<1>3. CASE LiveRows' \subseteq LiveRows
  <2>1. IsFiniteSet(LiveRows') /\ Cardinality(LiveRows') <= Cardinality(LiveRows)
    BY <1>2, <1>3, FS_Subset
  <2>2. Cardinality(LiveRows') \in Nat
    BY <2>1, FS_CardinalityType
  <2> QED BY <1>1, <1>2, <2>1, <2>2 DEF LimitShape, ChildLimit
<1>4. ASSUME NEW a \in LiveRows', a \notin LiveRows PROVE LimitShape'
  <2>1. a \in Agents /\ row'[a] # row[a] /\ row'[a].status = "live"
    BY <1>4 DEF LiveRows
  <2>2. spawn[a] = "arrived" /\ reserved(a)
    BY <2>1, RowStep DEF RowGoesOn
  <2>3. LiveRows' \subseteq LiveRows \cup {a}
    BY <2>1, <2>2, RowChanges DEF OneRowAtMost
  <2>4. /\ IsFiniteSet(LiveRows \cup {a})
        /\ Cardinality(LiveRows \cup {a}) = Cardinality(LiveRows) + 1
    BY <1>2, <1>4, FS_AddElement
  <2>5. IsFiniteSet(LiveRows') /\ Cardinality(LiveRows') <= Cardinality(LiveRows) + 1
    BY <2>3, <2>4, FS_Subset
  <2>6. Cardinality(LiveRows') \in Nat
    BY <2>5, FS_CardinalityType
  <2>7. Cardinality(LiveRows) < limit
    BY <2>2 DEF reserved
  <2> QED BY <1>1, <1>2, <2>5, <2>6, <2>7 DEF LimitShape, ChildLimit
<1> QED BY <1>3, <1>4

-----------------------------------------------------------------------------
(* The theorems                                                            *)

\* The invariant holds at first ...
LEMMA DelegationInvInit == DelegationInit => DelegationInv
<1> SUFFICES ASSUME DelegationInit PROVE DelegationInv
  OBVIOUS
<1>1. DelegationTypeOK
  <2>1. NoKid \in KidType /\ NoPoll \in PollType /\ NoRow \in RowType
    BY KidDomain, PollDomain, RowDomain
  <2>2. "none" \in WorkType /\ <<>> \in Seq(Saying) /\ <<>> \in Seq(Event)
    BY DEF WorkType
  <2> QED BY <2>1, <2>2, DelegationAssumption DEF DelegationInit, DelegationTypeOK
<1>2. ASSUME NEW a \in Agents PROVE ChildInv(a)
  <2>1. /\ kid[a] = NoKid /\ said[a] = <<>> /\ log[a] = <<>> /\ poll[a] = NoPoll
        /\ row[a] = NoRow /\ work[a] = "none" /\ spawn[a] = "none"
        /\ a \notin asked /\ a \notin closing
    BY DEF DelegationInit
  <2>2. /\ kid[a].status = "none" /\ kid[a].cursor = 0 /\ ~kid[a].closed
        /\ poll[a].at = "idle" /\ row[a].status = "none"
    BY <2>1, PollDomain, RowDomain DEF NoKid
  <2>3. SpawnShape(a) /\ PageShape(a)
    BY <2>1, <2>2 DEF SpawnShape, KidShape, StartShape, PageShape, Busy, DelegationInit
  <2>4. Faithful(said[a], log[a], 0)
    <3>1. Words(said[a]) = {} /\ Len(log[a]) = 0
      BY <2>1 DEF Words
    <3>2. Cardinality(Words(said[a])) = 0
      BY <3>1, FS_EmptySet
    <3> QED BY <3>1, <3>2 DEF Faithful
  <2>5. Kept(said[a], kid[a])
    BY <2>1, <2>2 DEF Kept, Once, Has, Over
  <2> QED BY <2>2, <2>3, <2>4, <2>5 DEF ChildInv, RelayShape
<1>3. active = {} /\ LiveRows = {}
  BY RowDomain DEF DelegationInit, active, LiveRows, NoKid
<1>4. StopShape
  BY DEF DelegationInit, StopShape
<1>5. LimitShape
  <2>1. IsFiniteSet(LiveRows) /\ Cardinality(LiveRows) = 0
    BY <1>3, FS_EmptySet
  <2> QED BY <1>1, <2>1 DEF LimitShape, ChildLimit, DelegationTypeOK
<1> QED BY <1>1, <1>2, <1>3, <1>4, <1>5 DEF DelegationInv

\* ... and is kept by every step.
LEMMA DelegationInvStep == DelegationInv /\ [DelegationNext]_delegationVars => DelegationInv'
<1> SUFFICES ASSUME DelegationInv, [DelegationNext]_delegationVars PROVE DelegationInv'
  OBVIOUS
<1>1. /\ DelegationTypeOK /\ \A b \in Agents : ChildInv(b)
      /\ task = "completed" => active = {}
      /\ StopShape /\ LimitShape
  BY DEF DelegationInv
<1>2. DelegationTypeOK'
  BY <1>1, TypeStep
<1>3. ASSUME NEW a \in Agents PROVE ChildInv(a)'
  <2>1. RelayShape(a)' /\ Kept(said[a], kid[a])'
    BY <1>1, RecordsStep DEF RecordsKept, Followed
  <2>2. KidShape(a)' /\ StartShape(a)' /\ PageShape(a)'
    BY <1>1, KidShapeStep, StartShapeStep, PageStep
  <2> QED BY <2>1, <2>2 DEF ChildInv, SpawnShape
<1>4. task' = "completed" => active' = {}
  BY <1>1, SettledStep
<1>5. StopShape' /\ LimitShape'
  BY <1>1, StopStep, LimitStep
<1> QED BY <1>2, <1>3, <1>4, <1>5 DEF DelegationInv

\* The invariant of the delegation, for any set of children, any limit and any length of
\* the children's own logs.
THEOREM DelegationInvariant == DelegationSpec => []DelegationInv
BY DelegationInvInit, DelegationInvStep, PTL DEF DelegationSpec

\* What the invariant says of the properties.
LEMMA InvRelayed == DelegationInv => RelayedWhole
<1> SUFFICES ASSUME DelegationInv, NEW a \in Agents
             PROVE  /\ \A i \in Relayed(a) :
                          LET n == Cardinality({j \in Relayed(a) : j <= i})
                          IN n \in DOMAIN log[a] /\ said[a][i] = relay(log[a])[n]
                    /\ kid[a].status = "completed" => Cardinality(Relayed(a)) = Len(log[a])
  BY DEF RelayedWhole
<1>1. DelegationTypeOK /\ ChildInv(a)
  BY DEF DelegationInv
<1>2. RelayShape(a) /\ Faithful(said[a], log[a], kid[a].cursor)
  BY <1>1 DEF ChildInv, RelayShape
<1>3. Relayed(a) = Words(said[a])
  BY DEF Relayed, Words, Word
<1>4. /\ log[a] \in Seq(Event) /\ Len(log[a]) \in Nat /\ kid[a].cursor \in Nat
      /\ kid[a].cursor <= Len(log[a])
  BY <1>1, <1>2, CursorInLog
<1>5. ASSUME NEW i \in Relayed(a)
      PROVE  /\ Rank(said[a], i) \in DOMAIN log[a]
             /\ said[a][i] = relay(log[a])[Rank(said[a], i)]
  <2>1. /\ Rank(said[a], i) \in 1..kid[a].cursor
        /\ said[a][i] = Heed(log[a][Rank(said[a], i)])
    BY <1>2, <1>3 DEF Faithful
  <2>2. Rank(said[a], i) \in DOMAIN log[a]
    BY <1>4, <2>1
  <2>3. relay(log[a])[Rank(said[a], i)] = Heed(log[a][Rank(said[a], i)])
    BY <2>2 DEF relay, Heed
  <2> QED BY <2>1, <2>2, <2>3
<1>6. \A i : Cardinality({j \in Relayed(a) : j <= i}) = Rank(said[a], i)
  BY <1>3 DEF Rank
<1>7. kid[a].status = "completed" => Cardinality(Relayed(a)) = Len(log[a])
  BY <1>2, <1>3 DEF RelayShape, Faithful
<1> QED BY <1>5, <1>6, <1>7

\* A mark said once is counted once.
LEMMA TimesOnce ==
  ASSUME NEW s \in Seq(Saying), NEW e, Once(s, e)
  PROVE  Times(s, e) <= 1 /\ (Has(s, e) => Times(s, e) = 1)
<1> DEFINE S == {i \in DOMAIN s : s[i] = e}
<1>1. CASE Has(s, e)
  <2>1. PICK i \in DOMAIN s : s[i] = e
    BY <1>1 DEF Has
  <2>2. S = {i}
    BY <2>1 DEF Once
  <2>3. Cardinality(S) = 1
    BY <2>2, FS_Singleton
  <2> QED BY <2>3 DEF Times
<1>2. CASE ~Has(s, e)
  <2>1. S = {}
    BY <1>2 DEF Has
  <2>2. Cardinality(S) = 0
    BY <2>1, FS_EmptySet
  <2> QED BY <1>2, <2>2 DEF Times
<1> QED BY <1>1, <1>2

\* The marks of a completed parent's children.
LEMMA InvSettled == DelegationInv => ChildrenSettleFirst
<1> SUFFICES ASSUME DelegationInv, NEW a \in Agents
             PROVE  /\ Times(said[a], "turnClosed") <= 1 /\ Times(said[a], "closed") <= 1
                    /\ \A i, j \in DOMAIN said[a] :
                           said[a][i] = "turnClosed" /\ i < j => said[a][j] = "closed"
                    /\ task = "completed" /\ said[a] # <<>> =>
                           Times(said[a], "turnClosed") = 1 /\ Times(said[a], "closed") = 1
  BY DEF ChildrenSettleFirst
<1>1. Kept(said[a], kid[a]) /\ said[a] \in Seq(Saying)
  BY DEF DelegationInv, ChildInv, DelegationTypeOK
<1>2. Once(said[a], "turnClosed") /\ Once(said[a], "closed")
  BY <1>1 DEF Kept
<1>3. /\ Times(said[a], "turnClosed") <= 1
      /\ Has(said[a], "turnClosed") => Times(said[a], "turnClosed") = 1
  BY <1>1, <1>2, TimesOnce
<1>4. /\ Times(said[a], "closed") <= 1
      /\ Has(said[a], "closed") => Times(said[a], "closed") = 1
  BY <1>1, <1>2, TimesOnce
<1>5. \A i, j \in DOMAIN said[a] : said[a][i] = "turnClosed" /\ i < j => said[a][j] = "closed"
  BY <1>1 DEF Kept
<1>6. ASSUME task = "completed", said[a] # <<>>
      PROVE  Has(said[a], "turnClosed") /\ Has(said[a], "closed")
  <2>1. kid[a].status # "none"
    BY <1>1, <1>6 DEF Kept
  <2>2. kid[a].status # "in_progress"
    BY <1>6 DEF DelegationInv, active
  <2>3. Over(kid[a])
    BY <2>1, <2>2 DEF Over
  <2> QED BY <1>1, <2>3 DEF Kept
<1> QED BY <1>3, <1>4, <1>5, <1>6

\* The limit, and the children a finished stop left.
LEMMA InvBounded == DelegationInv => ChildrenBounded
<1> SUFFICES ASSUME DelegationInv PROVE ChildLimit /\ StoppedMeansStopped
  BY DEF ChildrenBounded
<1>1. ChildLimit
  BY DEF DelegationInv, LimitShape
<1>2. StoppedMeansStopped
  BY DEF DelegationInv, StopShape, StoppedMeansStopped
<1> QED BY <1>1, <1>2

\* What the supervisor relays of a child is the child's own log, in order, without gap or
\* repeat, and to its end when the child is recorded as completed: follow and relay
\* against pages that overlap, are stored with the row, are refused or never come.
THEOREM RelayIsWhole == DelegationSpec => []RelayedWhole
BY DelegationInvariant, InvRelayed, PTL

\* A parent completes only with every child's turn and record closed, each once, and
\* nothing of a child follows the close of its turn: settle, terminate and closeRecord.
THEOREM ParentSettlesLast == DelegationSpec => []ChildrenSettleFirst
BY DelegationInvariant, InvSettled, PTL

\* Never more live children than the execution allows, and none that works on past a
\* stop that reached it: spawnChild against stopAttempt, for any number of requests.
THEOREM ChildrenStayBounded == DelegationSpec => []ChildrenBounded
BY DelegationInvariant, InvBounded, PTL
=============================================================================
