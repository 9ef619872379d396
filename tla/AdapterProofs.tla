----------------------------- MODULE AdapterProofs -----------------------------
(***************************************************************************)
(* Proofs about the instance MCAdapters and four of the modules it is of:  *)
(* NativeJob, Claude, OpenCode and ModelGateway, for any values of their   *)
(* constants.                                                              *)
(*                                                                         *)
(* JobContained needs to know where a start is: servers are opened one     *)
(* after the other (OneAtATime), so that the names of the tools count them *)
(* also without those of the server that is being opened (Numbered), and a *)
(* tool is offered only of a server that is connected (Served).            *)
(*                                                                         *)
(* SteersWorkedOn speaks of the end of a turn.  A steer of Claude is       *)
(* always in one of three places (Balance), and the end of the stream,     *)
(* once sent, says that two of them are empty (EndIsFinal).  One of        *)
(* OpenCode is answered by a message that was read with all it holds, also *)
(* while the feed lags (AllRead), or is an orphan and then in a message    *)
(* the loop is about to read (Rerun); the gate is closed to steers before  *)
(* the last of them is looked for (Settles).                               *)
(*                                                                         *)
(* FailuresContained speaks of the model that works and of the stream that *)
(* is read.  The only model at work is that of the candidate the handler   *)
(* is at (Working), the harness has read nothing while it waits for an     *)
(* answer (Waits), and an error of the provider is what ends a stream only *)
(* behind output (Explained).                                              *)
(***************************************************************************)
EXTENDS MCAdapters, SequenceTheorems, FiniteSetTheorems, WellFoundedInduction, TLAPS

-----------------------------------------------------------------------------
(* NativeJob                                                               *)

\* What the variables range over.
JobRow == [status : Terminal \cup Active, cancelling : BOOLEAN, closing : BOOLEAN]
Connection == {"none", "connecting", "listing", "closing", "connected", "closed"}
JobStage == {"opening", "up", "failed", "interrupting", "sealed", "releasing", "stopped"}
Over == {"result", "toolError", "failed"}
NativeJobType ==
  /\ required \subseteq McpServers /\ stage \in JobStage /\ job \in JobRow
  /\ client \in [McpServers -> Connection]
  /\ process \in {"none", "starting", "running", "terminated", "killed", "gone"}
  /\ call \in [McpCalls -> {"none", "waiting", "interrupted"} \cup Over]
  /\ reports \in [McpCalls -> Seq({"success", "failure"})]
  /\ IsFiniteSet(tools) /\ \A e \in tools : e.name \in Nat /\ e.server \in McpServers

\* Servers are opened one after the other, before the process starts, and none is once the
\* start is over.
Opening == {"connecting", "listing", "closing"}
OneAtATime ==
  /\ \A s, t \in McpServers : client[s] \in Opening /\ client[t] \in Opening => s = t
  /\ stage # "opening" => \A s \in McpServers : client[s] \notin Opening
  /\ process # "none" => \A s \in McpServers : client[s] \in {"connected", "closed"}
  /\ stage = "up" => process # "none"

\* Names count the tools; without those of the server being opened, they still do.
Counted(T) == \A e \in T : e.name < Cardinality(T)
Numbered ==
  /\ \A e, f \in tools : e.name = f.name => e = f
  /\ Counted(tools)
  /\ \A s \in McpServers : client[s] \in Opening => Counted(Without(s))

\* A tool is of a server that was not withdrawn, and no required server was.
Served ==
  stage \in {"opening", "up"} =>
    /\ \A e \in tools : client[e.server] \in {"listing", "closing", "connected"}
    /\ \A s \in required : client[s] # "closed"

NativeJobInv ==
  /\ NativeJobType /\ OneAtATime /\ Numbered /\ Served /\ NothingOutlivesTheJob /\ CallsReported

LEMMA InvContained == NativeJobInv => JobContained
<1> SUFFICES ASSUME NativeJobInv PROVE OfferedIsServed
  BY DEF NativeJobInv, JobContained
<1> SUFFICES ASSUME stage = "up"
             PROVE  /\ \A e \in tools : client[e.server] = "connected"
                    /\ \A s \in required : client[s] = "connected"
  BY DEF NativeJobInv, Numbered, OfferedIsServed
<1>1. \A s \in McpServers : client[s] \in {"connected", "closed"}
  BY DEF NativeJobInv, OneAtATime
<1>2. /\ \A e \in tools : e.server \in McpServers /\ client[e.server] # "closed"
      /\ \A s \in required : s \in McpServers /\ client[s] # "closed"
  BY DEF NativeJobInv, NativeJobType, Served
<1> QED BY <1>1, <1>2

-----------------------------------------------------------------------------
(* The outcome.                                                             *)

\* The operations of the log keep a sealed outcome, and its type.
LEMMA SealedStays ==
  ASSUME NEW j \in JobRow
  PROVE  /\ fail(j) \in JobRow /\ (Sealed(j) => Sealed(fail(j)))
         /\ requestCancel(j) \in JobRow /\ (Sealed(j) => Sealed(requestCancel(j)))
         /\ setStatus(j, "completed") \in JobRow /\ (Sealed(j) => Sealed(setStatus(j, "completed")))
         /\ close(j) \in JobRow /\ (Sealed(j) => Sealed(close(j)))
<1>1. fail(j) \in JobRow /\ (Sealed(j) => Sealed(fail(j)))
  BY DEF fail, JobRow, Terminal
<1>2. requestCancel(j) \in JobRow /\ (Sealed(j) => Sealed(requestCancel(j)))
  BY DEF requestCancel, JobRow
<1>3. setStatus(j, "completed") \in JobRow /\ (Sealed(j) => Sealed(setStatus(j, "completed")))
  BY DEF setStatus, JobRow, Terminal
<1>4. close(j) \in JobRow /\ (Sealed(j) => Sealed(close(j)))
  BY DEF close, JobRow, Terminal, Sealed
<1> QED BY <1>1, <1>2, <1>3, <1>4

\* A step does not unseal the outcome.
LEMMA JobStep ==
  ASSUME NativeJobInv, NativeJobNext
  PROVE  job' \in JobRow /\ (Sealed(job) => Sealed(job)')
<1>0. job \in JobRow
  BY DEF NativeJobInv, NativeJobType
<1>1. \/ job' = job \/ job' = fail(job) \/ job' = requestCancel(job)
      \/ job' = setStatus(job, "completed") \/ job' = close(job)
  BY DEF NativeJobNext, Connect, Connected, Refuses, Withdraw, Release, Page, Spawn, Ready,
     StartupFails, ProcessGone, CallTool, CallEnds, CallAborted, TurnDone, StopBegins, SealLog,
     AbortJob, Terminate, StopEnds
<1> QED BY <1>0, <1>1, SealedStays DEF Sealed, settled

-----------------------------------------------------------------------------
(* The catalog.                                                             *)

\* A step that leaves clients and tools alone, and does not come back to the start.
LEMMA CatalogStays ==
  ASSUME NativeJobInv, UNCHANGED catalog, NEW p, process' = p, p # "none" \/ process = "none",
         p # "none" /\ process = "none" => \A s \in McpServers : client[s] \in {"connected", "closed"},
         stage' = "up" => stage \in {"opening", "up"} /\ p # "none",
         stage = "opening" /\ stage' # "opening" =>
           \A s \in McpServers : client[s] \notin Opening,
         stage # "opening" => stage' # "opening"
  PROVE  OneAtATime' /\ Numbered' /\ Served'
<1>0. required' = required /\ client' = client /\ tools' = tools
  BY DEF catalog
<1>1. OneAtATime'
  BY <1>0 DEF NativeJobInv, OneAtATime
<1>2. Numbered'
  BY <1>0 DEF NativeJobInv, Numbered, Counted, Without
<1>3. Served'
  BY <1>0 DEF NativeJobInv, Served
<1> QED BY <1>1, <1>2, <1>3

\* One server's client moves on while nothing is listed or withdrawn.
LEMMA ClientMoves ==
  ASSUME NativeJobInv, NEW s \in McpServers, NEW to \in Connection,
         client' = [client EXCEPT ![s] = to], UNCHANGED <<required, stage, tools, process>>,
         to \in Opening => stage = "opening" /\ (client[s] \in Opening \/ (to = "connecting" /\ Idle)),
         process # "none" => to \in {"connected", "closed"},
         to = "connecting" => client[s] = "none",
         to \in {"none", "closed"} => stage \notin {"opening", "up"}
  PROVE  OneAtATime' /\ Numbered' /\ Served'
<1>0. NativeJobType /\ OneAtATime /\ Numbered /\ Served
  BY DEF NativeJobInv
<1>1. client'[s] = to /\ \A t \in McpServers : t # s => client'[t] = client[t]
  BY <1>0 DEF NativeJobType
<1>2. to \in Opening => \A t \in McpServers : t # s => client[t] \notin Opening
  BY <1>0 DEF OneAtATime, Idle, Opening
<1>3. OneAtATime'
  BY <1>0, <1>1, <1>2 DEF OneAtATime
<1>4. to = "connecting" /\ stage = "opening" => Without(s) = tools
  <2> SUFFICES ASSUME to = "connecting", stage = "opening", NEW e \in tools PROVE e.server # s
    BY DEF Without
  <2> QED BY <1>0, <1>1 DEF Served, NativeJobType
<1>5. \A t \in McpServers : client'[t] \in Opening => Counted(Without(t))
  <2>1. CASE to \in Opening
    <3>1. client[s] \in Opening \/ to = "connecting" \/ stage \notin {"opening", "up"}
             \/ client[s] = "none"
      BY <2>1
    <3> QED BY <1>0, <1>1, <1>2, <1>4, <2>1, <3>1 DEF Numbered, Opening, Served, Without, NativeJobType
  <2>2. CASE to \notin Opening
    BY <1>0, <1>1, <2>2 DEF Numbered
  <2> QED BY <2>1, <2>2
<1>6. Numbered'
  BY <1>0, <1>5 DEF Numbered, Counted, Without
<1>7. Served'
  <2> SUFFICES ASSUME stage \in {"opening", "up"}
               PROVE  /\ \A e \in tools : client'[e.server] \in {"listing", "closing", "connected"}
                      /\ \A t \in required : client'[t] # "closed"
    BY DEF Served
  <2>1. \A e \in tools : e.server \in McpServers /\ client[e.server] \in {"listing", "closing", "connected"}
    BY <1>0 DEF Served, NativeJobType
  <2>2. to = "connecting" \/ to \in {"listing", "closing", "connected"}
    BY DEF Connection
  <2>3. \A t \in required : t \in McpServers /\ client[t] # "closed"
    BY <1>0 DEF Served, NativeJobType
  <2> QED BY <1>1, <2>1, <2>2, <2>3
<1> QED BY <1>3, <1>6, <1>7

LEMMA ConnectStep ==
  ASSUME NativeJobInv, NEW s \in McpServers, Connect(s) \/ Connected(s) \/ Refuses(s) \/ Release(s)
  PROVE  OneAtATime' /\ Numbered' /\ Served'
<1>0. NativeJobType /\ OneAtATime
  BY DEF NativeJobInv
<1>1. client[s] \in Opening => stage = "opening" /\ process = "none"
  BY <1>0 DEF OneAtATime, Opening
<1>2. client[s] = "none" => process = "none"
  BY <1>0 DEF OneAtATime
<1>3. CASE Connect(s)
  BY <1>2, <1>3, ClientMoves DEF Connect, Connection, Opening
<1>4. CASE Connected(s) \/ Refuses(s)
  <2>1. /\ client[s] \in Opening /\ UNCHANGED <<required, stage, tools, process>>
        /\ \E to \in {"listing", "closing"} : client' = [client EXCEPT ![s] = to]
    BY <1>4 DEF Connected, Refuses, Opening
  <2>2. PICK to \in {"listing", "closing"} : client' = [client EXCEPT ![s] = to]
    BY <2>1
  <2>3. to \in Connection /\ to # "connecting" /\ to \notin {"none", "closed"}
    BY DEF Connection
  <2>4. stage = "opening" /\ process = "none"
    BY <1>1, <2>1
  <2> QED BY <2>1, <2>2, <2>3, <2>4, ClientMoves
<1>6. CASE Release(s)
  BY <1>6, ClientMoves DEF Release, Connection, Opening
<1> QED BY <1>3, <1>4, <1>6

\* One more tool has the next name.
LEMMA CountedMore ==
  ASSUME NEW T, IsFiniteSet(T), \A e \in T : e.name \in Nat, Counted(T),
         NEW x, x.name = Cardinality(T), x \notin T
  PROVE  /\ IsFiniteSet(T \cup {x}) /\ Counted(T \cup {x})
         /\ \A e \in T : e.name # x.name
<1>1. Cardinality(T) \in Nat
  BY FS_CardinalityType
<1>2. IsFiniteSet(T \cup {x}) /\ Cardinality(T \cup {x}) = Cardinality(T) + 1
  BY FS_AddElement
<1> QED BY <1>1, <1>2 DEF Counted

LEMMA PageStep ==
  ASSUME NativeJobInv, NEW s \in McpServers, NEW paged \in SUBSET McpTools,
         NEW next \in SUBSET Cursors, Page(s, paged, next)
  PROVE  /\ OneAtATime' /\ Numbered' /\ Served'
         /\ IsFiniteSet(tools') /\ \A e \in tools' : e.name \in Nat /\ e.server \in McpServers
<1>0. NativeJobType /\ OneAtATime /\ Numbered /\ Served
  BY DEF NativeJobInv
<1>1. UNCHANGED <<required, stage, process>> /\ client[s] = "listing"
  BY DEF Page
<1>2. PICK to \in {"listing", "closing", "connected"} : client' = [client EXCEPT ![s] = to]
  BY DEF Page
<1>3. stage = "opening" /\ process = "none"
  BY <1>0, <1>1 DEF OneAtATime, Opening
<1>4. client'[s] = to /\ \A t \in McpServers : t # s => client'[t] = client[t]
  BY <1>0, <1>2 DEF NativeJobType
<1>5. CASE tools' = tools
  <2>1. to \in Connection /\ to # "connecting" /\ to \notin {"none", "closed"} /\ client[s] \in Opening
    BY <1>1 DEF Connection, Opening
  <2>2. OneAtATime' /\ Numbered' /\ Served'
    BY <1>1, <1>2, <1>3, <1>5, <2>1, ClientMoves
  <2> QED BY <1>0, <1>5, <2>2 DEF NativeJobType
<1>6. ASSUME NEW t \in paged, tools' = tools \cup {Entry(s, t)} PROVE
         /\ OneAtATime' /\ Numbered' /\ Served'
         /\ IsFiniteSet(tools') /\ \A e \in tools' : e.name \in Nat /\ e.server \in McpServers
  <2> DEFINE x == Entry(s, t)
  <2>1. Cardinality(tools) \in Nat
    BY <1>0, FS_CardinalityType DEF NativeJobType
  <2>2. x.name = Cardinality(tools) /\ x.server = s
    BY DEF Entry
  <2>3. x \notin tools
    BY <1>0, <2>1, <2>2 DEF Numbered, Counted, NativeJobType
  <2> HIDE DEF x
  <2>4. /\ IsFiniteSet(tools') /\ Counted(tools') /\ \A e \in tools : e.name # x.name
    BY <1>0, <1>6, <2>2, <2>3, CountedMore DEF Numbered, NativeJobType, x
  <2>5. tools' = tools \cup {x}
    BY <1>6 DEF x
  <2>6. \A e \in tools' : e.name \in Nat /\ e.server \in McpServers
    BY <1>0, <2>1, <2>2, <2>5 DEF NativeJobType
  <2>7. OneAtATime'
    BY <1>0, <1>1, <1>3, <1>4 DEF OneAtATime, Opening
  <2>8. Served'
    BY <1>0, <1>1, <1>4, <2>2, <2>5 DEF Served, NativeJobType
  <2>9. Without(s)' = Without(s)
    BY <2>2, <2>5 DEF Without
  <2>10. \A u \in McpServers : client'[u] \in Opening => Counted(Without(u))'
    <3> SUFFICES ASSUME NEW u \in McpServers, client'[u] \in Opening PROVE Counted(Without(u)')
      BY DEF Counted
    <3>1. u = s
      BY <1>0, <1>1, <1>4 DEF OneAtATime, Opening
    <3>2. Counted(Without(s))
      BY <1>0, <1>1 DEF Numbered, Opening
    <3> QED BY <2>9, <3>1, <3>2
  <2>11. \A e, f \in tools' : e.name = f.name => e = f
    BY <1>0, <2>4, <2>5 DEF Numbered
  <2>12. Numbered'
    BY <2>4, <2>10, <2>11 DEF Numbered, Counted
  <2> QED BY <2>4, <2>6, <2>7, <2>8, <2>12
<1>7. tools' = tools \/ \E t \in paged : tools' = tools \cup {Entry(s, t)}
  <2>1. tools' = tools \/ tools' = tools \cup {Entry(s, t) : t \in paged}
    BY DEF Page
  <2>2. paged = {} \/ \E t \in paged : paged = {t}
    <3>1. IsFiniteSet(paged) /\ Cardinality(paged) <= 1
      BY NativeJobAssumption, FS_Subset DEF Page
    <3>2. Cardinality(paged) \in Nat
      BY <3>1, FS_CardinalityType
    <3>3. CASE Cardinality(paged) = 0
      BY <3>1, <3>3, FS_EmptySet
    <3>4. CASE Cardinality(paged) = 1
      BY <3>1, <3>4, FS_Singleton
    <3> QED BY <3>1, <3>2, <3>3, <3>4
  <2> QED BY <2>1, <2>2
<1> QED BY <1>5, <1>6, <1>7

LEMMA WithdrawStep ==
  ASSUME NativeJobInv, NEW s \in McpServers, Withdraw(s)
  PROVE  /\ OneAtATime' /\ Numbered' /\ Served'
         /\ IsFiniteSet(tools') /\ \A e \in tools' : e.name \in Nat /\ e.server \in McpServers
<1>0. NativeJobType /\ OneAtATime /\ Numbered /\ Served
  BY DEF NativeJobInv
<1>1. /\ client[s] = "closing" /\ stage = "opening" /\ client' = [client EXCEPT ![s] = "closed"]
      /\ required' = required /\ process' = process /\ tools' = Without(s)
      /\ stage' = IF s \in required THEN "failed" ELSE "opening"
  BY DEF Withdraw
<1>2. client'[s] = "closed" /\ \A t \in McpServers : t # s => client'[t] = client[t]
  BY <1>0, <1>1 DEF NativeJobType
<1>3. \A t \in McpServers : client'[t] \notin Opening
  BY <1>0, <1>1, <1>2 DEF OneAtATime, Opening
<1>4. tools' \subseteq tools /\ \A e \in tools' : e.server # s
  BY <1>1 DEF Without
<1>5. IsFiniteSet(tools') /\ \A e \in tools' : e.name \in Nat /\ e.server \in McpServers
  BY <1>0, <1>4, FS_Subset DEF NativeJobType
<1>6. OneAtATime'
  BY <1>0, <1>1, <1>2, <1>3 DEF OneAtATime, Opening
<1>7. Numbered'
  <2>1. Counted(tools')
    BY <1>0, <1>1 DEF Numbered, Opening
  <2> QED BY <1>0, <1>3, <1>4, <2>1 DEF Numbered, Counted
<1>8. Served'
  BY <1>0, <1>1, <1>2, <1>4, <1>5 DEF Served, NativeJobType
<1> QED BY <1>5, <1>6, <1>7, <1>8

\* The actions that leave the catalog alone.
Elsewhere ==
  \/ Spawn \/ Ready \/ StartupFails \/ ProcessGone \/ TurnDone \/ StopBegins \/ SealLog \/ AbortJob
  \/ Terminate \/ StopEnds
  \/ \E c \in McpCalls :
       \/ \E name \in 0..MaxTools : CallTool(c, name)
       \/ \E how \in {"result", "toolError", "failed"} : CallEnds(c, how)
       \/ CallAborted(c)

LEMMA ElsewhereStep ==
  ASSUME NativeJobInv, Elsewhere
  PROVE  OneAtATime' /\ Numbered' /\ Served' /\ tools' = tools
<1>0. NativeJobType /\ OneAtATime
  BY DEF NativeJobInv
<1>1. process # "none" => \A s \in McpServers : client[s] \notin Opening
  BY <1>0 DEF OneAtATime, Opening
<1>2. CASE Spawn
  <2>1. /\ stage = "opening" /\ stage' = stage /\ process' = "starting" /\ UNCHANGED catalog
        /\ \A s \in McpServers : client[s] \in {"connected", "closed"}
    BY <1>2 DEF Spawn
  <2>2. stage' # "up" /\ ~(stage = "opening" /\ stage' # "opening")
    BY <2>1
  <2> QED BY <2>1, <2>2, CatalogStays DEF catalog
<1>3. CASE Ready \/ StartupFails
  <2>1. stage = "opening" /\ process = "starting" /\ UNCHANGED catalog
        /\ process' \in {"gone", "running"} /\ stage' \in {"up", "failed"}
    BY <1>3 DEF Ready, StartupFails
  <2> QED BY <1>1, <2>1, CatalogStays DEF catalog
<1>4. CASE ProcessGone \/ Terminate
  <2>1. process # "none" /\ process' # "none" /\ stage' = stage /\ UNCHANGED catalog
    BY <1>4 DEF ProcessGone, Terminate
  <2>2. stage = "up" => stage \in {"opening", "up"}
    OBVIOUS
  <2> QED BY <1>1, <2>1, <2>2, CatalogStays DEF catalog
<1>5. ASSUME process' = process, UNCHANGED catalog,
             stage' = stage \/ (stage # "opening" /\ stage' \notin {"opening", "up"})
      PROVE  OneAtATime' /\ Numbered' /\ Served' /\ tools' = tools
  <2>1. stage' = "up" => stage \in {"opening", "up"} /\ process # "none"
    BY <1>0, <1>5 DEF OneAtATime
  <2> QED BY <1>5, <2>1, CatalogStays DEF catalog
<1>6. CASE TurnDone \/ StopBegins \/ SealLog \/ AbortJob \/ StopEnds
  BY <1>5, <1>6 DEF TurnDone, StopBegins, SealLog, AbortJob, StopEnds
<1>7. CASE \E c \in McpCalls :
             \/ \E name \in 0..MaxTools : CallTool(c, name)
             \/ \E how \in {"result", "toolError", "failed"} : CallEnds(c, how)
             \/ CallAborted(c)
  BY <1>5, <1>7 DEF CallTool, CallEnds, CallAborted
<1> QED BY <1>2, <1>3, <1>4, <1>6, <1>7 DEF Elsewhere

LEMMA CatalogStep ==
  ASSUME NativeJobInv, NativeJobNext
  PROVE  /\ OneAtATime' /\ Numbered' /\ Served'
         /\ IsFiniteSet(tools') /\ \A e \in tools' : e.name \in Nat /\ e.server \in McpServers
<1>0. NativeJobType
  BY DEF NativeJobInv
<1>1. CASE Elsewhere
  BY <1>0, <1>1, ElsewhereStep DEF NativeJobType
<1>2. ASSUME NEW s \in McpServers, Connect(s) \/ Connected(s) \/ Refuses(s) \/ Release(s)
      PROVE  /\ OneAtATime' /\ Numbered' /\ Served'
             /\ IsFiniteSet(tools') /\ \A e \in tools' : e.name \in Nat /\ e.server \in McpServers
  <2>1. tools' = tools
    BY <1>2 DEF Connect, Connected, Refuses, Release
  <2> QED BY <1>0, <1>2, <2>1, ConnectStep DEF NativeJobType
<1>3. CASE \E s \in McpServers :
             \/ Connect(s) \/ Connected(s) \/ Refuses(s) \/ Withdraw(s) \/ Release(s)
             \/ \E paged \in SUBSET McpTools, next \in SUBSET Cursors : Page(s, paged, next)
  BY <1>2, <1>3, PageStep, WithdrawStep
<1> QED BY <1>1, <1>3 DEF NativeJobNext, Elsewhere

-----------------------------------------------------------------------------
(* Calls, and the end.                                                      *)

\* What a call came to is written behind nothing.
LEMMA Reported ==
  ASSUME NativeJobInv, NEW c \in McpCalls, call[c] = "waiting", NEW how \in Over \cup {"interrupted"},
         call' = [call EXCEPT ![c] = how], reports' = Report(c, how), job' = job
  PROVE  CallsReported' /\ reports' \in [McpCalls -> Seq({"success", "failure"})]
<1>0. NativeJobType /\ CallsReported
  BY DEF NativeJobInv
<1>1. call'[c] = how /\ \A d \in McpCalls : d # c => call'[d] = call[d]
  BY <1>0 DEF NativeJobType
<1>2. reports[c] = <<>>
  BY <1>0 DEF CallsReported
<1>3. succeeded(how) \in {"success", "failure"}
  BY DEF succeeded
<1>4. how \notin {"none", "waiting"}
  BY DEF Over
<1>5. Sealed(job)' <=> Sealed(job)
  BY DEF Sealed, settled
<1>6. CASE Sealed(job)
  <2>1. reports' = reports
    BY <1>6 DEF Report
  <2>2. \A d \in McpCalls : succeeded(call[d])' = succeeded(call'[d])
    BY DEF succeeded
  <2> QED BY <1>0, <1>1, <1>2, <1>4, <1>5, <1>6, <2>1, <2>2 DEF CallsReported, NativeJobType
<1>7. CASE ~Sealed(job)
  <2>1. reports' = [reports EXCEPT ![c] = Append(<<>>, succeeded(how))]
    BY <1>2, <1>7 DEF Report
  <2>2. Append(<<>>, succeeded(how)) = <<succeeded(how)>>
        /\ <<succeeded(how)>> \in Seq({"success", "failure"}) /\ <<succeeded(how)>> # <<>>
    BY <1>3
  <2> DEFINE one == <<succeeded(how)>>
  <2>3. reports' = [reports EXCEPT ![c] = one] /\ one \in Seq({"success", "failure"}) /\ one # <<>>
    BY <2>1, <2>2
  <2>4. \A d \in McpCalls : succeeded(call[d])' = succeeded(call'[d])
    BY DEF succeeded
  <2>5. one = <<succeeded(call'[c])>>
    BY <1>1
  <2> HIDE DEF one
  <2>6. reports'[c] = one /\ \A d \in McpCalls : d # c => reports'[d] = reports[d]
    BY <1>0, <2>3 DEF NativeJobType
  <2>7. reports' \in [McpCalls -> Seq({"success", "failure"})]
    BY <1>0, <2>3 DEF NativeJobType
  <2> QED BY <1>0, <1>1, <1>4, <1>5, <2>3, <2>4, <2>5, <2>6, <2>7 DEF CallsReported
<1> QED BY <1>6, <1>7

\* Reports stay, and so does what they are about, or it is interrupted.
LEMMA ReportsStay ==
  ASSUME NativeJobInv, reports' = reports, Sealed(job) => Sealed(job)',
         \A c \in McpCalls :
           \/ call'[c] = call[c]
           \/ call[c] \in {"none", "waiting"} /\ call'[c] \in {"waiting", "interrupted"}
  PROVE  CallsReported'
<1> SUFFICES ASSUME NEW c \in McpCalls
             PROVE  /\ call'[c] \in {"none", "waiting"} => reports[c] = <<>>
                    /\ reports[c] \in {<<>>, <<succeeded(call'[c])>>}
                    /\ call'[c] \in {"result", "toolError", "failed"} /\ ~Sealed(job)'
                         => reports[c] # <<>>
  BY DEF CallsReported, succeeded
<1>0. CallsReported
  BY DEF NativeJobInv
<1>1. CASE call'[c] = call[c]
  BY <1>0, <1>1 DEF CallsReported
<1>2. CASE call[c] \in {"none", "waiting"} /\ call'[c] \in {"waiting", "interrupted"}
  BY <1>0, <1>2 DEF CallsReported
<1> QED BY <1>1, <1>2

LEMMA CallsStep ==
  ASSUME NativeJobInv, NativeJobNext
  PROVE  CallsReported' /\ reports' \in [McpCalls -> Seq({"success", "failure"})]
         /\ call' \in [McpCalls -> {"none", "waiting", "interrupted"} \cup Over]
<1>0. NativeJobType
  BY DEF NativeJobInv
<1>1. Sealed(job) => Sealed(job)'
  BY JobStep
<1>2. CASE UNCHANGED calling
  <2>1. call' = call /\ reports' = reports
    BY <1>2 DEF calling
  <2> QED BY <1>0, <1>1, <2>1, ReportsStay DEF NativeJobType
<1>3. ASSUME NEW c \in McpCalls, NEW name \in 0..MaxTools, CallTool(c, name)
      PROVE  /\ CallsReported' /\ reports' \in [McpCalls -> Seq({"success", "failure"})]
             /\ call' \in [McpCalls -> {"none", "waiting", "interrupted"} \cup Over]
  <2>1. call[c] = "none" /\ call' = [call EXCEPT ![c] = "waiting"] /\ reports' = reports
    BY <1>3 DEF CallTool
  <2> QED BY <1>0, <1>1, <2>1, ReportsStay DEF NativeJobType
<1>4. ASSUME NEW c \in McpCalls,
             CallAborted(c) \/ \E how \in {"result", "toolError", "failed"} : CallEnds(c, how)
      PROVE  /\ CallsReported' /\ reports' \in [McpCalls -> Seq({"success", "failure"})]
             /\ call' \in [McpCalls -> {"none", "waiting", "interrupted"} \cup Over]
  <2>1. PICK how \in Over \cup {"interrupted"} :
          /\ call[c] = "waiting" /\ call' = [call EXCEPT ![c] = how]
          /\ reports' = Report(c, how) /\ job' = job
    BY <1>4 DEF CallAborted, CallEnds, Over
  <2>2. call' \in [McpCalls -> {"none", "waiting", "interrupted"} \cup Over]
    BY <1>0, <2>1 DEF NativeJobType
  <2> QED BY <2>1, <2>2, Reported
<1>5. CASE StopEnds
  <2>1. reports' = reports
        /\ call' = [c \in McpCalls |-> IF call[c] = "waiting" THEN "interrupted" ELSE call[c]]
    BY <1>5 DEF StopEnds
  <2>2. call' \in [McpCalls -> {"none", "waiting", "interrupted"} \cup Over]
    BY <1>0, <2>1 DEF NativeJobType
  <2>3. \A c \in McpCalls :
           \/ call'[c] = call[c]
           \/ call[c] \in {"none", "waiting"} /\ call'[c] \in {"waiting", "interrupted"}
    BY <2>1
  <2> QED BY <1>0, <1>1, <2>1, <2>2, <2>3, ReportsStay DEF NativeJobType
<1>6. \/ UNCHANGED calling \/ StopEnds
      \/ \E c \in McpCalls : \/ \E name \in 0..MaxTools : CallTool(c, name)
                             \/ CallAborted(c)
                             \/ \E how \in {"result", "toolError", "failed"} : CallEnds(c, how)
  BY DEF NativeJobNext, calling, Connect, Connected, Refuses, Withdraw, Release, Page, Spawn, Ready,
     StartupFails, ProcessGone, TurnDone, StopBegins, SealLog, AbortJob, Terminate
<1> QED BY <1>2, <1>3, <1>4, <1>5, <1>6

\* What a client, the process and the stage may become.
LEMMA NativeTypeStep ==
  ASSUME NativeJobInv, NativeJobNext
  PROVE  /\ required' \subseteq McpServers /\ stage' \in JobStage
         /\ client' \in [McpServers -> Connection]
         /\ process' \in {"none", "starting", "running", "terminated", "killed", "gone"}
<1>0. NativeJobType
  BY DEF NativeJobInv
<1>1. client' = client \/ \E s \in McpServers, to \in Connection : client' = [client EXCEPT ![s] = to]
  BY DEF NativeJobNext, Connection, catalog, Connect, Connected, Refuses, Withdraw, Release, Page,
     Spawn, Ready, StartupFails, ProcessGone, CallTool, CallEnds, CallAborted, TurnDone, StopBegins,
     SealLog, AbortJob, Terminate, StopEnds
<1>2. client' \in [McpServers -> Connection]
  BY <1>0, <1>1 DEF NativeJobType
<1>3. required' = required
  BY DEF NativeJobNext, catalog, Connect, Connected, Refuses, Withdraw, Release, Page,
     Spawn, Ready, StartupFails, ProcessGone, CallTool, CallEnds, CallAborted, TurnDone, StopBegins,
     SealLog, AbortJob, Terminate, StopEnds
<1>4. stage' = stage \/ stage' \in JobStage
  BY DEF NativeJobNext, JobStage, Connect, Connected, Refuses, Withdraw, Release, Page,
     Spawn, Ready, StartupFails, ProcessGone, CallTool, CallEnds, CallAborted, TurnDone, StopBegins,
     SealLog, AbortJob, Terminate, StopEnds
<1>5. process' = process \/ process' \in {"starting", "running", "terminated", "killed", "gone"}
  BY DEF NativeJobNext, Connect, Connected, Refuses, Withdraw, Release, Page,
     Spawn, Ready, StartupFails, ProcessGone, CallTool, CallEnds, CallAborted, TurnDone, StopBegins,
     SealLog, AbortJob, Terminate, StopEnds
<1> QED BY <1>0, <1>2, <1>3, <1>4, <1>5 DEF NativeJobType

\* What was left behind when the scope was released stays so.
LEMMA StoppedStep ==
  ASSUME NativeJobInv, NativeJobNext
  PROVE  NothingOutlivesTheJob'
<1>0. NativeJobType /\ OneAtATime /\ NothingOutlivesTheJob
  BY DEF NativeJobInv
<1>1. CASE StopEnds
  <2>1. \A s \in McpServers : client[s] \in {"none", "closed"}
    BY <1>0, <1>1 DEF StopEnds, OneAtATime, Opening, NativeJobType, Connection
  <2> QED BY <1>1, <2>1 DEF StopEnds, catalog, ProcessReleased, NothingOutlivesTheJob
<1>2. CASE ~StopEnds
  <2> SUFFICES ASSUME stage' = "stopped" PROVE NothingOutlivesTheJob'
    BY DEF NothingOutlivesTheJob
  <2>1. stage = "stopped"
    BY <1>2 DEF NativeJobNext, Connect, Connected, Refuses, Withdraw, Release, Page,
       Spawn, Ready, StartupFails, ProcessGone, CallTool, CallEnds, CallAborted, TurnDone, StopBegins,
       SealLog, AbortJob, Terminate
  <2>2. process \in {"none", "gone"} /\ (\A s \in McpServers : client[s] \in {"none", "closed"})
        /\ (\A c \in McpCalls : call[c] # "waiting")
    BY <1>0, <2>1 DEF NothingOutlivesTheJob
  <2>3. client' = client /\ process' = process /\ call' = call
    BY <1>2, <2>1, <2>2 DEF NativeJobNext, catalog, calling, Connect, Connected, Refuses, Withdraw,
       Release, Page, Spawn, Ready, StartupFails, ProcessGone, CallTool, CallEnds, CallAborted,
       TurnDone, StopBegins, SealLog, AbortJob, Terminate
  <2> QED BY <2>2, <2>3 DEF NothingOutlivesTheJob
<1> QED BY <1>1, <1>2

LEMMA NativeJobStep == NativeJobInv /\ [NativeJobNext]_scopeVars => NativeJobInv'
<1> SUFFICES ASSUME NativeJobInv, [NativeJobNext]_scopeVars PROVE NativeJobInv'
  OBVIOUS
<1>1. CASE NativeJobNext
  <2>1. NativeJobType'
    BY <1>1, JobStep, CatalogStep, CallsStep, NativeTypeStep DEF NativeJobType
  <2> QED BY <1>1, <2>1, CatalogStep, CallsStep, StoppedStep DEF NativeJobInv
<1>2. CASE UNCHANGED scopeVars
  BY <1>2 DEF scopeVars, NativeJobInv, NativeJobType, OneAtATime, Numbered, Counted, Without, Served,
     NothingOutlivesTheJob, CallsReported, Sealed, settled, succeeded
<1> QED BY <1>1, <1>2

LEMMA NativeJobStart == NativeJobInit => NativeJobInv
<1> SUFFICES ASSUME NativeJobInit PROVE NativeJobInv
  OBVIOUS
<1>1. job \in JobRow
  BY DEF NativeJobInit, JobRow, Active
<1>2. IsFiniteSet(tools)
  BY FS_EmptySet DEF NativeJobInit
<1>3. NativeJobType
  BY <1>1, <1>2 DEF NativeJobInit, NativeJobType, JobStage, Connection
<1>4. OneAtATime /\ Numbered /\ Served
  BY DEF NativeJobInit, OneAtATime, Numbered, Counted, Without, Served, Opening
<1>5. NothingOutlivesTheJob /\ CallsReported
  BY DEF NativeJobInit, NothingOutlivesTheJob, CallsReported
<1> QED BY <1>3, <1>4, <1>5 DEF NativeJobInv

-----------------------------------------------------------------------------
(* Claude: what becomes of a steer                                          *)

TurnField == {"status", "cancelling", "closing", "finished", "closed", "completed", "reading",
              "results", "items", "accepted", "children", "pending", "blocks", "said", "stray"}
CliField == {"work", "queued", "heard", "moves", "interrupted", "linked", "sub", "owes",
             "tasked", "message", "wrote"}
Hook == {"task", "start", "stop", "note"}
SignalType == Hook \cup {"stream", "assistant", "result", "end", "crash"}
ClaudeType ==
  /\ DOMAIN turn = TurnField /\ DOMAIN cli = CliField
  /\ turn.items \in Nat /\ turn.accepted \in Nat /\ cli.queued \in Nat /\ cli.heard \in Nat
  /\ turn.status \in Terminal \cup Active
  /\ cli.owes \in [Sub -> SUBSET Hook]
  /\ \E S : mail \in Seq(S)
  /\ \A i \in 1..Len(mail) : mail[i].type \in SignalType

\* A steer is with the job, with the CLI or heard.
Balance == ~turn.closing => turn.accepted = turn.items + cli.queued + cli.heard
\* The stream ends only when the CLI has taken all input of a queue that takes no more.
EndSent == \E i \in 1..Len(mail) : mail[i].type = "end"
EndIsFinal ==
  EndSent \/ turn.status = "completed" =>
    turn.closed /\ turn.items = 0 /\ cli.heard = turn.accepted /\ cli.work = "exited"
ClaudeInv == ClaudeType /\ Balance /\ EndIsFinal

\* What no message of the transcript touches.
Keeps(j, k) ==
  /\ DOMAIN k = TurnField /\ k.items = j.items /\ k.accepted = j.accepted
  /\ k.closing = j.closing /\ k.closed = j.closed /\ k.status = j.status

LEMMA KeepsOn ==
  ASSUME NEW j, NEW k, NEW l, Keeps(j, k), Keeps(k, l) PROVE Keeps(j, l)
BY DEF Keeps
LEMMA KeepsSame == ASSUME NEW j, DOMAIN j = TurnField PROVE Keeps(j, j)
BY DEF Keeps

LEMMA KeepsParts ==
  ASSUME NEW j, DOMAIN j = TurnField
  PROVE  /\ \A x : Keeps(j, [j EXCEPT !.children = x])
         /\ \A x : Keeps(j, [j EXCEPT !.blocks = x])
         /\ \A x : Keeps(j, [j EXCEPT !.pending = x])
         /\ \A x : Keeps(j, [j EXCEPT !.stray = x])
         /\ \A x : Keeps(j, [j EXCEPT !.completed = x])
         /\ \A x : Keeps(j, [j EXCEPT !.finished = x])
         /\ \A x : Keeps(j, [j EXCEPT !.reading = x])
         /\ \A x : Keeps(j, [j EXCEPT !.results = x])
<1>1. \A x : Keeps(j, [j EXCEPT !.children = x])
  BY DEF Keeps, TurnField
<1>2. \A x : Keeps(j, [j EXCEPT !.blocks = x])
  BY DEF Keeps, TurnField
<1>3. \A x : Keeps(j, [j EXCEPT !.pending = x])
  BY DEF Keeps, TurnField
<1>4. \A x : Keeps(j, [j EXCEPT !.stray = x])
  BY DEF Keeps, TurnField
<1>5. \A x : Keeps(j, [j EXCEPT !.completed = x])
  BY DEF Keeps, TurnField
<1>6. \A x : Keeps(j, [j EXCEPT !.finished = x])
  BY DEF Keeps, TurnField
<1>7. \A x : Keeps(j, [j EXCEPT !.reading = x])
  BY DEF Keeps, TurnField
<1>8. \A x : Keeps(j, [j EXCEPT !.results = x])
  BY DEF Keeps, TurnField
<1> QED BY <1>1, <1>2, <1>3, <1>4, <1>5, <1>6, <1>7, <1>8

LEMMA KeepsAnnounce ==
  ASSUME NEW j, DOMAIN j = TurnField, NEW i PROVE Keeps(j, announce(j, i))
BY DEF Keeps, TurnField, announce
LEMMA KeepsLinked ==
  ASSUME NEW j, DOMAIN j = TurnField, NEW a, NEW t, NEW k PROVE Keeps(j, linkedTo(j, a, t, k))
BY KeepsParts DEF linkedTo
LEMMA KeepsFlush ==
  ASSUME NEW j, DOMAIN j = TurnField, NEW e, NEW p PROVE Keeps(j, flushTexts(j, e, p))
BY DEF Keeps, TurnField, flushTexts
LEMMA KeepsFinish ==
  ASSUME NEW j, DOMAIN j = TurnField, NEW i PROVE Keeps(j, finish(j, i))
<1>1. CASE j.children[i].status # "in_progress"
  BY <1>1, KeepsSame DEF finish
<1>2. CASE j.children[i].status = "in_progress"
  <2> DEFINE own == {e \in j.pending : e.child = i}
             summary == IF j.children[i].forwarded THEN {} ELSE {[child |-> i, msg |-> 0, index |-> 0]}
             a == announce(j, i)
             f == flushTexts(a, own \cup summary, "final_answer")
             g == [f EXCEPT !.children[i].status = "completed"]
  <2>1. finish(j, i) = g
    BY <1>2 DEF finish
  <2> HIDE DEF own, summary
  <2>2. Keeps(j, a)
    BY KeepsAnnounce
  <2>3. Keeps(a, f)
    BY <2>2, KeepsFlush DEF Keeps
  <2>4. Keeps(f, g)
    <3>1. DOMAIN f = TurnField
      BY <2>3 DEF Keeps
    <3> HIDE DEF f
    <3> QED BY <3>1 DEF Keeps, TurnField
  <2> HIDE DEF a, f, g
  <2> QED BY <2>1, <2>2, <2>3, <2>4, KeepsOn
<1> QED BY <1>1, <1>2

LEMMA KeepsHooks ==
  ASSUME NEW j, DOMAIN j = TurnField, NEW m
  PROVE  /\ Keeps(j, onTask(j, m)) /\ Keeps(j, onSubagentStart(j, m))
         /\ Keeps(j, onSubagentStop(j, m)) /\ Keeps(j, onNotification(j, m))
<1>1. Keeps(j, onTask(j, m))
  <2> DEFINE l == linkedTo(j, {}, {m.of}, {m.of})
             i == subagent(j, {}, {m.of}, {m.of})
  <2>1. Keeps(j, l)
    BY KeepsLinked
  <2>2. Keeps(l, announce(l, i))
    BY <2>1, KeepsAnnounce DEF Keeps
  <2>3. onTask(j, m) = announce(l, i)
    BY DEF onTask
  <2> HIDE DEF l, i
  <2> QED BY <2>1, <2>2, <2>3, KeepsOn
<1>2. Keeps(j, onSubagentStart(j, m))
  <2> DEFINE t == IF m.detail = "linked" THEN {m.of} ELSE {}
             l == linkedTo(j, {m.of}, t, {})
             i == subagent(j, {m.of}, t, {})
  <2>1. Keeps(j, l)
    BY KeepsLinked
  <2>2. Keeps(l, announce(l, i))
    BY <2>1, KeepsAnnounce DEF Keeps
  <2>3. onSubagentStart(j, m) = announce(l, i)
    BY DEF onSubagentStart
  <2> HIDE DEF l, i, t
  <2> QED BY <2>1, <2>2, <2>3, KeepsOn
<1>3. Keeps(j, onSubagentStop(j, m))
  BY KeepsSame, KeepsFinish DEF onSubagentStop
<1>4. Keeps(j, onNotification(j, m))
  BY KeepsSame, KeepsFinish DEF onNotification
<1> QED BY <1>1, <1>2, <1>3, <1>4

LEMMA KeepsScoped ==
  ASSUME NEW j, DOMAIN j = TurnField, NEW m PROVE Keeps(j, Scoped(j, m))
BY KeepsSame, KeepsLinked DEF Scoped

LEMMA KeepsStream ==
  ASSUME NEW j, DOMAIN j = TurnField, NEW m PROVE Keeps(j, acceptStream(j, m))
<1> DEFINE j1 == Scoped(j, m)
           i == scopeOf(j, m)
           b == [of |-> m.of, msg |-> m.msg, index |-> m.index, consumed |-> FALSE,
                 type |-> IF m.block = "empty" THEN "text" ELSE m.block,
                 received |-> m.block # "empty"]
           x == m.block \in {"text", "thinking"} /\ ~Opened(j1, i)
           g == [j1 EXCEPT !.blocks = Append(@, b), !.stray = @ \/ x]
<1>1. Keeps(j, j1)
  BY KeepsScoped
<1>2. acceptStream(j, m) = g
  BY DEF acceptStream
<1>3. Keeps(j1, g)
  <2>1. DOMAIN j1 = TurnField
    BY <1>1 DEF Keeps
  <2> HIDE DEF j1, b, x
  <2> QED BY <2>1 DEF Keeps, TurnField
<1> HIDE DEF j1, g
<1> QED BY <1>1, <1>2, <1>3, KeepsOn

LEMMA KeepsAssistant ==
  ASSUME NEW j, DOMAIN j = TurnField, NEW m PROVE Keeps(j, acceptAssistant(j, m))
<1> DEFINE i == scopeOf(j, m)
           before == Scoped(j, m)
           es == {e \in before.pending : e.child = i /\ (e.msg # m.msg \/ m.block = "tool_use")}
           role == flushTexts(before, es, "commentary")
           ks == assignable(role, m)
           index == IF ks = {} THEN 1 ELSE role.blocks[Min(ks)].index
           j1 == IF ks = {} THEN role ELSE [role EXCEPT !.blocks[Min(ks)].consumed = TRUE]
           j2 == IF i = 0 THEN j1 ELSE [j1 EXCEPT !.children[i].forwarded = @ \/ m.block = "text"]
           j3 == IF m.block = "text"
                 THEN [j2 EXCEPT !.pending = @ \cup {[child |-> i, msg |-> m.msg, index |-> index]}]
                 ELSE [j2 EXCEPT !.stray = @ \/ (m.block = "thinking" /\ (index # m.index \/ ~Opened(j2, i)))]
<1>1. acceptAssistant(j, m) = j3
  BY DEF acceptAssistant
<1>2. Keeps(j, before)
  BY KeepsScoped
<1>3. Keeps(before, role)
  BY <1>2, KeepsFlush DEF Keeps
<1>4. Keeps(role, j1)
  <2> HIDE DEF role
  <2>1. DOMAIN role = TurnField
    BY <1>3 DEF Keeps
  <2>2. Keeps(role, [role EXCEPT !.blocks[Min(ks)].consumed = TRUE])
    <3> HIDE DEF ks
    <3> QED BY <2>1 DEF Keeps, TurnField
  <2> HIDE DEF ks
  <2> QED BY <2>1, <2>2, KeepsSame
<1>5. Keeps(j1, j2)
  <2>1. DOMAIN j1 = TurnField
    BY <1>4 DEF Keeps
  <2> HIDE DEF j1
  <2>2. Keeps(j1, [j1 EXCEPT !.children[i].forwarded = @ \/ m.block = "text"])
    <3> HIDE DEF i
    <3> QED BY <2>1 DEF Keeps, TurnField
  <2> HIDE DEF i
  <2> QED BY <2>1, <2>2, KeepsSame
<1>6. Keeps(j2, j3)
  <2>1. DOMAIN j2 = TurnField
    BY <1>5 DEF Keeps
  <2> HIDE DEF j2, i, index
  <2> QED BY <2>1 DEF Keeps, TurnField
<1> HIDE DEF before, role, j1, j2, j3
<1> QED BY <1>1, <1>2, <1>3, <1>4, <1>5, <1>6, KeepsOn

LEMMA KeepsFinalize ==
  ASSUME NEW j, DOMAIN j = TurnField PROVE Keeps(j, finalize(j))
<1> DEFINE n == DOMAIN j.children
           c == [i \in n |-> [j.children[i] EXCEPT !.announced = TRUE]]
           j1 == [j EXCEPT !.children = c]
           f == flushTexts(j1, j.pending, "final_answer")
           d == [i \in n |-> [j1.children[i] EXCEPT !.status = "completed"]]
           g == [f EXCEPT !.children = d]
<1>1. finalize(j) = g
  BY DEF finalize
<1> HIDE DEF n, c, d
<1>2. Keeps(j, j1)
  BY KeepsParts
<1> HIDE DEF j1
<1>3. Keeps(j1, f)
  BY <1>2, KeepsFlush DEF Keeps
<1> HIDE DEF f
<1>4. Keeps(f, g)
  BY <1>3, KeepsParts DEF Keeps
<1> HIDE DEF g
<1> QED BY <1>1, <1>2, <1>3, <1>4, KeepsOn

\* What a signal does to the outcome.
Accepts(j, m, k) ==
  /\ DOMAIN k = TurnField /\ k.items = j.items /\ k.accepted = j.accepted /\ k.closing = j.closing
  /\ (j.closed => k.closed) /\ k.status \in Terminal \cup Active
  /\ (k.status = "completed" => j.status = "completed" \/ m.type = "end")

LEMMA KeepsAccepts ==
  ASSUME NEW j, NEW m, NEW k, Keeps(j, k), j.status \in Terminal \cup Active PROVE Accepts(j, m, k)
BY DEF Keeps, Accepts

LEMMA SettleDomain ==
  ASSUME NEW j, DOMAIN j = TurnField, j.status \in Terminal \cup Active
  PROVE  /\ LET k == fail(j) IN
            /\ DOMAIN k = TurnField /\ k.items = j.items /\ k.accepted = j.accepted
            /\ k.closing = j.closing /\ k.closed = j.closed /\ k.cancelling = j.cancelling
            /\ k.status \in Terminal \cup Active
            /\ k.status = IF Sealed(j) THEN j.status ELSE "failed"
         /\ LET k == setStatus(j, "completed") IN
            /\ DOMAIN k = TurnField /\ k.items = j.items /\ k.accepted = j.accepted
            /\ k.closing = j.closing /\ k.closed = j.closed /\ k.cancelling = j.cancelling
            /\ k.status \in Terminal \cup Active
            /\ Sealed(j) \/ j.cancelling => (k.status = "completed" => j.status = "completed")
<1>1. CASE Sealed(j)
  BY <1>1 DEF fail, setStatus
<1>2. CASE ~Sealed(j)
  BY <1>2 DEF fail, setStatus, TurnField, Terminal, Active
<1> QED BY <1>1, <1>2

LEMMA EndAccepts ==
  ASSUME NEW j, DOMAIN j = TurnField, j.status \in Terminal \cup Active, NEW m, NEW done,
         m.type = "end" \/ done = FALSE
  PROVE  Accepts(j, m, taskEnds(j, done))
<1> DEFINE s == setStatus(j, "completed")
           f == fail(j)
           k == IF j.cancelling \/ done THEN s ELSE f
<1>1. taskEnds(j, done) = [k EXCEPT !.reading = FALSE]
  BY DEF taskEnds
<1>2. /\ DOMAIN s = TurnField /\ s.items = j.items /\ s.accepted = j.accepted
      /\ s.closing = j.closing /\ s.closed = j.closed
      /\ s.status \in Terminal \cup Active
      /\ j.cancelling => (s.status = "completed" => j.status = "completed")
  BY SettleDomain
<1>3. /\ DOMAIN f = TurnField /\ f.items = j.items /\ f.accepted = j.accepted
      /\ f.closing = j.closing /\ f.closed = j.closed
      /\ f.status \in Terminal \cup Active
      /\ f.status = "completed" => j.status = "completed"
  BY SettleDomain
<1> HIDE DEF s, f
<1>4. Accepts(j, m, k)
  <2>1. CASE j.cancelling
    BY <1>2, <2>1 DEF Accepts
  <2>2. CASE ~j.cancelling /\ done
    BY <1>2, <2>2 DEF Accepts
  <2>3. CASE ~j.cancelling /\ ~done
    BY <1>3, <2>3 DEF Accepts
  <2> QED BY <2>1, <2>2, <2>3
<1> HIDE DEF k
<1>5. Keeps(k, [k EXCEPT !.reading = FALSE])
  BY <1>4, KeepsParts DEF Accepts
<1> QED BY <1>1, <1>4, <1>5 DEF Accepts, Keeps

LEMMA ResultAccepts ==
  ASSUME NEW j, DOMAIN j = TurnField, j.status \in Terminal \cup Active, NEW m
  PROVE  Accepts(j, m, acceptResult(j, m))
<1> DEFINE j1 == [j EXCEPT !.results = TRUE]
           work == m.index > 0 \/ \E i \in DOMAIN j.children : j.children[i].status = "in_progress"
           shut == [j1 EXCEPT !.closed = TRUE]
           e == IF j.cancelling THEN j1 ELSE fail(shut)
           s == setStatus(e, "completed")
           z == finalize(j1)
           g == [z EXCEPT !.finished = TRUE, !.closed = TRUE, !.completed = TRUE, !.blocks = <<>>]
<1>1. acceptResult(j, m) = IF m.detail = "error" THEN [s EXCEPT !.reading = FALSE]
                           ELSE IF work THEN j1 ELSE g
  BY DEF acceptResult
<1>2. Keeps(j, j1) /\ j1.cancelling = j.cancelling
  BY DEF Keeps, TurnField
<1> HIDE DEF work, j1
<1>3. Accepts(j, m, j1)
  BY <1>2, KeepsAccepts
<1>4. Accepts(j, m, g)
  <2>1. Keeps(j1, z)
    BY <1>2, KeepsFinalize DEF Keeps
  <2> HIDE DEF z
  <2>2. /\ DOMAIN g = TurnField /\ g.items = z.items /\ g.accepted = z.accepted
        /\ g.closing = z.closing /\ g.closed = TRUE /\ g.status = z.status
    BY <2>1 DEF Keeps, TurnField
  <2> HIDE DEF g
  <2> QED BY <1>2, <2>1, <2>2 DEF Accepts, Keeps
<1>5. Accepts(j, m, [s EXCEPT !.reading = FALSE])
  <2>1. /\ DOMAIN shut = TurnField /\ shut.items = j1.items /\ shut.accepted = j1.accepted
        /\ shut.closing = j1.closing /\ shut.closed = TRUE /\ shut.status = j1.status
        /\ shut.cancelling = j1.cancelling
    BY <1>2 DEF Keeps, TurnField
  <2> HIDE DEF shut
  <2>2. /\ DOMAIN e = TurnField /\ e.items = j.items /\ e.accepted = j.accepted
        /\ e.closing = j.closing /\ (j.closed => e.closed) /\ e.status \in Terminal \cup Active
        /\ (e.status = "completed" => j.status = "completed")
        /\ Sealed(e) \/ e.cancelling
    <3>1. CASE j.cancelling
      BY <1>2, <3>1 DEF Keeps
    <3>2. CASE ~j.cancelling
      <4>1. e = fail(shut)
        BY <3>2
      <4> HIDE DEF e
      <4> DEFINE k == fail(shut)
      <4>2. /\ DOMAIN k = TurnField /\ k.items = shut.items /\ k.accepted = shut.accepted
            /\ k.closing = shut.closing /\ k.closed = shut.closed
            /\ k.status \in Terminal \cup Active
            /\ k.status = IF Sealed(shut) THEN shut.status ELSE "failed"
        <5>1. DOMAIN shut = TurnField /\ shut.status \in Terminal \cup Active
          BY <1>2, <2>1 DEF Keeps
        <5> QED BY <5>1, SettleDomain
      <4> HIDE DEF k
      <4>3. Sealed(k)
        BY <4>2 DEF Sealed, settled, Terminal
      <4> QED BY <1>2, <2>1, <4>1, <4>2, <4>3 DEF Keeps, k
    <3> QED BY <3>1, <3>2
  <2> HIDE DEF e
  <2>3. Accepts(j, m, s)
    <3>1. /\ DOMAIN s = TurnField /\ s.items = e.items /\ s.accepted = e.accepted
          /\ s.closing = e.closing /\ s.closed = e.closed
          /\ s.status \in Terminal \cup Active
          /\ Sealed(e) \/ e.cancelling => (s.status = "completed" => e.status = "completed")
      BY <2>2, SettleDomain
    <3> HIDE DEF s
    <3> QED BY <2>2, <3>1 DEF Accepts
  <2> HIDE DEF s
  <2>4. Keeps(s, [s EXCEPT !.reading = FALSE])
    BY <2>3, KeepsParts DEF Accepts
  <2> QED BY <2>3, <2>4 DEF Accepts, Keeps
<1> HIDE DEF s, g
<1> QED BY <1>1, <1>3, <1>4, <1>5

LEMMA Accepted ==
  ASSUME NEW j, DOMAIN j = TurnField, j.status \in Terminal \cup Active, NEW m, m.type \in SignalType
  PROVE  Accepts(j, m, accept(j, m))
<1>1. CASE m.type = "task"
  BY <1>1, KeepsHooks, KeepsAccepts DEF accept
<1>2. CASE m.type = "start"
  BY <1>2, KeepsHooks, KeepsAccepts DEF accept
<1>3. CASE m.type = "stop"
  BY <1>3, KeepsHooks, KeepsAccepts DEF accept
<1>4. CASE m.type = "note"
  BY <1>4, KeepsHooks, KeepsAccepts DEF accept
<1>5. CASE m.type = "stream"
  BY <1>5, KeepsStream, KeepsAccepts DEF accept
<1>6. CASE m.type = "assistant"
  BY <1>6, KeepsAssistant, KeepsAccepts DEF accept
<1>7. CASE m.type = "result"
  BY <1>7, ResultAccepts DEF accept
<1>8. CASE m.type = "end"
  BY <1>8, EndAccepts DEF accept
<1>9. CASE m.type = "crash"
  BY <1>9, EndAccepts DEF accept
<1> QED BY <1>1, <1>2, <1>3, <1>4, <1>5, <1>6, <1>7, <1>8, <1>9 DEF SignalType, Hook

-----------------------------------------------------------------------------
\* The mail.
MailType == (\E S : mail \in Seq(S)) /\ \A i \in 1..Len(mail) : mail[i].type \in SignalType
LEMMA SignalIsTyped ==
  ASSUME NEW type, NEW of PROVE Signal(type, of).type = type
BY DEF Signal

LEMMA Posted ==
  ASSUME MailType, NEW m, m.type \in SignalType, Posts(m)
  PROVE  MailType' /\ (EndSent' => EndSent \/ m.type = "end")
<1>1. PICK S : mail \in Seq(S)
  BY DEF MailType
<1> DEFINE T == S \cup {m}
<1>2. mail \in Seq(T) /\ m \in T
  <2>1. mail \in [1..Len(mail) -> S] /\ Len(mail) \in Nat
    BY <1>1
  <2>2. S \subseteq T /\ m \in T
    OBVIOUS
  <2> HIDE DEF T
  <2>3. mail \in [1..Len(mail) -> T]
    BY <2>1, <2>2
  <2> QED BY <2>1, <2>2, <2>3, SeqDef
<1>3. mail' = Append(mail, m) /\ mail' \in Seq(T)
  BY <1>2 DEF Posts
<1>4. /\ Len(mail') = Len(mail) + 1 /\ Len(mail) \in Nat /\ mail'[Len(mail) + 1] = m
      /\ \A i \in 1..Len(mail) : mail'[i] = mail[i]
  BY <1>2, <1>3
<1>5. \A i \in 1..Len(mail') : i \in 1..Len(mail) \/ mail'[i] = m
  BY <1>4
<1>6. MailType'
  BY <1>3, <1>4, <1>5 DEF MailType
<1>7. EndSent' => EndSent \/ m.type = "end"
  BY <1>4, <1>5 DEF EndSent
<1> QED BY <1>6, <1>7

LEMMA Read ==
  ASSUME MailType, mail # <<>>, mail' = Tail(mail)
  PROVE  /\ MailType' /\ (EndSent' => EndSent) /\ Head(mail).type \in SignalType
         /\ (Head(mail).type = "end" => EndSent)
<1>1. PICK S : mail \in Seq(S)
  BY DEF MailType
<1>2. /\ mail' \in Seq(S) /\ Len(mail) \in Nat /\ Len(mail) > 0 /\ Len(mail') = Len(mail) - 1
      /\ \A i \in 1..Len(mail') : mail'[i] = mail[i + 1]
      /\ Head(mail) = mail[1]
  BY <1>1
<1>3. \A i \in 1..Len(mail') : i + 1 \in 1..Len(mail)
  BY <1>2
<1>4. MailType'
  BY <1>2, <1>3 DEF MailType
<1>5. EndSent' => EndSent
  BY <1>2, <1>3 DEF EndSent
<1>6. 1 \in 1..Len(mail)
  BY <1>2
<1> QED BY <1>2, <1>4, <1>5, <1>6 DEF MailType, EndSent

\* What a step of the CLI changes of its own state.
CliMoves(c) ==
  /\ DOMAIN c = CliField /\ c.owes \in [Sub -> SUBSET Hook]
  /\ c.queued = cli.queued /\ c.heard = cli.heard

\* A step of the CLI, up to what it posts.
LEMMA CliSteps ==
  ASSUME ClaudeInv, UNCHANGED turn, CliMoves(cli'), Up,
         NEW m, m.type \in SignalType, mail' = mail \/ Posts(m),
         m.type = "end" => turn.closed /\ turn.items = 0 /\ cli.queued = 0 /\ cli'.work = "exited"
  PROVE  ClaudeInv'
<1>1. MailType
  BY DEF ClaudeInv, ClaudeType, MailType
<1>2. MailType' /\ (EndSent' => EndSent \/ m.type = "end")
  BY <1>1, Posted DEF MailType, EndSent
<1>3. ClaudeType'
  BY <1>2 DEF ClaudeInv, ClaudeType, CliMoves, MailType
<1>4. Balance'
  BY DEF ClaudeInv, Balance, CliMoves
<1>5. ~EndSent /\ turn.status # "completed"
  BY DEF ClaudeInv, EndIsFinal, Up
<1>6. EndIsFinal'
  <2> SUFFICES ASSUME EndSent' PROVE turn'.closed /\ turn'.items = 0 /\ cli'.heard = turn'.accepted /\ cli'.work = "exited"
    BY <1>5 DEF EndIsFinal
  <2>1. m.type = "end"
    BY <1>2, <1>5
  <2>2. ~turn.closing
    BY DEF Up
  <2>3. turn.accepted = turn.items + cli.queued + cli.heard
    BY <2>2 DEF ClaudeInv, Balance
  <2>4. cli.heard \in Nat
    BY DEF ClaudeInv, ClaudeType
  <2>5. turn.accepted = cli.heard
    BY <2>1, <2>3, <2>4
  <2> QED BY <2>1, <2>5 DEF CliMoves
<1> QED BY <1>3, <1>4, <1>6 DEF ClaudeInv

LEMMA CliStep ==
  ASSUME ClaudeInv, CLI PROVE ClaudeInv'
<1> DEFINE Nothing == Signal("task", Main)
<1>0. DOMAIN cli = CliField /\ cli.owes \in [Sub -> SUBSET Hook] /\ Nothing.type = "task"
  BY SignalIsTyped DEF ClaudeInv, ClaudeType
<1> HIDE DEF Nothing
<1>1. ASSUME NEW s \in Sub, CliEnds(s) PROVE ClaudeInv'
  <2>1. CliMoves(cli')
    BY <1>0, <1>1 DEF CliEnds, CliMoves, CliField, Hook
  <2> QED BY <1>0, <1>1, <2>1, CliSteps DEF CliEnds, SignalType, Hook
<1>2. ASSUME NEW s \in Sub, NEW tasked \in BOOLEAN, CliSpawns(s, tasked) PROVE ClaudeInv'
  <2>1. CliMoves(cli')
    BY <1>0, <1>2 DEF CliSpawns, CliMoves, CliField, Hook
  <2> QED BY <1>0, <1>2, <2>1, CliSteps DEF CliSpawns, SignalType, Hook
<1>3. ASSUME NEW s \in Sub, NEW signal \in cli.owes[s], CliTells(s, signal) PROVE ClaudeInv'
  <2>1. CliMoves(cli')
    BY <1>0, <1>3 DEF CliTells, CliMoves, CliField, Hook
  <2> DEFINE m == [Signal(signal, s) EXCEPT !.detail = IF cli.linked THEN "linked" ELSE "none"]
  <2>2. m.type = signal /\ signal \in Hook
    BY <1>0 DEF Signal, Hook
  <2>3. Posts(m)
    BY <1>3 DEF CliTells
  <2> HIDE DEF m
  <2> QED BY <1>3, <2>1, <2>2, <2>3, CliSteps DEF CliTells, SignalType, Hook
<1>4. ASSUME NEW o \in Scope, CliStreams(o) PROVE ClaudeInv'
  <2> DEFINE p == cli.message[o]
             i == p.streamed + 1
             m == [Signal("stream", o) EXCEPT !.index = i, !.block = p.shape[i]]
  <2>1. CliMoves(cli')
    BY <1>0, <1>4 DEF CliStreams, CliMoves, CliField
  <2>2. m.type = "stream"
    BY DEF Signal
  <2>3. Posts(m)
    BY <1>4 DEF CliStreams
  <2> HIDE DEF m
  <2> QED BY <1>4, <2>1, <2>2, <2>3, CliSteps DEF CliStreams, SignalType
<1>5. ASSUME NEW o \in Scope, CliCompletes(o) PROVE ClaudeInv'
  <2> DEFINE p == cli.message[o]
             i == p.done + 1
             m == [Signal("assistant", o) EXCEPT !.index = i, !.block = p.shape[i]]
  <2>1. CliMoves(cli')
    BY <1>0, <1>5 DEF CliCompletes, CliMoves, CliField
  <2>2. m.type = "assistant"
    BY DEF Signal
  <2>3. mail' = mail \/ Posts(m)
    BY <1>5 DEF CliCompletes
  <2> HIDE DEF m
  <2> QED BY <1>5, <2>1, <2>2, <2>3, CliSteps DEF CliCompletes, SignalType
<1>6. ASSUME NEW o \in Scope, NEW shape \in Shape, CliOpens(o, shape) PROVE ClaudeInv'
  <2>1. CliMoves(cli')
    BY <1>0, <1>6 DEF CliOpens, CliMoves, CliField
  <2> QED BY <1>0, <1>6, <2>1, CliSteps DEF CliOpens, SignalType, Hook
<1>7. ASSUME NEW detail \in {"success", "error"}, CliResult(detail) PROVE ClaudeInv'
  <2> DEFINE m == [Signal("result", Main) EXCEPT !.detail = detail, !.index = cli.queued]
  <2>1. CliMoves(cli')
    BY <1>0, <1>7 DEF CliResult, CliMoves, CliField
  <2>2. m.type = "result"
    BY DEF Signal
  <2>3. Posts(m)
    BY <1>7 DEF CliResult
  <2> HIDE DEF m
  <2> QED BY <1>7, <2>1, <2>2, <2>3, CliSteps DEF CliResult, SignalType
<1>8. CASE CliHears
  <2>1. /\ DOMAIN cli' = CliField /\ cli'.owes = cli.owes /\ cli'.queued = cli.queued - 1
        /\ cli'.heard = cli.heard + 1
    BY <1>0, <1>8 DEF CliHears, CliField
  <2>2. Up /\ cli.queued > 0 /\ turn' = turn /\ mail' = mail
    BY <1>8 DEF CliHears
  <2>3. ClaudeType'
    BY <2>1, <2>2 DEF ClaudeInv, ClaudeType
  <2>4. Balance'
    <3>1. turn.accepted = turn.items + cli.queued + cli.heard
      BY <2>2 DEF ClaudeInv, Balance, Up
    <3>2. turn.items \in Nat /\ cli.queued \in Nat /\ cli.heard \in Nat
      BY DEF ClaudeInv, ClaudeType
    <3> QED BY <2>1, <2>2, <3>1, <3>2 DEF Balance
  <2>5. EndIsFinal'
    BY <2>2 DEF ClaudeInv, EndIsFinal, Up, EndSent
  <2> QED BY <2>3, <2>4, <2>5 DEF ClaudeInv
<1>9. CASE CliExits
  <2>1. CliMoves(cli') /\ cli'.work = "exited"
    BY <1>0, <1>9 DEF CliExits, CliMoves, CliField
  <2> QED BY <1>9, <2>1, SignalIsTyped, CliSteps DEF CliExits, SignalType, Ended
<1>10. CASE CliDies
  <2>1. CliMoves(cli')
    BY <1>0, <1>10 DEF CliDies, CliMoves, CliField
  <2> QED BY <1>10, <2>1, SignalIsTyped, CliSteps DEF CliDies, SignalType
<1> QED BY <1>1, <1>2, <1>3, <1>4, <1>5, <1>6, <1>7, <1>8, <1>9, <1>10 DEF CLI

LEMMA ConsumeStep ==
  ASSUME ClaudeInv, consume PROVE ClaudeInv'
<1> DEFINE m == Head(mail)
<1>0. /\ MailType /\ DOMAIN turn = TurnField /\ turn.status \in Terminal \cup Active
      /\ mail # <<>> /\ mail' = Tail(mail) /\ turn' = accept(turn, m) /\ UNCHANGED cli
  BY DEF ClaudeInv, ClaudeType, MailType, consume
<1>1. MailType' /\ (EndSent' => EndSent) /\ m.type \in SignalType /\ (m.type = "end" => EndSent)
  BY <1>0, Read
<1> HIDE DEF m
<1>2. Accepts(turn, m, turn')
  BY <1>0, <1>1, Accepted
<1>3. ClaudeType'
  BY <1>0, <1>1, <1>2 DEF ClaudeInv, ClaudeType, Accepts, MailType
<1>4. Balance'
  BY <1>0, <1>2 DEF ClaudeInv, Balance, Accepts
<1>5. EndIsFinal'
  <2> SUFFICES ASSUME EndSent' \/ turn'.status = "completed"
               PROVE  turn'.closed /\ turn'.items = 0 /\ cli'.heard = turn'.accepted /\ cli'.work = "exited"
    BY DEF EndIsFinal
  <2>1. EndSent \/ turn.status = "completed"
    BY <1>1, <1>2 DEF Accepts
  <2> QED BY <1>0, <1>2, <2>1 DEF ClaudeInv, EndIsFinal, Accepts
<1> QED BY <1>3, <1>4, <1>5 DEF ClaudeInv

\* A step that seals the input, or does not change what was counted.
LEMMA SealStep ==
  ASSUME ClaudeInv, DOMAIN turn' = TurnField, turn'.status \in Terminal \cup Active,
         turn'.accepted = turn.accepted, turn'.items = turn.items,
         turn'.closing = turn.closing, turn.closed => turn'.closed,
         turn'.status = "completed" => turn.status = "completed", mail' = mail,
         DOMAIN cli' = CliField, cli'.queued = cli.queued, cli'.heard = cli.heard,
         cli'.owes = cli.owes, cli'.work = cli.work
  PROVE  ClaudeInv'
<1>1. ClaudeType'
  BY DEF ClaudeInv, ClaudeType
<1>2. Balance' /\ EndIsFinal'
  BY DEF ClaudeInv, Balance, EndIsFinal, EndSent
<1> QED BY <1>1, <1>2 DEF ClaudeInv

LEMMA ControlStep ==
  ASSUME ClaudeInv, yields \/ steer \/ steerEnds \/ interruptRuntime \/ interrupted \/ closeRuntime
  PROVE  ClaudeInv'
<1>0. /\ DOMAIN turn = TurnField /\ DOMAIN cli = CliField /\ turn.status \in Terminal \cup Active
      /\ turn.items \in Nat /\ turn.accepted \in Nat /\ cli.queued \in Nat /\ cli.heard \in Nat
      /\ cli.owes \in [Sub -> SUBSET Hook]
  BY DEF ClaudeInv, ClaudeType
<1>1. CASE yields
  <2>1. /\ turn.items > 0 /\ ~turn.closing /\ cli.work # "exited" /\ mail' = mail
    BY <1>1 DEF yields, Up
  <2>2. /\ DOMAIN turn' = TurnField /\ turn'.items = turn.items - 1 /\ turn'.accepted = turn.accepted
        /\ turn'.status = turn.status /\ turn'.closing = turn.closing
    BY <1>0, <1>1 DEF yields, TurnField
  <2>3. /\ DOMAIN cli' = CliField /\ cli'.queued = cli.queued + 1 /\ cli'.heard = cli.heard
        /\ cli'.owes = cli.owes
    BY <1>0, <1>1 DEF yields, CliField
  <2>4. ClaudeType'
    BY <2>1, <2>2, <2>3 DEF ClaudeInv, ClaudeType
  <2>5. Balance'
    <3>1. turn.accepted = turn.items + cli.queued + cli.heard
      BY <2>1 DEF ClaudeInv, Balance
    <3> QED BY <1>0, <2>2, <2>3, <3>1 DEF Balance
  <2>6. EndIsFinal'
    BY <2>1, <2>2 DEF ClaudeInv, EndIsFinal, EndSent
  <2> QED BY <2>4, <2>5, <2>6 DEF ClaudeInv
<1>2. CASE steer
  BY <1>0, <1>2, SealStep DEF steer
<1>3. CASE steerEnds /\ Finished
  BY <1>0, <1>3, SealStep DEF steerEnds
<1>4. CASE steerEnds /\ ~Finished
  <2>1. /\ DOMAIN turn' = TurnField /\ turn'.items = turn.items + 1 /\ turn'.accepted = turn.accepted + 1
        /\ turn'.status = turn.status /\ turn'.closing = turn.closing
    BY <1>0, <1>4 DEF steerEnds, TurnField
  <2>2. ~turn.closed /\ mail' = mail /\ cli' = cli
    BY <1>4 DEF steerEnds, Finished
  <2>3. ClaudeType'
    BY <1>0, <2>1, <2>2 DEF ClaudeInv, ClaudeType
  <2>4. Balance'
    BY <1>0, <2>1, <2>2 DEF ClaudeInv, Balance
  <2>5. EndIsFinal'
    BY <2>1, <2>2 DEF ClaudeInv, EndIsFinal, EndSent
  <2> QED BY <2>3, <2>4, <2>5 DEF ClaudeInv
<1>5. CASE interruptRuntime
  <2> DEFINE r == requestCancel(turn)
  <2>1. /\ DOMAIN r = TurnField /\ r.status = turn.status /\ r.items = turn.items
        /\ r.accepted = turn.accepted /\ r.closing = turn.closing /\ r.closed = turn.closed
    BY <1>0 DEF requestCancel, TurnField
  <2>2. turn' = [r EXCEPT !.results = FALSE]
    BY <1>5 DEF interruptRuntime
  <2> HIDE DEF r
  <2>3. /\ DOMAIN turn' = TurnField /\ turn'.status = turn.status /\ turn'.items = turn.items
        /\ turn'.accepted = turn.accepted /\ turn'.closing = turn.closing /\ turn'.closed = turn.closed
    BY <2>1, <2>2 DEF TurnField
  <2>4. /\ DOMAIN cli' = CliField /\ cli'.queued = cli.queued /\ cli'.heard = cli.heard
        /\ cli'.owes = cli.owes /\ cli'.work = cli.work /\ mail' = mail
    BY <1>0, <1>5 DEF interruptRuntime, CliField
  <2> QED BY <1>0, <2>3, <2>4, SealStep
<1>6. CASE interrupted
  <2>1. /\ DOMAIN turn' = TurnField /\ turn'.status = turn.status /\ turn'.items = turn.items
        /\ turn'.accepted = turn.accepted /\ turn'.closing = turn.closing /\ turn'.closed
    BY <1>0, <1>6 DEF interrupted, TurnField
  <2> QED BY <1>0, <1>6, <2>1, SealStep DEF interrupted
<1>7. CASE closeRuntime
  <2> DEFINE c == close(turn)
  <2>1. /\ DOMAIN c = TurnField /\ c.accepted = turn.accepted /\ c.closing = TRUE
        /\ c.status \in Terminal \cup Active /\ (c.status = "completed" => turn.status = "completed")
    BY <1>0 DEF close, TurnField, Terminal
  <2>2. turn' = [c EXCEPT !.finished = TRUE, !.closed = TRUE, !.items = 0] /\ mail' = <<>>
    BY <1>7 DEF closeRuntime
  <2> HIDE DEF c
  <2>3. /\ DOMAIN turn' = TurnField /\ turn'.accepted = turn.accepted /\ turn'.closing = TRUE
        /\ turn'.closed = TRUE /\ turn'.items = 0 /\ turn'.status \in Terminal \cup Active
        /\ (turn'.status = "completed" => turn.status = "completed")
    BY <2>1, <2>2 DEF TurnField
  <2>4. /\ DOMAIN cli' = CliField /\ cli'.queued = cli.queued /\ cli'.heard = cli.heard
        /\ cli'.owes = cli.owes /\ cli'.work = "exited"
    BY <1>0, <1>7 DEF closeRuntime, CliField
  <2>5. mail' \in Seq({}) /\ Len(mail') = 0
    BY <2>2
  <2>6. ClaudeType'
    BY <1>0, <2>3, <2>4, <2>5 DEF ClaudeType
  <2>7. Balance' /\ ~EndSent'
    BY <2>3, <2>5 DEF Balance, EndSent
  <2>8. EndIsFinal'
    BY <2>3, <2>4, <2>7 DEF ClaudeInv, EndIsFinal
  <2> QED BY <2>6, <2>7, <2>8 DEF ClaudeInv
<1> QED BY <1>1, <1>2, <1>3, <1>4, <1>5, <1>6, <1>7

LEMMA ClaudeStep == ClaudeInv /\ [ClaudeNext]_claudeVars => ClaudeInv'
<1> SUFFICES ASSUME ClaudeInv, [ClaudeNext]_claudeVars PROVE ClaudeInv'
  OBVIOUS
<1>1. CASE UNCHANGED claudeVars
  BY <1>1 DEF claudeVars, ClaudeInv, ClaudeType, Balance, EndIsFinal, EndSent
<1> QED BY <1>1, CliStep, ConsumeStep, ControlStep DEF ClaudeNext

LEMMA ClaudeStart == ClaudeInit => ClaudeInv
<1> SUFFICES ASSUME ClaudeInit PROVE ClaudeInv
  OBVIOUS
<1>1. /\ DOMAIN turn = TurnField /\ turn.items = 0 /\ turn.accepted = 0 /\ turn.status = "running"
  BY DEF ClaudeInit, TurnField
<1>2. /\ DOMAIN cli = CliField /\ cli.queued = 0 /\ cli.heard = 0 /\ cli.owes = [s \in Sub |-> {}]
  BY DEF ClaudeInit, CliField
<1>3. mail \in Seq({}) /\ Len(mail) = 0
  BY DEF ClaudeInit
<1>4. ClaudeType
  BY <1>1, <1>2, <1>3 DEF ClaudeType, Active
<1>5. Balance /\ EndIsFinal
  BY <1>1, <1>2, <1>3 DEF Balance, EndIsFinal, EndSent
<1> QED BY <1>4, <1>5 DEF ClaudeInv

LEMMA ClaudeHears == ClaudeInv => SteerHeard
BY DEF ClaudeInv, EndIsFinal, SteerHeard

-----------------------------------------------------------------------------
(* OpenCode: what becomes of a steer                                        *)

OcField == {"status", "cancelling", "closing", "pc", "steered", "admitted", "orphans", "answered",
            "settling", "echoed", "late", "children", "pendingText", "said", "stray", "answer", "token"}
ServerField == {"up", "users", "deleted", "loop", "reply", "assistants", "answering", "worked",
                "wrote", "repeated", "kid", "kids", "tooled", "last", "steer", "holds"}
Place == {"prompting", "idling", "settle", "settleBarrier", "orphans", "rerun", "last", "lastBarrier", "done"}
OpenCodeType ==
  /\ DOMAIN oc = OcField /\ DOMAIN server = ServerField
  /\ oc.status \in Terminal \cup Active /\ oc.pc \in Place
  /\ gate \in {"free", "steer", "turn"}
  /\ server.users \in 1..MaxUser /\ server.holds \in [1..MaxUser -> SUBSET (1..MaxUser)]
  /\ server.deleted \subseteq 2..server.users
  /\ \E S : feed \in Seq(S)

\* A message that was answered, here or in an event under way, was read with all it holds.
Announced(u) == \E i \in 1..Len(feed) : feed[i].type = "assistant" /\ feed[i].detail = u
AllRead ==
  \A u : u \in oc.answered \/ Announced(u) =>
           u \in 1..server.users /\ server.holds[u] \subseteq server.worked
\* A steer is a message of its own, and is worked on or still to be settled.
Steers ==
  /\ oc.orphans \subseteq oc.steered /\ oc.steered \subseteq oc.admitted
  /\ oc.admitted \subseteq server.worked \cup oc.steered
  /\ \A u \in oc.admitted : u \in 2..server.users /\ u \in server.holds[u]
  /\ gate = "steer" => server.steer \in 2..server.users /\ server.steer \in server.holds[server.steer]
\* Orphans that were prompted again are read, or are in a message the loop is about to read.
Rerun ==
  oc.pc = "prompting" =>
    \/ oc.orphans \subseteq server.worked
    \/ /\ server.loop = "reading" /\ server.reply = "awaited"
       /\ \E n \in Stored : oc.orphans \subseteq server.holds[n]
\* The gate is the turn's while it looks for orphans; once there are none, no steer comes in.
Settles ==
  /\ oc.pc \in {"settleBarrier", "orphans"} => gate = "turn"
  /\ oc.settling => /\ oc.pc \in {"last", "lastBarrier", "done"}
                    /\ gate # "steer" /\ oc.admitted \subseteq server.worked
  /\ oc.pc \in {"last", "lastBarrier"} \/ oc.status = "completed" => oc.settling
OpenCodeInv == OpenCodeType /\ AllRead /\ Steers /\ Rerun /\ Settles

LEMMA NewestStored ==
  ASSUME OpenCodeType PROVE 1 \in Stored /\ Newest \in Stored
<1>1. server.users \in Nat /\ 1 \in Stored /\ Stored \subseteq 1..server.users
  BY OpenCodeAssumption DEF OpenCodeType, Stored
<1>2. \E n \in Stored : \A v \in Stored : v <= n
  <2> DEFINE Rest == {server.users - u : u \in Stored}
  <2>1. Rest \subseteq Nat /\ Rest # {}
    BY <1>1
  <2>2. PICK x \in Rest : \A y \in Rest : <<y, x>> \notin OpToRel(<, Nat)
    BY <2>1, NatLessThanWellFounded, WFMin
  <2>3. PICK u \in Stored : x = server.users - u
    BY <2>2
  <2>4. \A v \in Stored : v <= u
    <3> TAKE v \in Stored
    <3>1. server.users - v \in Rest /\ server.users - v \in Nat /\ x \in Nat
      BY <1>1, <2>1, <2>2
    <3>2. ~(server.users - v < x)
      BY <2>2, <3>1 DEF OpToRel
    <3> QED BY <1>1, <2>3, <3>2
  <2> QED BY <2>4
<1> QED BY <1>1, <1>2 DEF Newest

-----------------------------------------------------------------------------
\* What an event does to the state of the turn: nothing but to say which message is answered.
Reads(j, k) ==
  /\ DOMAIN k = OcField /\ k.status = j.status /\ k.closing = j.closing /\ k.pc = j.pc
  /\ k.steered = j.steered /\ k.admitted = j.admitted /\ k.orphans = j.orphans
  /\ k.settling = j.settling /\ k.cancelling = j.cancelling
ReadsOn(j, k) == Reads(j, k) /\ k.answered = j.answered

LEMMA ReadsTwice ==
  ASSUME NEW j, NEW k, NEW l, ReadsOn(j, k), ReadsOn(k, l) PROVE ReadsOn(j, l)
BY DEF Reads, ReadsOn
LEMMA ReadsNothing == ASSUME NEW j, DOMAIN j = OcField PROVE ReadsOn(j, j)
BY DEF Reads, ReadsOn
LEMMA ReadsParts ==
  ASSUME NEW j, DOMAIN j = OcField
  PROVE  /\ \A x : ReadsOn(j, [j EXCEPT !.pendingText = x])
         /\ \A x : ReadsOn(j, [j EXCEPT !.children = x])
         /\ \A x : ReadsOn(j, [j EXCEPT !.echoed = x])
         /\ \A x, y : ReadsOn(j, [j EXCEPT !.said = x, !.stray = y])
         /\ \A x, y : ReadsOn(j, [j EXCEPT !.said = x, !.pendingText = y])
         /\ \A x : Reads(j, [j EXCEPT !.answered = x])
<1>1. \A x : ReadsOn(j, [j EXCEPT !.pendingText = x])
  BY DEF Reads, ReadsOn, OcField
<1>2. \A x : ReadsOn(j, [j EXCEPT !.children = x])
  BY DEF Reads, ReadsOn, OcField
<1>3. \A x : ReadsOn(j, [j EXCEPT !.echoed = x])
  BY DEF Reads, ReadsOn, OcField
<1>4. \A x, y : ReadsOn(j, [j EXCEPT !.said = x, !.stray = y])
  BY DEF Reads, ReadsOn, OcField
<1>5. \A x, y : ReadsOn(j, [j EXCEPT !.said = x, !.pendingText = y])
  BY DEF Reads, ReadsOn, OcField
<1>6. \A x : Reads(j, [j EXCEPT !.answered = x])
  BY DEF Reads, OcField
<1> QED BY <1>1, <1>2, <1>3, <1>4, <1>5, <1>6

LEMMA ReadsSay ==
  ASSUME NEW j, DOMAIN j = OcField, NEW m, NEW p PROVE ReadsOn(j, say(j, m, p))
<1>1. ReadsOn(j, sayTwice(j, m, p))
  BY DEF sayTwice, Reads, ReadsOn, OcField
<1> QED BY <1>1, ReadsNothing DEF say

LEMMA ReadsFlush ==
  ASSUME NEW j, DOMAIN j = OcField, NEW m, NEW p PROVE ReadsOn(j, flushText(j, m, p))
<1> DEFINE s == say(j, m, p)
           g == [s EXCEPT !.pendingText = @ \ {m}]
<1>1. ReadsOn(j, s)
  BY ReadsSay
<1>2. flushText(j, m, p) = IF m \in j.pendingText THEN g ELSE j
  BY DEF flushText
<1> HIDE DEF s
<1>3. ReadsOn(s, g)
  BY <1>1, ReadsParts DEF ReadsOn, Reads
<1> HIDE DEF g
<1> QED BY <1>1, <1>2, <1>3, ReadsTwice, ReadsNothing

LEMMA ReadsChild ==
  ASSUME NEW j, DOMAIN j = OcField, NEW m
  PROVE  ReadsOn(j, openChild(j, m)) /\ ReadsOn(j, closeChild(j, m)) /\ ReadsOn(j, collectText(j, m))
<1>1. ReadsOn(j, openChild(j, m))
  BY ReadsNothing, ReadsParts DEF openChild
<1>2. ReadsOn(j, closeChild(j, m))
  <2> DEFINE s == flushText(j, m, "final_answer")
             g == [s EXCEPT !.children[-m] = "closed"]
  <2>1. ReadsOn(j, s)
    BY ReadsFlush
  <2>2. closeChild(j, m) = IF j.children[-m] # "open" THEN j ELSE g
    BY DEF closeChild
  <2> HIDE DEF s
  <2>3. ReadsOn(s, g)
    BY <2>1, ReadsParts DEF ReadsOn, Reads
  <2> HIDE DEF g
  <2> QED BY <2>1, <2>2, <2>3, ReadsTwice, ReadsNothing
<1>3. ReadsOn(j, collectText(j, m))
  BY ReadsNothing, ReadsParts DEF collectText
<1> QED BY <1>1, <1>2, <1>3

LEMMA ReadsEvent ==
  ASSUME NEW j, DOMAIN j = OcField, NEW e
  PROVE  LET k == accepts(j, e) IN
         /\ Reads(j, k)
         /\ \A u \in k.answered : u \in j.answered \/ (e.type = "assistant" /\ u = e.detail)
<1> DEFINE k == accepts(j, e)
           g == [j EXCEPT !.answered = @ \cup {e.detail}]
<1>1. CASE e.type = "assistant"
  <2>1. k = g
    BY <1>1 DEF accepts
  <2>2. Reads(j, g) /\ g.answered = j.answered \cup {e.detail}
    BY DEF Reads, OcField
  <2> HIDE DEF g, k
  <2> QED BY <1>1, <2>1, <2>2 DEF k
<1>2. CASE e.type # "assistant"
  <2>1. ReadsOn(j, k)
    <3>1. CASE e.type = "created"
      BY <3>1, ReadsChild DEF accepts
    <3>2. CASE e.type = "text"
      BY <3>2, ReadsChild DEF accepts
    <3>3. CASE e.type \in {"step", "finish"}
      BY <3>3, ReadsFlush DEF accepts
    <3>4. CASE e.type = "idle" /\ e.msg < 0
      BY <3>4, ReadsChild DEF accepts
    <3>5. CASE e.type = "echo"
      BY <3>5, ReadsParts DEF accepts
    <3>6. CASE e.type \notin {"created", "text", "step", "finish", "echo"} /\ ~(e.type = "idle" /\ e.msg < 0)
      BY <1>2, <3>6, ReadsNothing DEF accepts
    <3> QED BY <3>1, <3>2, <3>3, <3>4, <3>5, <3>6
  <2> HIDE DEF k
  <2> QED BY <2>1 DEF ReadsOn, k
<1> QED BY <1>1, <1>2

LEMMA ReadsSaid ==
  ASSUME NEW j, DOMAIN j = OcField PROVE ReadsOn(j, Said(j))
<1> DEFINE f == flushAll(j)
           c == [f EXCEPT !.children = [k \in DOMAIN @ |-> IF @[k] = "open" THEN "closed" ELSE @[k]]]
<1>1. ReadsOn(j, f)
  BY ReadsParts DEF flushAll
<1>2. Said(j) = IF j.answer \in server.wrote THEN say(c, j.answer, "final_answer") ELSE c
  <2>1. c.answer = j.answer
    BY DEF flushAll, OcField
  <2> HIDE DEF c
  <2> QED BY <2>1 DEF Said, c
<1> HIDE DEF f
<1>3. ReadsOn(f, c)
  BY <1>1, ReadsParts DEF ReadsOn, Reads
<1> HIDE DEF c
<1>4. ReadsOn(c, say(c, j.answer, "final_answer"))
  BY <1>3, ReadsSay DEF ReadsOn, Reads
<1> QED BY <1>1, <1>2, <1>3, <1>4, ReadsTwice

-----------------------------------------------------------------------------
\* The feed.
LEMMA Published ==
  ASSUME OpenCodeType, NEW T, NEW events \in Seq(T), Publishes(events)
  PROVE  /\ \E S : feed' \in Seq(S)
         /\ \A u : Announced(u)' =>
              Announced(u) \/ \E i \in 1..Len(events) : events[i].type = "assistant" /\ events[i].detail = u
<1>1. PICK S : feed \in Seq(S)
  BY DEF OpenCodeType
<1> DEFINE U == S \cup T
<1>2. feed \in Seq(U) /\ events \in Seq(U)
  <2>1. S \subseteq U /\ T \subseteq U
    OBVIOUS
  <2> HIDE DEF U
  <2> QED BY <1>1, <2>1, SeqMonotonic
<1> HIDE DEF U
<1>3. feed' = feed \o events
  BY DEF Publishes
<1>4. feed' \in Seq(U)
  BY <1>2, <1>3
<1>5. \A i \in 1..Len(feed') : \/ i \in 1..Len(feed) /\ feed'[i] = feed[i]
                               \/ i - Len(feed) \in 1..Len(events) /\ feed'[i] = events[i - Len(feed)]
  BY <1>2, <1>3
<1>6. \A u : Announced(u)' =>
        Announced(u) \/ \E i \in 1..Len(events) : events[i].type = "assistant" /\ events[i].detail = u
  BY <1>5 DEF Announced
<1> QED BY <1>4, <1>6

LEMMA Heard ==
  ASSUME OpenCodeType, feed # <<>>, feed' = Tail(feed)
  PROVE  /\ \E S : feed' \in Seq(S)
         /\ \A u : Announced(u)' => Announced(u)
         /\ Head(feed).type = "assistant" => Announced(Head(feed).detail)
<1>1. PICK S : feed \in Seq(S)
  BY DEF OpenCodeType
<1>2. /\ feed' \in Seq(S) /\ Len(feed) \in Nat /\ Len(feed) > 0 /\ Len(feed') = Len(feed) - 1
      /\ \A i \in 1..Len(feed') : feed'[i] = feed[i + 1]
      /\ Head(feed) = feed[1]
  BY <1>1
<1>3. \A i \in 1..Len(feed') : i + 1 \in 1..Len(feed)
  BY <1>2
<1>4. \A u : Announced(u)' => Announced(u)
  BY <1>2, <1>3 DEF Announced
<1>5. 1 \in 1..Len(feed)
  BY <1>2
<1> QED BY <1>2, <1>4, <1>5 DEF Announced

\* Events that answer nothing.
LEMMA PublishedQuietly ==
  ASSUME OpenCodeType, NEW T, NEW events \in Seq(T), Publishes(events),
         \A i \in 1..Len(events) : events[i].type # "assistant"
  PROVE  (\E S : feed' \in Seq(S)) /\ \A u : Announced(u)' => Announced(u)
BY Published
LEMMA PublishedOne ==
  ASSUME OpenCodeType, NEW e, e.type # "assistant", Publishes(<<e>>)
  PROVE  (\E S : feed' \in Seq(S)) /\ \A u : Announced(u)' => Announced(u)
<1> DEFINE es == <<e>>
<1>1. es \in Seq({e}) /\ Len(es) = 1 /\ es[1] = e /\ Publishes(es)
  OBVIOUS
<1> HIDE DEF es
<1>2. \A i \in 1..Len(es) : es[i].type # "assistant"
  BY <1>1
<1> QED BY <1>1, <1>2, PublishedQuietly
LEMMA PublishedTwo ==
  ASSUME OpenCodeType, NEW e, NEW f, e.type # "assistant", f.type # "assistant", Publishes(<<e, f>>)
  PROVE  (\E S : feed' \in Seq(S)) /\ \A u : Announced(u)' => Announced(u)
<1> DEFINE es == <<e, f>>
<1>1. es \in Seq({e, f}) /\ Len(es) = 2 /\ es[1] = e /\ es[2] = f /\ Publishes(es)
  OBVIOUS
<1> HIDE DEF es
<1>2. \A i \in 1..Len(es) : es[i].type # "assistant"
  BY <1>1
<1> QED BY <1>1, <1>2, PublishedQuietly
LEMMA EventTyped ==
  ASSUME NEW t, NEW m, NEW d PROVE Event(t, m, d).type = t /\ Event(t, m, d).detail = d
BY DEF Event

-----------------------------------------------------------------------------
(* The steps.                                                               *)

\* A step that admits, deletes and answers nothing: the rest follows from what it does to
\* the place of the turn, the gate and the loop.
LEMMA QuietStep ==
  ASSUME OpenCodeInv,
         DOMAIN oc' = OcField, DOMAIN server' = ServerField,
         oc'.status \in Terminal \cup Active, oc'.pc \in Place, gate' \in {"free", "steer", "turn"},
         \E S : feed' \in Seq(S), \A u : Announced(u)' => Announced(u),
         oc'.answered = oc.answered, oc'.admitted = oc.admitted, oc'.settling = oc.settling,
         oc'.steered = oc.steered, oc'.orphans = oc.orphans,
         server'.users = server.users, server'.holds = server.holds, server'.deleted = server.deleted,
         server'.worked = server.worked, server'.steer = server.steer,
         gate' = "steer" => gate = "steer",
         oc'.pc = "prompting" => oc.pc = "prompting",
         server.loop = "reading" /\ server.reply = "awaited" =>
           server'.loop = "reading" /\ server'.reply = "awaited",
         oc'.pc \in {"settleBarrier", "orphans"} =>
           gate' = "turn" \/ (gate' = gate /\ oc.pc \in {"settleBarrier", "orphans"}),
         oc'.pc \in {"last", "lastBarrier"} => oc.pc \in {"last", "lastBarrier"},
         oc.pc \in {"last", "lastBarrier", "done"} => oc'.pc \in {"last", "lastBarrier", "done"},
         oc'.status = "completed" => oc.status = "completed" \/ oc.pc = "lastBarrier"
  PROVE  OpenCodeInv'
<1>1. OpenCodeType'
  BY DEF OpenCodeInv, OpenCodeType
<1>2. AllRead'
  BY DEF OpenCodeInv, AllRead
<1>3. Steers'
  BY DEF OpenCodeInv, Steers
<1>4. Rerun'
  <2>1. Stored' = Stored
    BY DEF Stored
  <2> QED BY <2>1 DEF OpenCodeInv, Rerun
<1>5. Settles'
  <2>1. oc'.pc \in {"settleBarrier", "orphans"} => gate' = "turn"
    BY DEF OpenCodeInv, Settles
  <2>2. oc'.settling => /\ oc'.pc \in {"last", "lastBarrier", "done"}
                        /\ gate' # "steer" /\ oc'.admitted \subseteq server'.worked
    BY DEF OpenCodeInv, Settles
  <2>3. oc'.pc \in {"last", "lastBarrier"} \/ oc'.status = "completed" => oc'.settling
    BY DEF OpenCodeInv, Settles
  <2> QED BY <2>1, <2>2, <2>3 DEF Settles
<1> QED BY <1>1, <1>2, <1>3, <1>4, <1>5 DEF OpenCodeInv

\* What a step of the server that reads nothing leaves alone.
ServerMoves(s) ==
  /\ DOMAIN s = ServerField /\ s.users = server.users /\ s.holds = server.holds
  /\ s.deleted = server.deleted /\ s.worked = server.worked /\ s.steer = server.steer
  /\ s.reply = server.reply
LEMMA ServerQuiet ==
  ASSUME OpenCodeInv, UNCHANGED <<oc, gate>>, ServerMoves(server'),
         \E S : feed' \in Seq(S), \A u : Announced(u)' => Announced(u),
         server.loop = "reading" => server'.loop = "reading"
  PROVE  OpenCodeInv'
<1>1. /\ DOMAIN oc = OcField /\ oc.status \in Terminal \cup Active /\ oc.pc \in Place
      /\ gate \in {"free", "steer", "turn"}
  BY DEF OpenCodeInv, OpenCodeType
<1> QED BY <1>1, QuietStep DEF ServerMoves

LEMMA InfersStep ==
  ASSUME OpenCodeInv, Infers PROVE OpenCodeInv'
<1>0. OpenCodeType /\ AllRead /\ Steers /\ Rerun /\ Settles
  BY DEF OpenCodeInv
<1> DEFINE e == Event("assistant", server.assistants + 1, Newest)
           read == UNION {server.holds[u] : u \in Stored}
<1>1. Newest \in Stored
  BY <1>0, NewestStored
<1>2. /\ DOMAIN server' = ServerField /\ server'.users = server.users /\ server'.holds = server.holds
      /\ server'.deleted = server.deleted /\ server'.steer = server.steer
      /\ server'.worked = server.worked \cup read
  <2>1. DOMAIN server = ServerField
    BY <1>0 DEF OpenCodeType
  <2> HIDE DEF read
  <2>2. server' = [server EXCEPT !.loop = "inferring", !.assistants = @ + 1, !.answering = Newest,
                                 !.worked = @ \cup read]
    BY DEF Infers, read
  <2> QED BY <2>1, <2>2 DEF ServerField
<1>3. UNCHANGED <<oc, gate>> /\ Publishes(<<e>>)
  BY DEF Infers
<1>4. (\E S : feed' \in Seq(S)) /\ \A u : Announced(u)' => Announced(u) \/ u = Newest
  <2>1. e.detail = Newest
    BY EventTyped
  <2> HIDE DEF e
  <2> DEFINE es == <<e>>
  <2>2. es \in Seq({e}) /\ Len(es) = 1 /\ es[1] = e /\ Publishes(es)
    BY <1>3
  <2> HIDE DEF es
  <2>3. \A i \in 1..Len(es) : es[i].detail = Newest
    BY <2>1, <2>2
  <2> QED BY <1>0, <2>2, <2>3, Published
<1>5. \A n \in Stored : server.holds[n] \subseteq read
  OBVIOUS
<1> HIDE DEF read, e
<1>6. OpenCodeType'
  BY <1>0, <1>2, <1>3, <1>4 DEF OpenCodeType
<1>7. AllRead'
  BY <1>0, <1>1, <1>2, <1>3, <1>4, <1>5 DEF AllRead, Stored
<1>8. Steers'
  BY <1>0, <1>2, <1>3 DEF Steers
<1>9. Rerun'
  BY <1>0, <1>2, <1>3, <1>5 DEF Rerun
<1>10. Settles'
  BY <1>0, <1>2, <1>3 DEF Settles
<1> QED BY <1>6, <1>7, <1>8, <1>9, <1>10 DEF OpenCodeInv

LEMMA ServerStep ==
  ASSUME OpenCodeInv, Server PROVE OpenCodeInv'
<1>0. OpenCodeType /\ DOMAIN server = ServerField /\ DOMAIN oc = OcField
  BY DEF OpenCodeInv, OpenCodeType
<1>1. CASE Delegates
  <2>1. ServerMoves(server') /\ server'.loop = server.loop
    BY <1>0, <1>1 DEF Delegates, ServerMoves, ServerField
  <2>2. (\E S : feed' \in Seq(S)) /\ \A u : Announced(u)' => Announced(u)
    BY <1>0, <1>1, EventTyped, PublishedOne DEF Delegates
  <2> QED BY <1>1, <2>1, <2>2, ServerQuiet DEF Delegates
<1>2. CASE Returns
  <2>1. ServerMoves(server') /\ server'.loop = server.loop
    BY <1>0, <1>2 DEF Returns, ServerMoves, ServerField
  <2>2. (\E S : feed' \in Seq(S)) /\ \A u : Announced(u)' => Announced(u)
    BY <1>0, <1>2, EventTyped, PublishedTwo DEF Returns
  <2> QED BY <1>2, <2>1, <2>2, ServerQuiet DEF Returns
<1>3. ASSUME NEW m, Writes(m) PROVE OpenCodeInv'
  <2>1. ServerMoves(server') /\ server'.loop = server.loop
    <3> DEFINE w == server.wrote \cup {m}
               r == server.repeated \/ m \in server.wrote
    <3>1. server' = [server EXCEPT !.wrote = w, !.repeated = r]
      BY <1>3 DEF Writes
    <3> HIDE DEF w, r
    <3> QED BY <1>0, <3>1 DEF ServerMoves, ServerField
  <2>2. (\E S : feed' \in Seq(S)) /\ \A u : Announced(u)' => Announced(u)
    BY <1>0, <1>3, EventTyped, PublishedOne DEF Writes
  <2> QED BY <1>3, <2>1, <2>2, ServerQuiet DEF Writes
<1>4. ASSUME NEW ending, StepEnds(ending) PROVE OpenCodeInv'
  <2>1. ServerMoves(server')
    <3> DEFINE l == IF ending = "tool-calls" \/ Newest > server.answering THEN "reading" ELSE "leaving"
               t == IF ending = "tool-calls" THEN server.tooled \cup {server.assistants} ELSE server.tooled
    <3>1. server' = [server EXCEPT !.loop = l, !.tooled = t]
      BY <1>4 DEF StepEnds
    <3> HIDE DEF l, t
    <3> QED BY <1>0, <3>1 DEF ServerMoves, ServerField
  <2>2. (\E S : feed' \in Seq(S)) /\ \A u : Announced(u)' => Announced(u)
    BY <1>0, <1>4, EventTyped, PublishedTwo DEF StepEnds
  <2>3. UNCHANGED <<oc, gate>> /\ server.loop # "reading"
    BY <1>4 DEF StepEnds
  <2> QED BY <2>1, <2>2, <2>3, ServerQuiet
<1>5. CASE Leaves
  <2>1. ServerMoves(server')
    BY <1>0, <1>5 DEF Leaves, ServerMoves, ServerField
  <2>2. (\E S : feed' \in Seq(S)) /\ \A u : Announced(u)' => Announced(u)
    BY <1>0, <1>5, EventTyped, PublishedOne DEF Leaves
  <2> QED BY <1>5, <2>1, <2>2, ServerQuiet DEF Leaves
<1>6. ASSUME NEW outcome, Replies(outcome) PROVE OpenCodeInv'
  <2>1. /\ DOMAIN server' = ServerField /\ server'.users = server.users /\ server'.holds = server.holds
        /\ server'.deleted = server.deleted /\ server'.worked = server.worked /\ server'.steer = server.steer
    BY <1>0, <1>6 DEF Replies, ServerField
  <2>2. UNCHANGED <<feed, oc, gate>> /\ server.loop # "reading"
    BY <1>6 DEF Replies
  <2>3. (\E S : feed' \in Seq(S)) /\ \A u : Announced(u)' => Announced(u)
    BY <1>0, <2>2 DEF OpenCodeType, Announced
  <2>4. oc.status \in Terminal \cup Active /\ oc.pc \in Place /\ gate \in {"free", "steer", "turn"}
    BY <1>0 DEF OpenCodeType
  <2> QED BY <1>0, <2>1, <2>2, <2>3, <2>4, QuietStep
<1>7. CASE Crashes
  <2>1. /\ DOMAIN server' = ServerField /\ server'.users = server.users /\ server'.holds = server.holds
        /\ server'.deleted = server.deleted /\ server'.worked = server.worked /\ server'.steer = server.steer
        /\ server'.loop = server.loop /\ server'.reply = server.reply
    BY <1>0, <1>7 DEF Crashes, ServerField
  <2>2. /\ DOMAIN oc' = OcField /\ oc'.pc = oc.pc /\ oc'.answered = oc.answered
        /\ oc'.admitted = oc.admitted /\ oc'.settling = oc.settling /\ oc'.steered = oc.steered
        /\ oc'.orphans = oc.orphans /\ oc'.status \in {oc.status, "failed"}
    BY <1>0, <1>7 DEF Crashes, OcField, fail
  <2>3. UNCHANGED <<feed, gate>>
    BY <1>7 DEF Crashes
  <2>4. (\E S : feed' \in Seq(S)) /\ \A u : Announced(u)' => Announced(u)
    BY <1>0, <2>3 DEF OpenCodeType, Announced
  <2>5. /\ oc.status \in Terminal \cup Active /\ oc.pc \in Place /\ gate \in {"free", "steer", "turn"}
        /\ oc'.status \in Terminal \cup Active /\ (oc'.status = "completed" => oc.status = "completed")
    BY <1>0, <2>2 DEF OpenCodeType, Terminal
  <2> QED BY <2>1, <2>2, <2>3, <2>4, <2>5, QuietStep
<1> QED BY <1>1, <1>2, <1>3, <1>4, <1>5, <1>6, <1>7, InfersStep DEF Server

LEMMA FeedStep ==
  ASSUME OpenCodeInv, consumeFeed PROVE OpenCodeInv'
<1>0. OpenCodeType /\ AllRead /\ Steers /\ Rerun /\ Settles
  BY DEF OpenCodeInv
<1> DEFINE e == Head(feed)
<1>1. /\ (\E S : feed' \in Seq(S)) /\ \A u : Announced(u)' => Announced(u)
      /\ e.type = "assistant" => Announced(e.detail)
  BY <1>0, Heard DEF consumeFeed
<1>2. UNCHANGED <<server, gate>> /\ oc' = accepts(oc, e)
  BY DEF consumeFeed
<1> HIDE DEF e
<1>3. Reads(oc, oc') /\ \A u \in oc'.answered : u \in oc.answered \/ (e.type = "assistant" /\ u = e.detail)
  BY <1>0, <1>2, ReadsEvent DEF OpenCodeType
<1>4. OpenCodeType'
  BY <1>0, <1>1, <1>2, <1>3 DEF OpenCodeType, Reads
<1>5. AllRead'
  BY <1>0, <1>1, <1>2, <1>3 DEF AllRead
<1>6. Steers' /\ Settles'
  BY <1>0, <1>2, <1>3 DEF Steers, Settles, Reads
<1>7. Rerun'
  BY <1>0, <1>2, <1>3 DEF Rerun, Reads, Stored
<1> QED BY <1>4, <1>5, <1>6, <1>7 DEF OpenCodeInv

\* The quiet steps of the turn.
LEMMA TurnMoves ==
  ASSUME OpenCodeInv, UNCHANGED server,
         DOMAIN oc' = OcField, gate' \in {"free", "steer", "turn"}, oc'.pc \in Place,
         oc'.status \in Terminal \cup Active,
         oc'.answered = oc.answered, oc'.admitted = oc.admitted, oc'.settling = oc.settling,
         oc'.steered = oc.steered, oc'.orphans = oc.orphans,
         \E S : feed' \in Seq(S), \A u : Announced(u)' => Announced(u),
         gate' = "steer" => gate = "steer",
         oc'.pc = "prompting" => oc.pc = "prompting",
         oc'.pc \in {"settleBarrier", "orphans"} =>
           gate' = "turn" \/ (gate' = gate /\ oc.pc \in {"settleBarrier", "orphans"}),
         oc'.pc \in {"last", "lastBarrier"} => oc.pc \in {"last", "lastBarrier"},
         oc.pc \in {"last", "lastBarrier", "done"} => oc'.pc \in {"last", "lastBarrier", "done"},
         oc'.status = "completed" => oc.status = "completed" \/ oc.pc = "lastBarrier"
  PROVE  OpenCodeInv'
<1>1. DOMAIN server = ServerField
  BY DEF OpenCodeInv, OpenCodeType
<1> QED BY <1>1, QuietStep

LEMMA BarrierMoves ==
  ASSUME OpenCodeInv, NEW pc \in Place, barrier(pc)
  PROVE  /\ DOMAIN oc' = OcField /\ oc'.pc = pc /\ oc'.status = oc.status
         /\ oc'.answered = oc.answered /\ oc'.admitted = oc.admitted /\ oc'.settling = oc.settling
         /\ oc'.steered = oc.steered /\ oc'.orphans = oc.orphans
         /\ (\E S : feed' \in Seq(S)) /\ \A u : Announced(u)' => Announced(u)
<1>0. OpenCodeType /\ DOMAIN oc = OcField
  BY DEF OpenCodeInv, OpenCodeType
<1>1. oc' = [oc EXCEPT !.pc = pc, !.echoed = FALSE, !.token = @ + 1]
  BY DEF barrier
<1>2. (\E S : feed' \in Seq(S)) /\ \A u : Announced(u)' => Announced(u)
  BY <1>0, EventTyped, PublishedOne DEF barrier
<1> QED BY <1>0, <1>1, <1>2 DEF OcField

LEMMA QuietTurnStep ==
  ASSUME OpenCodeInv, untilIdle \/ timesOut \/ settle \/ settleCaught \/ last \/ turnEnds
  PROVE  OpenCodeInv'
<1>0. /\ OpenCodeType /\ DOMAIN oc = OcField /\ oc.status \in Terminal \cup Active
      /\ oc.pc \in Place /\ gate \in {"free", "steer", "turn"}
  BY DEF OpenCodeInv, OpenCodeType
<1>q. ASSUME UNCHANGED feed PROVE (\E S : feed' \in Seq(S)) /\ \A u : Announced(u)' => Announced(u)
  BY <1>0, <1>q DEF OpenCodeType, Announced
<1>1. CASE untilIdle
  <2>1. /\ DOMAIN oc' = OcField /\ oc'.pc = "settle" /\ oc'.status = oc.status
        /\ oc'.answered = oc.answered /\ oc'.admitted = oc.admitted /\ oc'.settling = oc.settling
        /\ oc'.steered = oc.steered /\ oc'.orphans = oc.orphans
    BY <1>0, <1>1 DEF untilIdle, OcField
  <2>2. oc.pc = "idling" /\ UNCHANGED <<server, feed, gate>>
    BY <1>1 DEF untilIdle, AtTurn
  <2>3. oc'.pc \in Place
    BY <2>1 DEF Place
  <2> QED BY <1>0, <1>q, <2>1, <2>2, <2>3, TurnMoves
<1>2. CASE timesOut
  <2>1. /\ DOMAIN oc' = OcField /\ oc'.pc = oc.pc /\ oc'.status = oc.status
        /\ oc'.answered = oc.answered /\ oc'.admitted = oc.admitted /\ oc'.settling = oc.settling
        /\ oc'.steered = oc.steered /\ oc'.orphans = oc.orphans
    BY <1>0, <1>2 DEF timesOut, OcField
  <2>2. UNCHANGED <<server, feed, gate>>
    BY <1>2 DEF timesOut
  <2> QED BY <1>0, <1>q, <2>1, <2>2, TurnMoves
<1>3. CASE settle /\ oc.steered = {}
  <2>1. /\ DOMAIN oc' = OcField /\ oc'.pc = "orphans" /\ oc'.status = oc.status
        /\ oc'.answered = oc.answered /\ oc'.admitted = oc.admitted /\ oc'.settling = oc.settling
        /\ oc'.steered = oc.steered /\ oc'.orphans = oc.orphans
    BY <1>0, <1>3 DEF settle, OcField
  <2>2. oc.pc = "settle" /\ UNCHANGED <<server, feed>> /\ gate' = "turn"
    BY <1>3 DEF settle, AtTurn
  <2>3. oc'.pc \in Place
    BY <2>1 DEF Place
  <2> QED BY <1>0, <1>q, <2>1, <2>2, <2>3, TurnMoves
<1>4. CASE settle /\ oc.steered # {}
  <2>1. oc.pc = "settle" /\ UNCHANGED server /\ gate' = "turn" /\ barrier("settleBarrier")
    BY <1>4 DEF settle, AtTurn
  <2>2. "settleBarrier" \in Place
    BY DEF Place
  <2> QED BY <1>0, <2>1, <2>2, BarrierMoves, TurnMoves
<1>5. CASE settleCaught
  <2>1. /\ DOMAIN oc' = OcField /\ oc'.pc = "orphans" /\ oc'.status = oc.status
        /\ oc'.answered = oc.answered /\ oc'.admitted = oc.admitted /\ oc'.settling = oc.settling
        /\ oc'.steered = oc.steered /\ oc'.orphans = oc.orphans
    BY <1>0, <1>5 DEF settleCaught, OcField
  <2>2. oc.pc = "settleBarrier" /\ UNCHANGED <<server, feed, gate>>
    BY <1>5 DEF settleCaught, Caught, AtTurn
  <2>3. oc'.pc \in Place
    BY <2>1 DEF Place
  <2> QED BY <1>0, <1>q, <2>1, <2>2, <2>3, TurnMoves
<1>6. CASE last
  <2>1. oc.pc = "last" /\ UNCHANGED <<server, gate>> /\ barrier("lastBarrier")
    BY <1>6 DEF last, AtTurn
  <2>2. "lastBarrier" \in Place
    BY DEF Place
  <2> QED BY <1>0, <2>1, <2>2, BarrierMoves, TurnMoves
<1>7. CASE turnEnds
  <2> DEFINE s == Said(oc)
             t == setStatus(s, "completed")
  <2>1. ReadsOn(oc, s)
    BY <1>0, ReadsSaid
  <2>2. oc.pc = "lastBarrier" /\ oc' = [t EXCEPT !.pc = "done"] /\ UNCHANGED <<server, feed, gate>>
    BY <1>7 DEF turnEnds, Caught, AtTurn
  <2> HIDE DEF s
  <2>3. /\ DOMAIN t = OcField /\ t.answered = s.answered /\ t.admitted = s.admitted
        /\ t.settling = s.settling /\ t.steered = s.steered /\ t.orphans = s.orphans
        /\ t.status \in Terminal \cup Active
    <3>1. DOMAIN s = OcField /\ s.status \in Terminal \cup Active
      BY <1>0, <2>1 DEF ReadsOn, Reads
    <3> QED BY <3>1 DEF setStatus, OcField, Terminal
  <2> HIDE DEF t
  <2>4. /\ DOMAIN oc' = OcField /\ oc'.pc = "done" /\ oc'.status = t.status
        /\ oc'.answered = t.answered /\ oc'.admitted = t.admitted /\ oc'.settling = t.settling
        /\ oc'.steered = t.steered /\ oc'.orphans = t.orphans
    BY <2>2, <2>3 DEF OcField
  <2>5. oc'.pc \in Place
    BY <2>4 DEF Place
  <2>6. /\ oc'.answered = oc.answered /\ oc'.admitted = oc.admitted /\ oc'.settling = oc.settling
        /\ oc'.steered = oc.steered /\ oc'.orphans = oc.orphans /\ oc'.status \in Terminal \cup Active
    BY <2>1, <2>3, <2>4 DEF ReadsOn, Reads
  <2> QED BY <1>0, <1>q, <2>2, <2>4, <2>5, <2>6, TurnMoves
<1> QED BY <1>1, <1>2, <1>3, <1>4, <1>5, <1>6, <1>7

LEMMA FeedStays ==
  ASSUME OpenCodeType, UNCHANGED feed
  PROVE  (\E S : feed' \in Seq(S)) /\ \A u : Announced(u)' <=> Announced(u)
BY DEF OpenCodeType, Announced

LEMMA PromptedStep ==
  ASSUME OpenCodeInv, prompted PROVE OpenCodeInv'
<1>0. OpenCodeType /\ AllRead /\ Steers /\ Rerun /\ Settles
  BY DEF OpenCodeInv
<1>1. /\ DOMAIN oc = OcField /\ DOMAIN server = ServerField /\ oc.pc = "prompting"
      /\ server.reply # "awaited" /\ UNCHANGED <<feed, gate>>
  BY <1>0 DEF OpenCodeType, prompted, AtTurn
<1>2. /\ DOMAIN server' = ServerField /\ server'.users = server.users /\ server'.holds = server.holds
      /\ server'.deleted = server.deleted /\ server'.worked = server.worked
      /\ server'.steer = server.steer
  BY <1>1 DEF prompted, ServerField
<1>3. CASE server.reply = "error"
  <2> DEFINE f == fail(oc)
  <2>1. /\ DOMAIN f = OcField /\ f.answered = oc.answered /\ f.admitted = oc.admitted
        /\ f.settling = oc.settling /\ f.steered = oc.steered /\ f.orphans = oc.orphans
        /\ f.status \in {oc.status, "failed"}
    BY <1>1 DEF fail, OcField
  <2>2. oc' = [f EXCEPT !.pc = "done"]
    BY <1>3 DEF prompted
  <2> HIDE DEF f
  <2>3. /\ DOMAIN oc' = OcField /\ oc'.pc = "done" /\ oc'.answered = oc.answered
        /\ oc'.admitted = oc.admitted /\ oc'.settling = oc.settling /\ oc'.steered = oc.steered
        /\ oc'.orphans = oc.orphans /\ oc'.status \in {oc.status, "failed"}
    BY <2>1, <2>2 DEF OcField
  <2>4. OpenCodeType'
    BY <1>0, <1>1, <1>2, <2>3, FeedStays DEF OpenCodeType, Place, Terminal
  <2>5. AllRead' /\ Steers' /\ Rerun'
    BY <1>0, <1>1, <1>2, <2>3, FeedStays DEF AllRead, Steers, Rerun
  <2>6. Settles'
    BY <1>0, <1>1, <1>2, <2>3 DEF Settles
  <2> QED BY <2>4, <2>5, <2>6 DEF OpenCodeInv
<1>4. CASE server.reply # "error"
  <2>1. oc' = [oc EXCEPT !.pc = "idling", !.steered = @ \ oc.orphans, !.orphans = {}, !.answer = server.last]
    BY <1>4 DEF prompted
  <2>2. /\ DOMAIN oc' = OcField /\ oc'.pc = "idling" /\ oc'.answered = oc.answered
        /\ oc'.admitted = oc.admitted /\ oc'.settling = oc.settling
        /\ oc'.steered = oc.steered \ oc.orphans /\ oc'.orphans = {} /\ oc'.status = oc.status
    BY <1>1, <2>1 DEF OcField
  <2>3. oc.orphans \subseteq server.worked
    BY <1>0, <1>1 DEF Rerun
  <2>4. OpenCodeType'
    BY <1>0, <1>1, <1>2, <2>2, FeedStays DEF OpenCodeType, Place
  <2>5. AllRead' /\ Rerun'
    BY <1>0, <1>1, <1>2, <2>2, FeedStays DEF AllRead, Rerun
  <2>6. Steers'
    BY <1>0, <1>1, <1>2, <2>2, <2>3 DEF Steers
  <2>7. Settles'
    BY <1>0, <1>1, <1>2, <2>2 DEF Settles
  <2> QED BY <2>4, <2>5, <2>6, <2>7 DEF OpenCodeInv
<1> QED BY <1>3, <1>4

LEMMA OrphansStep ==
  ASSUME OpenCodeInv, orphans PROVE OpenCodeInv'
<1>0. OpenCodeType /\ AllRead /\ Steers /\ Rerun /\ Settles
  BY DEF OpenCodeInv
<1> DEFINE rest == oc.steered \ oc.answered
           none == oc.steered \subseteq oc.answered
           to == IF none THEN "last" ELSE "rerun"
<1>1. /\ DOMAIN oc = OcField /\ oc.pc = "orphans" /\ UNCHANGED <<server, feed>> /\ gate' = "free"
      /\ oc' = [oc EXCEPT !.steered = rest, !.orphans = rest, !.settling = none, !.pc = to]
  BY <1>0 DEF OpenCodeType, orphans, AtTurn
<1>2. /\ DOMAIN oc' = OcField /\ oc'.pc = to /\ oc'.answered = oc.answered
      /\ oc'.admitted = oc.admitted /\ oc'.steered = rest /\ oc'.orphans = rest
      /\ oc'.status = oc.status
  <2> HIDE DEF rest, none, to
  <2> QED BY <1>1 DEF OcField
<1>3. oc'.settling <=> none
  <2> HIDE DEF rest, to
  <2>1. CASE none
    BY <1>1, <2>1 DEF OcField
  <2>2. CASE ~none
    BY <1>1, <2>2 DEF OcField
  <2> QED BY <2>1, <2>2
<1>4. oc.admitted \subseteq server.worked \cup rest
  BY <1>0 DEF Steers, AllRead
<1>5. OpenCodeType'
  BY <1>0, <1>1, <1>2, FeedStays DEF OpenCodeType, Place
<1>6. AllRead' /\ Rerun'
  BY <1>0, <1>1, <1>2, FeedStays DEF AllRead, Rerun
<1>7. Steers'
  BY <1>0, <1>1, <1>2, <1>4 DEF Steers
<1>8. Settles'
  <2>1. oc.status # "completed"
    BY <1>0, <1>1 DEF Settles
  <2> QED BY <1>1, <1>2, <1>3, <1>4, <2>1 DEF Settles
<1> QED BY <1>5, <1>6, <1>7, <1>8 DEF OpenCodeInv

LEMMA OneMessage ==
  ASSUME NEW h \in [1..MaxUser -> SUBSET (1..MaxUser)], NEW n \in 1..MaxUser,
         NEW a \in SUBSET (1..MaxUser), NEW k, k = [h EXCEPT ![n] = a]
  PROVE  /\ k \in [1..MaxUser -> SUBSET (1..MaxUser)] /\ k[n] = a
         /\ \A u \in 1..MaxUser : u # n => k[u] = h[u]
OBVIOUS

LEMMA RerunStep ==
  ASSUME OpenCodeInv, rerun PROVE OpenCodeInv'
<1>0. OpenCodeType /\ AllRead /\ Steers /\ Rerun /\ Settles
  BY DEF OpenCodeInv
<1> DEFINE n == server.users + 1
           whole == UNION {server.holds[u] : u \in oc.orphans}
<1>1. /\ DOMAIN oc = OcField /\ DOMAIN server = ServerField /\ oc.pc = "rerun"
      /\ server.users \in 1..MaxUser /\ server.users < MaxUser /\ UNCHANGED <<feed, gate>>
      /\ server.holds \in [1..MaxUser -> SUBSET (1..MaxUser)]
      /\ server' = [server EXCEPT !.deleted = @ \cup oc.orphans, !.users = n, !.loop = "reading",
                                  !.reply = "awaited", !.holds[n] = whole]
  BY <1>0 DEF OpenCodeType, rerun, AtTurn
<1>2. oc.orphans \subseteq 2..server.users /\ oc.orphans \subseteq whole
  BY <1>0 DEF Steers
<1>3. n \in 2..MaxUser /\ whole \in SUBSET (1..MaxUser)
  <2>1. MaxUser \in Nat /\ server.users \in Nat
    BY <1>1, OpenCodeAssumption
  <2>2. n \in 2..MaxUser
    BY <1>1, <2>1
  <2>3. \A u \in oc.orphans : u \in 1..MaxUser
    BY <1>1, <1>2, <2>1
  <2> QED BY <1>1, <2>2, <2>3
<1>4. /\ DOMAIN oc' = OcField /\ oc'.pc = "prompting" /\ oc'.answered = oc.answered
      /\ oc'.admitted = oc.admitted /\ oc'.settling = oc.settling /\ oc'.steered = oc.steered
      /\ oc'.orphans = oc.orphans /\ oc'.status = oc.status
  BY <1>1 DEF rerun, OcField
<1> HIDE DEF whole
<1>5. /\ DOMAIN server' = ServerField /\ server'.users = n /\ server'.loop = "reading"
      /\ server'.reply = "awaited" /\ server'.deleted = server.deleted \cup oc.orphans
      /\ server'.worked = server.worked /\ server'.steer = server.steer
      /\ server'.holds = [server.holds EXCEPT ![n] = whole]
  <2> HIDE DEF n
  <2> QED BY <1>1 DEF ServerField
<1>6. /\ server'.holds[n] = whole /\ \A u \in 1..server.users : server'.holds[u] = server.holds[u]
      /\ server'.holds \in [1..MaxUser -> SUBSET (1..MaxUser)]
  <2>1. n \in 1..MaxUser /\ \A u \in 1..server.users : u # n /\ u \in 1..MaxUser
    BY <1>1, <1>3, OpenCodeAssumption
  <2> HIDE DEF n
  <2>2. server'.holds = [server.holds EXCEPT ![n] = whole] /\ whole \in SUBSET (1..MaxUser)
    BY <1>3, <1>5
  <2>3. server.holds \in [1..MaxUser -> SUBSET (1..MaxUser)]
    BY <1>1
  <2>4. /\ server'.holds \in [1..MaxUser -> SUBSET (1..MaxUser)] /\ server'.holds[n] = whole
        /\ \A u \in 1..MaxUser : u # n => server'.holds[u] = server.holds[u]
    BY ONLY <2>1, <2>2, <2>3
  <2> QED BY ONLY <2>1, <2>4
<1>7. OpenCodeType'
  BY <1>0, <1>1, <1>2, <1>3, <1>4, <1>5, <1>6, FeedStays DEF OpenCodeType, Place
<1>8. AllRead'
  <2>1. \A u \in 1..server.users : u \in 1..n
    BY <1>1
  <2> HIDE DEF n
  <2> QED BY <1>0, <1>1, <1>4, <1>5, <1>6, <2>1, FeedStays DEF AllRead
<1>9. Steers'
  <2>1. \A u \in 2..server.users : u \in 2..n /\ u \in 1..server.users
    BY <1>1
  <2> HIDE DEF n
  <2> QED BY <1>0, <1>1, <1>4, <1>5, <1>6, <2>1 DEF Steers
<1>10. Rerun'
  <2>1. n \in Stored'
    BY <1>0, <1>1, <1>2, <1>5 DEF Stored, OpenCodeType
  <2> HIDE DEF n
  <2> QED BY <1>2, <1>4, <1>5, <1>6, <2>1 DEF Rerun
<1>11. Settles'
  BY <1>0, <1>1, <1>4, <1>5 DEF Settles
<1> QED BY <1>7, <1>8, <1>9, <1>10, <1>11 DEF OpenCodeInv

LEMMA StoresStep ==
  ASSUME OpenCodeInv, steerStores PROVE OpenCodeInv'
<1>0. OpenCodeType /\ AllRead /\ Steers /\ Rerun /\ Settles
  BY DEF OpenCodeInv
<1> DEFINE n == server.users + 1
<1>1. /\ DOMAIN server = ServerField /\ UNCHANGED <<feed, oc>> /\ gate = "free" /\ gate' = "steer"
      /\ server.users \in 1..MaxUser /\ server.users < MaxUser - 1 /\ ~oc.settling
      /\ server.holds \in [1..MaxUser -> SUBSET (1..MaxUser)]
      /\ server' = [server EXCEPT !.users = n, !.holds[n] = {n}, !.steer = n]
  BY <1>0 DEF OpenCodeType, steerStores
<1>2. n \in 2..MaxUser /\ {n} \in SUBSET (1..MaxUser)
  BY <1>1, OpenCodeAssumption
<1>3. /\ DOMAIN server' = ServerField /\ server'.users = n /\ server'.loop = server.loop
      /\ server'.reply = server.reply /\ server'.deleted = server.deleted
      /\ server'.worked = server.worked /\ server'.steer = n
      /\ server'.holds = [server.holds EXCEPT ![n] = {n}]
  <2> HIDE DEF n
  <2> QED BY <1>1 DEF ServerField
<1>4. /\ server'.holds[n] = {n} /\ \A u \in 1..server.users : server'.holds[u] = server.holds[u]
      /\ server'.holds \in [1..MaxUser -> SUBSET (1..MaxUser)]
  <2>1. n \in 1..MaxUser /\ \A u \in 1..server.users : u # n /\ u \in 1..MaxUser
    BY <1>1, <1>2, OpenCodeAssumption
  <2> HIDE DEF n
  <2>2. server'.holds = [server.holds EXCEPT ![n] = {n}] /\ {n} \in SUBSET (1..MaxUser)
    BY <1>2, <1>3
  <2>3. server.holds \in [1..MaxUser -> SUBSET (1..MaxUser)]
    BY <1>1
  <2> DEFINE h == server.holds
             k == server'.holds
  <2>4. /\ h \in [1..MaxUser -> SUBSET (1..MaxUser)] /\ n \in 1..MaxUser
        /\ {n} \in SUBSET (1..MaxUser) /\ k = [h EXCEPT ![n] = {n}]
    BY <2>1, <2>2, <2>3
  <2> HIDE DEF h, k
  <2>5. /\ k \in [1..MaxUser -> SUBSET (1..MaxUser)] /\ k[n] = {n}
        /\ \A u \in 1..MaxUser : u # n => k[u] = h[u]
    BY ONLY <2>4, OneMessage
  <2>6. \A u \in 1..server.users : k[u] = h[u]
    BY ONLY <2>1, <2>5
  <2> QED BY ONLY <2>5, <2>6 DEF h, k
<1>5. \A u \in 1..server.users : u \in 1..n /\ (u \in 2..server.users => u \in 2..n)
  BY <1>1
<1>6. OpenCodeType'
  <2>1. server'.deleted \subseteq 2..n
    BY <1>0, <1>1, <1>3 DEF OpenCodeType
  <2>2. n \in 1..MaxUser
    BY <1>2
  <2> HIDE DEF n
  <2> QED BY <1>0, <1>1, <1>3, <1>4, <2>1, <2>2, FeedStays DEF OpenCodeType
<1>7. \A u \in 2..server.users : u \in 1..server.users
  BY <1>1
<1>8. Stored \subseteq Stored' /\ \A u \in Stored : server'.holds[u] = server.holds[u]
  <2> HIDE DEF n
  <2> QED BY <1>3, <1>4, <1>5 DEF Stored
<1>9. n \in 2..n
  BY <1>1
<1> HIDE DEF n
<1>10. AllRead'
  BY <1>0, <1>1, <1>3, <1>4, <1>5, FeedStays DEF AllRead
<1>11. Steers'
  BY <1>0, <1>1, <1>3, <1>4, <1>5, <1>7, <1>9 DEF Steers
<1>12. Rerun'
  BY <1>0, <1>1, <1>3, <1>8 DEF Rerun
<1>13. Settles'
  BY <1>0, <1>1 DEF Settles
<1> QED BY <1>6, <1>10, <1>11, <1>12, <1>13 DEF OpenCodeInv

LEMMA AdmittedStep ==
  ASSUME OpenCodeInv, NEW lost \in BOOLEAN, steerAdmitted(lost) PROVE OpenCodeInv'
<1>0. OpenCodeType /\ AllRead /\ Steers /\ Rerun /\ Settles
  BY DEF OpenCodeInv
<1>1. UNCHANGED <<server, feed>> /\ gate = "steer" /\ gate' = "free" /\ DOMAIN oc = OcField
  BY <1>0 DEF steerAdmitted, OpenCodeType
<1>2. CASE oc' = oc
  <2>1. OpenCodeType' /\ AllRead' /\ Rerun'
    BY <1>0, <1>1, <1>2, FeedStays DEF OpenCodeType, AllRead, Rerun, Stored
  <2>2. Steers' /\ Settles'
    BY <1>0, <1>1, <1>2 DEF Steers, Settles
  <2> QED BY <2>1, <2>2 DEF OpenCodeInv
<1>3. CASE oc' = [oc EXCEPT !.steered = @ \cup {server.steer}, !.admitted = @ \cup {server.steer}]
  <2>1. /\ DOMAIN oc' = OcField /\ oc'.pc = oc.pc /\ oc'.answered = oc.answered
        /\ oc'.admitted = oc.admitted \cup {server.steer} /\ oc'.settling = oc.settling
        /\ oc'.steered = oc.steered \cup {server.steer}
        /\ oc'.orphans = oc.orphans /\ oc'.status = oc.status
    BY <1>1, <1>3 DEF OcField
  <2>2. OpenCodeType' /\ AllRead' /\ Rerun'
    BY <1>0, <1>1, <2>1, FeedStays DEF OpenCodeType, AllRead, Rerun, Stored
  <2>3. Steers'
    BY <1>0, <1>1, <2>1 DEF Steers
  <2>4. Settles'
    BY <1>0, <1>1, <2>1 DEF Settles
  <2> QED BY <2>2, <2>3, <2>4 DEF OpenCodeInv
<1> QED BY <1>2, <1>3 DEF steerAdmitted

LEMMA StopStep ==
  ASSUME OpenCodeInv, stopOpenCode PROVE OpenCodeInv'
<1>0. OpenCodeType /\ AllRead /\ Steers /\ Rerun /\ Settles
  BY DEF OpenCodeInv
<1>1. /\ DOMAIN oc' = OcField /\ oc'.pc = oc.pc /\ oc'.answered = oc.answered
      /\ oc'.admitted = oc.admitted /\ oc'.settling = oc.settling /\ oc'.steered = oc.steered
      /\ oc'.orphans = oc.orphans /\ oc'.status \in Terminal \cup Active
      /\ oc'.status = "completed" => oc.status = "completed"
  BY <1>0 DEF OpenCodeType, stopOpenCode, close, OcField, Terminal
<1>2. /\ DOMAIN server' = ServerField /\ server'.users = server.users /\ server'.holds = server.holds
      /\ server'.deleted = server.deleted /\ server'.worked = server.worked
      /\ server'.steer = server.steer /\ server'.loop = server.loop /\ server'.reply = server.reply
  BY <1>0 DEF OpenCodeType, stopOpenCode, ServerField
<1>3. feed' \in Seq({}) /\ Len(feed') = 0 /\ gate' = gate
  BY DEF stopOpenCode
<1>4. \A u : ~Announced(u)'
  BY <1>3 DEF Announced
<1>5. gate \in {"free", "steer", "turn"} /\ oc.pc \in Place
  BY <1>0 DEF OpenCodeType
<1> QED BY <1>1, <1>2, <1>3, <1>4, <1>5, QuietStep

LEMMA OpenCodeStep == OpenCodeInv /\ [OpenCodeNext]_openCodeVars => OpenCodeInv'
<1> SUFFICES ASSUME OpenCodeInv, [OpenCodeNext]_openCodeVars PROVE OpenCodeInv'
  OBVIOUS
<1>1. CASE UNCHANGED openCodeVars
  BY <1>1 DEF openCodeVars, OpenCodeInv, OpenCodeType, AllRead, Announced, Steers, Rerun, Stored, Settles
<1> QED BY <1>1, ServerStep, FeedStep, PromptedStep, QuietTurnStep, OrphansStep, RerunStep, StoresStep,
           AdmittedStep, StopStep DEF OpenCodeNext

LEMMA OpenCodeStart == OpenCodeInit => OpenCodeInv
<1> SUFFICES ASSUME OpenCodeInit PROVE OpenCodeInv
  OBVIOUS
<1>1. /\ DOMAIN oc = OcField /\ oc.pc = "prompting" /\ oc.answered = {} /\ oc.admitted = {}
      /\ oc.settling = FALSE /\ oc.steered = {} /\ oc.orphans = {} /\ oc.status = "running"
  BY DEF OpenCodeInit, OcField
<1>2. /\ DOMAIN server = ServerField /\ server.users = 1 /\ server.deleted = {}
      /\ server.holds = [u \in 1..MaxUser |-> {u}]
  BY DEF OpenCodeInit, ServerField
<1>3. feed \in Seq({}) /\ Len(feed) = 0 /\ gate = "free"
  BY DEF OpenCodeInit
<1>4. OpenCodeType
  BY <1>1, <1>2, <1>3, OpenCodeAssumption DEF OpenCodeType, Place, Active
<1>5. AllRead /\ Steers /\ Rerun /\ Settles
  BY <1>1, <1>2, <1>3 DEF AllRead, Announced, Steers, Rerun, Settles
<1> QED BY <1>4, <1>5 DEF OpenCodeInv

LEMMA OpenCodeWorks == OpenCodeInv => SteerWorkedOn
BY DEF OpenCodeInv, Settles, SteerWorkedOn

-----------------------------------------------------------------------------
(* ModelGateway                                                             *)

Early == {"received", "next", "rejected", "first"}
GatewayType ==
  /\ DOMAIN handler = {"at", "index", "last"} /\ DOMAIN reader = {"at", "body", "frames"}
  /\ DOMAIN inference = {"parts", "ahead", "items", "finish", "framings", "cause"}
  /\ DOMAIN request = {"protocol", "stream", "decodes", "wrong", "aborted", "kind"}
  /\ request.stream \in BOOLEAN /\ request.aborted \in BOOLEAN
  /\ handler.at \in Early \cup {"encoding", "answered"}
  /\ reader.at \in {"waiting", "reading", "over", "gone"}
  /\ handler.index \in 1..(Models + 1)
  /\ handler.at \in {"received", "rejected", "first", "encoding"} => handler.index # Models + 1
  /\ upstream \in [1..Models -> {"off", "open", "closed"}]
  /\ (\E S : out \in Seq(S)) /\ (\E S : reader.frames \in Seq(S)) /\ \E S : inference.items \in Seq(S)

\* The harness waits until there is an answer, or has left before.
Waits ==
  /\ reader.at = "waiting" \/ request.aborted => reader.frames = <<>> /\ reader.body = "none"
  /\ request.aborted => reader.at = "gone"
  /\ handler.at \in Early => reader.at = "waiting" \/ request.aborted
  /\ handler.at = "encoding" =>
       reader.at = (IF request.stream THEN "reading" ELSE "waiting") \/ request.aborted
  /\ handler.at = "encoding" /\ reader.at = "reading" => reader.body = "stream"
  /\ reader.body = "stream" => request.stream
\* The one model at work is that of the candidate the handler is at, or the last one, whose
\* answer is passed on; it works for a harness that is there.
Working ==
  /\ \A c \in 1..Models : upstream[c] = "open" =>
       /\ c = handler.index \/ (c = Models /\ handler.index = Models + 1)
       /\ reader.at \in {"waiting", "reading"} /\ handler.at # "received"
       /\ handler.at = "next" => handler.index = Models + 1 /\ handler.last = "response"
  /\ (\E i \in 1..Len(out) : Ends(out[i])) =>
       handler.at = "answered" /\ \A c \in 1..Models : upstream[c] # "open"
\* What a stream failed of is an error only behind output.
Coming(type) == \E i \in 1..Len(out) : out[i].type = type
Explained ==
  /\ reader.body = "stream" /\ (Shown("failed") \/ Coming("failed")) =>
       handler.at = "answered" /\ (inference.cause.type # "error" \/ Shown("delta"))
  /\ reader.body = "stream" /\ handler.at = "encoding" /\ inference.ahead = <<>> =>
       inference.finish # "none" \/ Shown("delta") \/ Coming("delta")
  /\ inference.ahead # <<>> =>
       /\ inference.ahead[1].type \notin {"error", "framing"}
       /\ inference.ahead[1].type = "finish" => inference.ahead[1].id # "none"
GatewayInv == GatewayType /\ Waits /\ Working /\ Explained

LEMMA GatewayContains == GatewayInv => FailuresContained
<1> SUFFICES ASSUME GatewayInv PROVE FailuresContained
  OBVIOUS
<1>1. ErrorsBeforeOutputFallBack
  BY DEF GatewayInv, Explained, ErrorsBeforeOutputFallBack
<1>2. UpstreamsReleased
  <2> DEFINE working == {c \in 1..Models : upstream[c] = "open"}
  <2>1. reader.at \in {"over", "gone"} => working = {}
    BY DEF GatewayInv, Working
  <2>2. Cardinality(working) <= 1
    <3>1. CASE working = {}
      BY <3>1, FS_EmptySet
    <3>2. CASE working # {}
      <4>1. PICK c \in working : TRUE
        BY <3>2
      <4>2. \A d \in working : d = c
        BY <4>1, GatewayAssumption DEF GatewayInv, GatewayType, Working
      <4>3. working = {c}
        BY <4>1, <4>2
      <4> QED BY <4>3, FS_Singleton
    <3> QED BY <3>1, <3>2
  <2> QED BY <2>1, <2>2 DEF UpstreamsReleased
<1> QED BY <1>1, <1>2 DEF FailuresContained

LEMMA YieldsKnown ==
  ASSUME NEW p \in Yields
  PROVE  /\ p.type = "finish" => p.id # "none"
         /\ inference.finish # "none" => p = Done
<1>1. CASE upstream[handler.index] # "open" \/ inference.finish # "none"
  BY <1>1 DEF Yields, Done, Part
<1>2. CASE ~(upstream[handler.index] # "open" \/ inference.finish # "none")
  <2>1. p.type = "finish" => p \in Finishes
    BY <1>2 DEF Yields, Done, Part, Framing, Outputs, ItemType
  <2>2. \A q \in Finishes : q.id # "none"
    BY DEF Finishes, Part
  <2> QED BY <1>2, <2>1, <2>2
<1> QED BY <1>1, <1>2

LEMMA GatewayStart == GatewayInit => GatewayInv
<1> SUFFICES ASSUME GatewayInit PROVE GatewayInv
  OBVIOUS
<1>0. Models \in Nat \ {0}
  BY GatewayAssumption
<1>1. /\ DOMAIN request = {"protocol", "stream", "decodes", "wrong", "aborted", "kind"}
      /\ request.stream \in BOOLEAN /\ request.aborted = FALSE
  BY DEF GatewayInit
<1>2. /\ DOMAIN handler = {"at", "index", "last"} /\ handler.at = "received" /\ handler.index = 1
      /\ DOMAIN reader = {"at", "body", "frames"} /\ reader.at = "waiting" /\ reader.body = "none"
      /\ reader.frames = <<>>
  BY DEF GatewayInit
<1>3. /\ DOMAIN inference = {"parts", "ahead", "items", "finish", "framings", "cause"}
      /\ inference.ahead = <<>> /\ inference.items = <<>>
  BY DEF GatewayInit
<1>4. out = <<>> /\ upstream = [c \in 1..Models |-> "off"]
  BY DEF GatewayInit
<1>5. out \in Seq({}) /\ reader.frames \in Seq({}) /\ inference.items \in Seq({})
      /\ Len(out) = 0 /\ Len(reader.frames) = 0
  BY <1>2, <1>3, <1>4
<1>6. GatewayType
  <2>1. request.aborted \in BOOLEAN
    BY <1>1
  <2> QED BY <1>0, <1>1, <2>1, <1>2, <1>3, <1>4, <1>5 DEF GatewayType, Early
<1>7. Waits /\ Working /\ Explained
  BY <1>0, <1>1, <1>2, <1>3, <1>4, <1>5 DEF Waits, Working, Explained, Early, Shown, Coming
<1> QED BY <1>6, <1>7 DEF GatewayInv

\* The frames of the harness and those under way, unless they are the step's own.
LEMMA FramesStay ==
  ASSUME GatewayType, UNCHANGED out, reader'.frames = reader.frames
  PROVE  /\ (\E S : out' \in Seq(S)) /\ \E S : reader'.frames \in Seq(S)
         /\ \A t : (Shown(t)' <=> Shown(t)) /\ (Coming(t)' <=> Coming(t))
         /\ (\E i \in 1..Len(out') : Ends(out'[i])) <=> \E i \in 1..Len(out) : Ends(out[i])
BY DEF GatewayType, Shown, Coming

HandlerField == {"at", "index", "last"}
ReaderField == {"at", "body", "frames"}
InferenceField == {"parts", "ahead", "items", "finish", "framings", "cause"}

LEMMA Fields ==
  ASSUME GatewayInv
  PROVE  /\ DOMAIN handler = HandlerField /\ DOMAIN reader = ReaderField
         /\ DOMAIN inference = InferenceField
BY DEF GatewayInv, GatewayType, HandlerField, ReaderField, InferenceField

\* What the operators of the handler and of the harness do.
LEMMA Handled ==
  ASSUME GatewayInv
  PROVE  /\ \A c : /\ DOMAIN Answered(c) = HandlerField /\ Answered(c).at = "answered"
                   /\ Answered(c).index = c /\ Answered(c).last = handler.last
         /\ \A a : handler' = [handler EXCEPT !.at = a] =>
                   /\ DOMAIN handler' = HandlerField /\ handler'.at = a
                   /\ handler'.index = handler.index /\ handler'.last = handler.last
         /\ Failed => /\ DOMAIN handler' = HandlerField /\ handler'.at = "next"
                      /\ handler'.index = handler.index + 1 /\ handler'.last = "failure"
<1>0. DOMAIN handler = HandlerField
  BY Fields
<1>1. \A c : /\ DOMAIN Answered(c) = HandlerField /\ Answered(c).at = "answered"
             /\ Answered(c).index = c /\ Answered(c).last = handler.last
  BY <1>0 DEF Answered, HandlerField
<1>2. \A a : handler' = [handler EXCEPT !.at = a] =>
             /\ DOMAIN handler' = HandlerField /\ handler'.at = a
             /\ handler'.index = handler.index /\ handler'.last = handler.last
  BY <1>0 DEF HandlerField
<1>3. Failed => /\ DOMAIN handler' = HandlerField /\ handler'.at = "next"
                /\ handler'.index = handler.index + 1 /\ handler'.last = "failure"
  BY <1>0 DEF Failed, HandlerField
<1> QED BY <1>1, <1>2, <1>3

LEMMA Told ==
  ASSUME GatewayInv
  PROVE  /\ \A body : Answer(body) =>
              /\ DOMAIN reader' = ReaderField /\ reader'.frames = reader.frames
              /\ reader.at = "waiting" => reader'.at = "reading" /\ reader'.body = body
              /\ reader.at # "waiting" => reader' = reader
         /\ Refuse => /\ DOMAIN reader' = ReaderField /\ reader'.frames = reader.frames
                      /\ reader.at = "waiting" => reader'.at = "over" /\ reader'.body = "error"
                      /\ reader.at # "waiting" => reader' = reader
BY Fields DEF Answer, Refuse, ReaderField

LEMMA Closed ==
  ASSUME GatewayInv, NEW c, Closes(c)
  PROVE  /\ upstream' \in [1..Models -> {"off", "open", "closed"}]
         /\ \A d \in 1..Models : upstream'[d] = IF d = c THEN "closed" ELSE upstream[d]
BY DEF GatewayInv, GatewayType, Closes


\* What the working model must be, whatever the step.
Attended ==
  \A c \in 1..Models : upstream[c] = "open" =>
    /\ c = handler.index \/ (c = Models /\ handler.index = Models + 1)
    /\ reader.at \in {"waiting", "reading"} /\ handler.at # "received"
    /\ handler.at = "next" => handler.index = Models + 1 /\ handler.last = "response"

\* A step before there is output.
LEMMA EarlyStep ==
  ASSUME GatewayInv, handler.at \in Early, UNCHANGED <<request, out>>,
         DOMAIN handler' = HandlerField, handler'.at \in Early \cup {"answered"},
         handler'.index \in 1..(Models + 1),
         handler'.at \in {"received", "rejected", "first"} => handler'.index # Models + 1,
         DOMAIN inference' = InferenceField,
         \/ inference'.ahead = inference.ahead /\ inference'.items = inference.items
         \/ inference'.ahead = <<>> /\ inference'.items = <<>>,
         upstream' \in [1..Models -> {"off", "open", "closed"}], Attended',
         DOMAIN reader' = ReaderField, reader'.frames = reader.frames,
         \/ reader' = reader
         \/ /\ reader.at = "waiting" /\ reader'.at \in {"reading", "over"}
            /\ reader'.body \in {"raw", "error"} /\ handler'.at = "answered"
  PROVE  GatewayInv'
<1>0. GatewayType /\ Waits /\ Working /\ Explained
  BY DEF GatewayInv
<1>1. GatewayType'
  <2>1. \E S : inference'.items \in Seq(S)
    <3>1. inference'.items = <<>> => inference'.items \in Seq({})
      OBVIOUS
    <3> QED BY <1>0, <3>1 DEF GatewayType
  <2> QED BY <1>0, <2>1, FramesStay DEF GatewayType, Early, InferenceField, HandlerField, ReaderField
<1>2. Waits'
  BY <1>0 DEF Waits, Early, GatewayType
<1>3. ~\E i \in 1..Len(out) : Ends(out[i])
  BY <1>0 DEF Working, Early
<1>4. Working'
  BY <1>0, <1>3, FramesStay DEF Working, Attended
<1>5. reader'.body # "stream"
  BY <1>0 DEF Waits
<1>6. Explained'
  BY <1>0, <1>5 DEF Explained
<1> QED BY <1>1, <1>2, <1>4, <1>6 DEF GatewayInv

\* The next candidate has its turn.
LEMMA FailedStep ==
  ASSUME GatewayInv, handler.at \in Early, handler.index # Models + 1, Failed,
         UNCHANGED <<request, out, reader>>, DOMAIN inference' = InferenceField,
         \/ inference'.ahead = inference.ahead /\ inference'.items = inference.items
         \/ inference'.ahead = <<>> /\ inference'.items = <<>>,
         upstream' \in [1..Models -> {"off", "open", "closed"}],
         \A c \in 1..Models : upstream'[c] # "open"
  PROVE  GatewayInv'
<1>1. /\ DOMAIN handler' = HandlerField /\ handler'.at = "next"
      /\ handler'.index = handler.index + 1 /\ handler'.last = "failure"
  BY Handled
<1>2. handler'.index \in 1..(Models + 1)
  BY <1>1, GatewayAssumption DEF GatewayInv, GatewayType
<1>3. Attended'
  BY DEF Attended
<1>4. DOMAIN reader' = ReaderField /\ handler'.at \in Early
  BY <1>1, Fields DEF Early
<1> QED BY <1>1, <1>2, <1>3, <1>4, EarlyStep

LEMMA Tried ==
  ASSUME GatewayInv, NEW kind, Tries(kind)
  PROVE  /\ handler.at = "next" /\ handler.at \in Early /\ handler.index \in 1..Models
         /\ handler.index # Models + 1 /\ reader.at = "waiting" /\ ~request.aborted
         /\ \A c \in 1..Models : upstream[c] # "open"
BY GatewayAssumption DEF GatewayInv, GatewayType, Waits, Working, Tries, Early

LEMMA ReceiveStep ==
  ASSUME GatewayInv, Receive PROVE GatewayInv'
<1>0. GatewayType /\ Waits /\ Working
  BY DEF GatewayInv
<1>1. /\ handler.at = "received" /\ handler.at \in Early /\ \A c \in 1..Models : upstream[c] # "open"
      /\ UNCHANGED <<request, upstream, inference, out>>
  BY <1>0 DEF Receive, Working, Early
<1>2. /\ DOMAIN inference' = InferenceField /\ inference'.ahead = inference.ahead
      /\ inference'.items = inference.items
      /\ upstream' \in [1..Models -> {"off", "open", "closed"}] /\ Attended'
  BY <1>0, <1>1, Fields DEF GatewayType, Attended
<1>3. CASE request.wrong = "no"
  <2>1. /\ DOMAIN handler' = HandlerField /\ handler'.at = "next" /\ handler'.index = handler.index
        /\ reader' = reader
    BY <1>3, Handled DEF Receive
  <2>2. handler'.at \in Early /\ handler'.index \in 1..(Models + 1) /\ DOMAIN reader' = ReaderField
    BY <1>0, <2>1, Fields DEF GatewayType, Early
  <2> QED BY <1>1, <1>2, <2>1, <2>2, EarlyStep
<1>4. CASE request.wrong # "no"
  <2>1. /\ DOMAIN handler' = HandlerField /\ handler'.at = "answered" /\ handler'.index = 1
    BY <1>4, Handled DEF Receive
  <2>2. Refuse
    BY <1>4 DEF Receive
  <2>3. /\ DOMAIN reader' = ReaderField /\ reader'.frames = reader.frames
        /\ \/ reader' = reader
           \/ reader.at = "waiting" /\ reader'.at = "over" /\ reader'.body = "error"
    BY <2>2, Told
  <2>4. handler'.index \in 1..(Models + 1)
    BY <2>1, GatewayAssumption
  <2> QED BY <1>1, <1>2, <2>1, <2>3, <2>4, EarlyStep
<1> QED BY <1>3, <1>4

LEMMA BrokenStep ==
  ASSUME GatewayInv, CallBroken PROVE GatewayInv'
<1>1. Tries("broken") /\ Failed /\ UNCHANGED <<request, upstream, inference, out, reader>>
  BY DEF CallBroken
<1>2. upstream \in [1..Models -> {"off", "open", "closed"}]
  BY DEF GatewayInv, GatewayType
<1> QED BY <1>1, <1>2, Tried, Fields, FailedStep

\* A candidate answers with an open or a closed body.
LEMMA AnswerStep ==
  ASSUME GatewayInv, NEW kind, Tries(kind), NEW how \in {"open", "closed"},
         handler' = Answered(handler.index), Answer("raw"),
         upstream' = [upstream EXCEPT ![handler.index] = how], UNCHANGED <<request, inference, out>>
  PROVE  GatewayInv'
<1>1. /\ handler.at \in Early /\ handler.index \in 1..Models /\ reader.at = "waiting"
      /\ \A c \in 1..Models : upstream[c] # "open"
  BY Tried
<1>2. DOMAIN handler' = HandlerField /\ handler'.at = "answered" /\ handler'.index = handler.index
  BY Handled
<1>3. /\ DOMAIN reader' = ReaderField /\ reader'.frames = reader.frames /\ reader'.at = "reading"
      /\ reader'.body = "raw"
  BY <1>1, Told
<1>4. /\ upstream' \in [1..Models -> {"off", "open", "closed"}]
      /\ \A c \in 1..Models : upstream'[c] = "open" => c = handler.index
  BY <1>1 DEF GatewayInv, GatewayType
<1>5. Attended'
  BY <1>2, <1>3, <1>4 DEF Attended
<1>6. handler'.index \in 1..(Models + 1)
  BY <1>1, <1>2, GatewayAssumption
<1>7. DOMAIN inference' = InferenceField /\ inference'.ahead = inference.ahead
      /\ inference'.items = inference.items
  BY Fields
<1> QED BY <1>1, <1>2, <1>3, <1>4, <1>5, <1>6, <1>7, EarlyStep

\* Its answer is one the loop looks at before it goes on.
LEMMA RejectStep ==
  ASSUME GatewayInv, NEW kind, Tries(kind), NEW how \in {"open", "closed"},
         handler' = [handler EXCEPT !.at = "rejected"],
         upstream' = [upstream EXCEPT ![handler.index] = how], UNCHANGED <<request, inference, out, reader>>
  PROVE  GatewayInv'
<1>1. /\ handler.at \in Early /\ handler.index \in 1..Models /\ reader.at = "waiting"
      /\ handler.index # Models + 1 /\ \A c \in 1..Models : upstream[c] # "open"
  BY Tried
<1>2. DOMAIN handler' = HandlerField /\ handler'.at = "rejected" /\ handler'.index = handler.index
  BY Handled
<1>3. /\ upstream' \in [1..Models -> {"off", "open", "closed"}]
      /\ \A c \in 1..Models : upstream'[c] = "open" => c = handler.index
  BY <1>1 DEF GatewayInv, GatewayType
<1>4. Attended'
  BY <1>1, <1>2, <1>3 DEF Attended
<1>5. handler'.index \in 1..(Models + 1) /\ handler'.at \in Early
  BY <1>1, <1>2, GatewayAssumption DEF Early
<1>6. /\ DOMAIN inference' = InferenceField /\ inference'.ahead = inference.ahead
      /\ inference'.items = inference.items
      /\ DOMAIN reader' = ReaderField
  BY Fields
<1> QED BY <1>1, <1>2, <1>3, <1>4, <1>5, <1>6, EarlyStep

LEMMA FailsClosed ==
  ASSUME GatewayInv, NEW kind, Tries(kind), Failed, Closes(handler.index),
         UNCHANGED <<request, inference, out, reader>>
  PROVE  GatewayInv'
<1>1. \A c \in 1..Models : upstream'[c] # "open"
  BY Tried, Closed
<1> QED BY <1>1, Tried, Closed, Fields, FailedStep

LEMMA CustomStep ==
  ASSUME GatewayInv, NEW status, CallCustom(status) PROVE GatewayInv'
<1>1. Tries("custom") /\ UNCHANGED <<request, inference, out>>
  BY DEF CallCustom
<1>2. CASE Failed /\ Closes(handler.index) /\ UNCHANGED reader
  BY <1>1, <1>2, FailsClosed
<1>3. CASE /\ handler' = [handler EXCEPT !.at = "rejected"]
           /\ upstream' = [upstream EXCEPT ![handler.index] = "open"] /\ UNCHANGED reader
  BY <1>1, <1>3, RejectStep
<1>4. CASE /\ handler' = Answered(handler.index) /\ Answer("raw")
           /\ upstream' = [upstream EXCEPT ![handler.index] = "open"]
  BY <1>1, <1>4, AnswerStep
<1> QED BY <1>2, <1>3, <1>4 DEF CallCustom

LEMMA NativeStep ==
  ASSUME GatewayInv, NEW status, NEW same, CallNative(status, same) PROVE GatewayInv'
<1>1. Tries("native") /\ UNCHANGED <<request, inference, out>>
  BY DEF CallNative
<1>2. CASE Failed /\ Closes(handler.index) /\ UNCHANGED reader
  BY <1>1, <1>2, FailsClosed
<1>3. CASE handler' = [handler EXCEPT !.at = "rejected"] /\ Closes(handler.index) /\ UNCHANGED reader
  BY <1>1, <1>3, RejectStep DEF Closes
<1>4. CASE /\ handler' = Answered(handler.index) /\ Answer("raw")
           /\ upstream' = [upstream EXCEPT ![handler.index] = IF status = "ok" THEN "open" ELSE "closed"]
  BY <1>1, <1>4, AnswerStep
<1> QED BY <1>2, <1>3, <1>4 DEF CallNative

LEMMA SkipStep ==
  ASSUME GatewayInv, Skip PROVE GatewayInv'
<1>0. GatewayType /\ Waits /\ Working
  BY DEF GatewayInv
<1>1. /\ handler.at = "rejected" /\ handler.at \in Early /\ SkipResponse(handler.index)
      /\ handler.index \in 1..Models /\ UNCHANGED <<request, inference, out, reader>>
  BY <1>0, GatewayAssumption DEF Skip, GatewayType, Early
<1>2. /\ DOMAIN handler' = HandlerField /\ handler'.at = "next"
      /\ handler'.index = handler.index + 1 /\ handler'.last = "response"
  BY <1>1, Fields DEF SkipResponse, HandlerField
<1>3. /\ upstream' \in [1..Models -> {"off", "open", "closed"}]
      /\ \A c \in 1..Models : upstream'[c] = "open" =>
           upstream[c] = "open" /\ ~(c = handler.index /\ handler.index < Models)
  BY <1>0, <1>1 DEF SkipResponse, Discard, GatewayType
<1>4. Attended'
  <2> SUFFICES ASSUME NEW c \in 1..Models, upstream'[c] = "open"
               PROVE  handler'.index = Models + 1 /\ c = Models /\ reader.at \in {"waiting", "reading"}
    BY <1>1, <1>2 DEF Attended
  <2>1. upstream[c] = "open" /\ c = handler.index
    BY <1>0, <1>1, <1>3, GatewayAssumption DEF Working
  <2> QED BY <1>0, <1>1, <1>2, <1>3, <2>1, GatewayAssumption DEF Working
<1>5. handler'.index \in 1..(Models + 1) /\ handler'.at \in Early
  BY <1>1, <1>2, GatewayAssumption DEF Early
<1>6. /\ DOMAIN inference' = InferenceField /\ inference'.ahead = inference.ahead
      /\ inference'.items = inference.items
      /\ DOMAIN reader' = ReaderField
  BY <1>1, Fields
<1> QED BY <1>1, <1>2, <1>3, <1>4, <1>5, <1>6, EarlyStep

LEMMA ExhaustedStep ==
  ASSUME GatewayInv, Exhausted PROVE GatewayInv'
<1>0. GatewayType /\ Waits /\ Working
  BY DEF GatewayInv
<1>1. /\ handler.at = "next" /\ handler.at \in Early /\ UNCHANGED <<request, upstream, inference, out>>
  BY DEF Exhausted, Early
<1>2. DOMAIN handler' = HandlerField /\ handler'.at = "answered" /\ handler'.index = handler.index
  BY Handled DEF Exhausted
<1>3. /\ DOMAIN reader' = ReaderField /\ reader'.frames = reader.frames
      /\ \/ reader' = reader
         \/ /\ reader.at = "waiting" /\ reader'.at \in {"reading", "over"}
            /\ reader'.body \in {"raw", "error"}
      /\ reader'.at \in {"waiting", "reading"} \/ reader' = reader \/ handler.last # "response"
  <2>1. CASE handler.last = "response"
    BY <2>1, Told DEF Exhausted
  <2>2. CASE handler.last # "response"
    BY <2>2, Told DEF Exhausted
  <2> QED BY <2>1, <2>2
<1>4. Attended'
  <2> SUFFICES ASSUME NEW c \in 1..Models, upstream[c] = "open"
               PROVE  /\ handler'.index = Models + 1 /\ c = Models
                      /\ reader'.at \in {"waiting", "reading"}
    BY <1>1, <1>2 DEF Attended
  <2>1. /\ handler.index = Models + 1 /\ handler.last = "response"
        /\ reader.at \in {"waiting", "reading"} /\ c = Models
    BY <1>0, <1>1, GatewayAssumption DEF Working
  <2> QED BY <1>2, <1>3, <2>1
<1>5. /\ handler'.index \in 1..(Models + 1) /\ DOMAIN inference' = InferenceField
      /\ inference'.ahead = inference.ahead /\ inference'.items = inference.items
      /\ upstream' \in [1..Models -> {"off", "open", "closed"}]
  BY <1>0, <1>1, <1>2, Fields DEF GatewayType
<1> QED BY <1>1, <1>2, <1>3, <1>4, <1>5, EarlyStep

LEMMA SdkStep ==
  ASSUME GatewayInv, CallSdk PROVE GatewayInv'
<1>0. Tries("sdk") /\ UNCHANGED <<request, out, reader>>
  BY DEF CallSdk
<1>1. /\ handler.at \in Early /\ handler.index \in 1..Models /\ reader.at = "waiting"
      /\ handler.index # Models + 1 /\ \A c \in 1..Models : upstream[c] # "open"
  BY <1>0, Tried
<1>2. CASE request.decodes
  <2>1. DOMAIN handler' = HandlerField /\ handler'.at = "first" /\ handler'.index = handler.index
    BY <1>2, Handled DEF CallSdk
  <2>2. /\ upstream' \in [1..Models -> {"off", "open", "closed"}]
        /\ \A c \in 1..Models : upstream'[c] = "open" => c = handler.index
    BY <1>1, <1>2 DEF CallSdk, GatewayInv, GatewayType
  <2>3. Attended'
    BY <1>0, <1>1, <2>1, <2>2 DEF Attended
  <2>4. handler'.index \in 1..(Models + 1) /\ handler'.at \in Early
    BY <1>1, <2>1, GatewayAssumption DEF Early
  <2>5. DOMAIN inference' = InferenceField /\ inference'.ahead = <<>> /\ inference'.items = <<>>
    BY <1>2 DEF CallSdk, InferenceField
  <2>6. DOMAIN reader' = ReaderField
    BY <1>0, Fields
  <2> QED BY <1>0, <1>1, <2>1, <2>2, <2>3, <2>4, <2>5, <2>6, EarlyStep
<1>3. CASE ~request.decodes
  <2>1. Failed /\ UNCHANGED <<upstream, inference>>
    BY <1>3 DEF CallSdk
  <2>2. upstream \in [1..Models -> {"off", "open", "closed"}]
    BY DEF GatewayInv, GatewayType
  <2> QED BY <1>0, <1>1, <2>1, <2>2, Fields, FailedStep
<1> QED BY <1>2, <1>3

\* The first chunk of an SDK stream.
LEMMA FirstStep ==
  ASSUME GatewayInv, NEW chunk \in Yields, First(chunk) PROVE GatewayInv'
<1>0. GatewayType /\ Waits /\ Working /\ Explained
  BY DEF GatewayInv
<1>1. /\ handler.at = "first" /\ handler.at \in Early /\ handler.index \in 1..Models
      /\ handler.index # Models + 1 /\ UNCHANGED request
      /\ reader.at = "waiting" \/ request.aborted
      /\ \A c \in 1..Models : upstream[c] = "open" => c = handler.index
      /\ upstream \in [1..Models -> {"off", "open", "closed"}]
  BY <1>0, GatewayAssumption DEF First, GatewayType, Waits, Working, Early
<1>2. CASE /\ inference' = [inference EXCEPT !.framings = @ + 1]
           /\ UNCHANGED <<handler, upstream, out, reader>>
  <2>1. DOMAIN inference' = InferenceField /\ inference'.ahead = inference.ahead
      /\ inference'.items = inference.items
    BY <1>2, Fields DEF InferenceField
  <2>2. Attended'
    BY <1>0, <1>2 DEF Working, Attended
  <2>3. handler'.index \in 1..(Models + 1) /\ DOMAIN handler' = HandlerField /\ DOMAIN reader' = ReaderField
    BY <1>0, <1>2, Fields DEF GatewayType
  <2> QED BY <1>1, <1>2, <2>1, <2>2, <2>3, EarlyStep
<1>3. CASE Failed /\ Closes(handler.index) /\ UNCHANGED <<inference, out, reader>>
  <2>1. \A c \in 1..Models : upstream'[c] # "open"
    BY <1>1, <1>3, Closed
  <2> QED BY <1>1, <1>3, <2>1, Closed, Fields, FailedStep
<1>4. CASE /\ chunk = Done \/ (substantive(chunk) /\ chunk.type # "error")
           /\ handler' = [handler EXCEPT !.at = "encoding"]
           /\ inference' = [inference EXCEPT !.ahead = <<chunk>>]
           /\ IF request.stream
              THEN Answer("stream") /\ out' = <<[type |-> "start"]>>
              ELSE UNCHANGED <<out, reader>>
           /\ UNCHANGED upstream
  <2>1. DOMAIN handler' = HandlerField /\ handler'.at = "encoding" /\ handler'.index = handler.index
    BY <1>4, Handled
  <2>2. /\ DOMAIN inference' = InferenceField /\ inference'.ahead = <<chunk>> /\ inference'.ahead # <<>>
        /\ inference'.ahead[1] = chunk /\ inference'.items = inference.items
    BY <1>4, Fields DEF InferenceField
  <2>3. chunk.type \notin {"error", "framing"} /\ (chunk.type = "finish" => chunk.id # "none")
    BY <1>4, YieldsKnown DEF Done, Part, substantive, ItemType
  <2>4. /\ DOMAIN reader' = ReaderField /\ reader'.frames = reader.frames
        /\ \/ request.aborted /\ reader' = reader
           \/ ~request.aborted /\ request.stream /\ reader'.at = "reading" /\ reader'.body = "stream"
           \/ ~request.aborted /\ ~request.stream /\ reader' = reader
    BY <1>0, <1>1, <1>4, Told, Fields DEF Waits
  <2>5. /\ \E S : out' \in Seq(S)
        /\ ~\E i \in 1..Len(out') : Ends(out'[i])
        /\ ~Coming("failed")'
    <3>1. CASE request.stream
      <4> DEFINE f == [type |-> "start"]
      <4>1. out' = <<f>> /\ f.type = "start"
        BY <1>4, <3>1
      <4> HIDE DEF f
      <4>2. out' \in Seq({f}) /\ Len(out') = 1 /\ out'[1] = f
        BY <4>1
      <4>3. \A i \in 1..Len(out') : out'[i].type = "start"
        BY <4>1, <4>2
      <4> QED BY <4>2, <4>3 DEF Ends, Coming
    <3>2. CASE ~request.stream
      <4>1. out' = out /\ ~\E i \in 1..Len(out) : Ends(out[i])
        BY <1>0, <1>1, <1>4, <3>2 DEF Working
      <4> QED BY <1>0, <4>1 DEF GatewayType, Coming, Ends
    <3> QED BY <3>1, <3>2
  <2>6. (\E S : reader'.frames \in Seq(S)) /\ (Shown("failed")' <=> Shown("failed"))
    BY <1>0, <2>4 DEF GatewayType, Shown
  <2>7. GatewayType'
    BY <1>0, <1>1, <1>4, <2>1, <2>2, <2>4, <2>5, <2>6
       DEF GatewayType, Early, HandlerField, InferenceField, ReaderField
  <2>8. Waits'
    BY <1>0, <1>1, <2>1, <2>4 DEF Waits, Early
  <2>9. Working'
    BY <1>0, <1>1, <1>4, <2>1, <2>4, <2>5 DEF Working, Waits
  <2>10. ~Shown("failed")'
    <3>1. reader.frames = <<>>
      BY <1>0, <1>1 DEF Waits
    <3> QED BY <2>6, <3>1 DEF Shown
  <2>11. Explained'
    BY <2>1, <2>2, <2>3, <2>5, <2>10 DEF Explained
  <2> QED BY <2>7, <2>8, <2>9, <2>11 DEF GatewayInv
<1>5. \/ /\ inference' = [inference EXCEPT !.framings = @ + 1]
         /\ UNCHANGED <<handler, upstream, out, reader>>
      \/ Failed /\ Closes(handler.index) /\ UNCHANGED <<inference, out, reader>>
      \/ /\ chunk = Done \/ (substantive(chunk) /\ chunk.type # "error")
         /\ handler' = [handler EXCEPT !.at = "encoding"]
         /\ inference' = [inference EXCEPT !.ahead = <<chunk>>]
         /\ IF request.stream
            THEN Answer("stream") /\ out' = <<[type |-> "start"]>>
            ELSE UNCHANGED <<out, reader>>
         /\ UNCHANGED upstream
  BY DEF First
<1> QED BY <1>2, <1>3, <1>4, <1>5

-----------------------------------------------------------------------------
\* While there is output.
LEMMA Encoding ==
  ASSUME GatewayInv, handler.at = "encoding", out = <<>>
  PROVE  /\ handler.index \in 1..Models /\ handler.index # Models + 1
         /\ reader.at = (IF request.stream THEN "reading" ELSE "waiting") \/ request.aborted
         /\ \A c \in 1..Models : upstream[c] = "open" => c = handler.index
         /\ ~Shown("failed") \/ reader.body # "stream"
         /\ ~Coming("delta")
<1>0. GatewayType /\ Waits /\ Working /\ Explained
  BY DEF GatewayInv
<1>1. handler.index \in 1..Models /\ handler.index # Models + 1
  BY <1>0, GatewayAssumption DEF GatewayType
<1>2. \A c \in 1..Models : upstream[c] = "open" => c = handler.index
  BY <1>0, <1>1 DEF Working
<1>3. ~Coming("delta")
  BY DEF Coming
<1> QED BY <1>0, <1>1, <1>2, <1>3 DEF Waits, Explained

LEMMA PartRead ==
  ASSUME GatewayInv, NEW chunk, Encode(chunk)
  PROVE  /\ chunk.type = "finish" => chunk.id # "none"
         /\ chunk.type = "error" /\ reader.body = "stream" => Shown("delta")
         /\ chunk.type = "framing" =>
              inference.ahead = <<>> /\ (reader.body = "stream" => inference.finish # "none" \/ Shown("delta"))
<1>0. GatewayType /\ Waits /\ Working /\ Explained /\ handler.at = "encoding" /\ out = <<>>
  BY DEF GatewayInv, Encode
<1>1. CASE inference.ahead # <<>>
  <2>1. chunk = inference.ahead[1]
    BY <1>1 DEF Encode
  <2>2. /\ inference.ahead[1].type \notin {"error", "framing"}
        /\ inference.ahead[1].type = "finish" => inference.ahead[1].id # "none"
    BY <1>0, <1>1 DEF Explained
  <2> QED BY <2>1, <2>2
<1>2. CASE inference.ahead = <<>>
  <2>1. chunk \in Yields
    BY <1>2 DEF Encode
  <2>2. chunk.type = "finish" => chunk.id # "none"
    BY <2>1, YieldsKnown
  <2>3. chunk.type \in {"error", "framing"} => inference.finish = "none"
    BY <2>1, YieldsKnown DEF Done, Part
  <2>4. reader.body = "stream" => inference.finish # "none" \/ Shown("delta")
    BY <1>0, <1>2, Encoding DEF Explained
  <2> QED BY <1>2, <2>2, <2>3, <2>4
<1> QED BY <1>1, <1>2

\* The encoder goes on.
LEMMA OutputStep ==
  ASSUME GatewayInv, handler.at = "encoding", out = <<>>, UNCHANGED <<request, handler, upstream, reader>>,
         DOMAIN inference' = InferenceField, inference'.ahead = <<>>, \E S : inference'.items \in Seq(S),
         \E S : out' \in Seq(S), \A i \in 1..Len(out') : out'[i].type \notin {"completed", "failed"},
         reader.body = "stream" => inference'.finish # "none" \/ Shown("delta") \/ Coming("delta")'
  PROVE  GatewayInv'
<1>0. GatewayType /\ Waits /\ Working /\ Explained
  BY DEF GatewayInv
<1>1. GatewayType'
  BY <1>0 DEF GatewayType, InferenceField
<1>2. Waits' /\ Working'
  BY <1>0 DEF Waits, Working, Ends
<1>3. ~Coming("failed")' /\ (\A t : Shown(t)' <=> Shown(t))
  BY DEF Coming, Shown
<1>4. Explained'
  BY <1>0, <1>3, Encoding DEF Explained
<1> QED BY <1>1, <1>2, <1>4 DEF GatewayInv

\* The encoder is through with the request.
LEMMA AnsweredStep ==
  ASSUME GatewayInv, handler.at = "encoding", out = <<>>, UNCHANGED request,
         Closes(handler.index), handler' = Answered(handler.index),
         DOMAIN inference' = InferenceField, \E S : inference'.items \in Seq(S),
         inference'.ahead = <<>> \/ inference'.ahead = inference.ahead,
         \E S : out' \in Seq(S), DOMAIN reader' = ReaderField,
         reader' = reader \/ (reader.at = "waiting" /\ reader'.at = "over" /\ reader'.body = "document"),
         \E S : reader'.frames \in Seq(S),
         reader.body = "stream" /\ Coming("failed")' => inference'.cause.type # "error" \/ Shown("delta")
  PROVE  GatewayInv'
<1>0. GatewayType /\ Waits /\ Working /\ Explained
  BY DEF GatewayInv
<1>1. DOMAIN handler' = HandlerField /\ handler'.at = "answered" /\ handler'.index = handler.index
  BY Handled
<1>2. /\ upstream' \in [1..Models -> {"off", "open", "closed"}]
      /\ \A d \in 1..Models : upstream'[d] # "open"
  BY Closed, Encoding
<1>3. GatewayType'
  BY <1>0, <1>1, <1>2 DEF GatewayType, InferenceField, HandlerField, ReaderField
<1>4. Waits'
  BY <1>0, <1>1 DEF Waits, Early, GatewayType
<1>5. Working'
  BY <1>1, <1>2 DEF Working
<1>6. reader'.body = "stream" => reader' = reader
  OBVIOUS
<1>7. reader' = reader => (Shown("failed")' <=> Shown("failed")) /\ (Shown("delta")' <=> Shown("delta"))
  BY DEF Shown
<1>8. Explained'
  BY <1>0, <1>1, <1>6, <1>7, Encoding DEF Explained
<1> QED BY <1>3, <1>4, <1>5, <1>8 DEF GatewayInv

\* Seen from outside, its items stay a sequence.
LEMMA ItemsKept ==
  ASSUME NEW s, NEW S, s \in Seq(S), NEW i, NEW x PROVE \E T : [s EXCEPT ![i] = x] \in Seq(T)
<1> DEFINE T == S \cup {x}
<1>1. s \in [1..Len(s) -> S] /\ Len(s) \in Nat
  OBVIOUS
<1>2. S \subseteq T /\ x \in T
  OBVIOUS
<1> HIDE DEF T
<1>3. [s EXCEPT ![i] = x] \in [1..Len(s) -> T]
  BY <1>1, <1>2
<1> DEFINE n == Len(s)
           t == [s EXCEPT ![i] = x]
<1>4. n \in Nat /\ t \in [1..n -> T]
  BY ONLY <1>1, <1>3
<1> HIDE DEF n, t
<1>5. t \in Seq(T)
  BY ONLY <1>4, SeqDef
<1> QED BY <1>5 DEF t

LEMMA AcceptStep ==
  ASSUME GatewayInv, NEW chunk, handler.at = "encoding", out = <<>>, acceptPart(chunk),
         UNCHANGED <<request, handler, upstream, reader>>
  PROVE  GatewayInv'
<1> DEFINE token == Len(inference.parts) + 1
           at == ItemOf(inference.items, chunk)
           index == IF at = {} THEN Len(inference.items) + 1 ELSE CHOOSE i \in at : TRUE
           items == IF at = {} THEN Append(inference.items, [id |-> chunk.id, type |-> chunk.type, text |-> <<>>])
                    ELSE inference.items
           new == [items EXCEPT ![index].text = Append(@, token)]
           a == itemAdded(index, items[index])
           d == itemDelta(items, index, chunk.type, token)
<1>1. /\ inference' = [inference EXCEPT !.ahead = <<>>, !.parts = Append(@, chunk), !.items = new]
      /\ out' = IF request.stream THEN (IF at = {} THEN a ELSE <<>>) \o d ELSE <<>>
  BY DEF acceptPart
<1>2. PICK S : inference.items \in Seq(S)
  BY DEF GatewayInv, GatewayType
<1>3. \E T : new \in Seq(T)
  <2> DEFINE r == [id |-> chunk.id, type |-> chunk.type, text |-> <<>>]
             S2 == S \cup {r}
  <2>1. S \subseteq S2 /\ r \in S2
    OBVIOUS
  <2>2. Append(inference.items, r) \in Seq(S2) /\ inference.items \in Seq(S2)
    <3> HIDE DEF S2, r
    <3>1. inference.items \in Seq(S2)
      BY <1>2, <2>1, SeqMonotonic
    <3> QED BY <2>1, <3>1
  <2>3. items \in Seq(S2)
    BY <2>2
  <2> DEFINE x == [items[index] EXCEPT !.text = Append(@, token)]
  <2>4. new = [items EXCEPT ![index] = x]
    OBVIOUS
  <2> HIDE DEF items, index, S2, x, new
  <2> QED BY <2>3, <2>4, ItemsKept
<1> HIDE DEF new
<1>4. DOMAIN inference' = InferenceField /\ inference'.ahead = <<>> /\ inference'.items = new
  BY <1>1, Fields DEF InferenceField
<1>5. /\ a = <<>> \/ \E e : a = <<e>> /\ e.type = "added"
      /\ \E e : d = <<e>> /\ e.type = "delta"
  <2> HIDE DEF items, index, token
  <2>1. a = <<>> \/ \E e : a = <<e>> /\ e.type = "added"
    BY DEF itemAdded
  <2>2. \E e : d = <<e>> /\ e.type = "delta"
    <3> DEFINE j == IF request.protocol # "chat-completions" THEN index
                    ELSE IF chunk.type = "call" THEN CallsBefore(items, index) + 1 ELSE 0
               e == [type |-> "delta", kind |-> chunk.type, token |-> token,
                     id |-> items[index].id, index |-> j]
    <3>1. d = <<e>>
      BY DEF itemDelta
    <3>2. e.type = "delta"
      OBVIOUS
    <3> HIDE DEF d, e
    <3> QED BY <3>1, <3>2
  <2> QED BY <2>1, <2>2
<1> HIDE DEF a, d, at
<1>6. /\ \E T : out' \in Seq(T)
      /\ \A i \in 1..Len(out') : out'[i].type \notin {"completed", "failed"}
      /\ request.stream => Coming("delta")'
  <2>1. CASE ~request.stream
    <3>1. out' = <<>> /\ out' \in Seq({}) /\ Len(out') = 0
      BY <1>1, <2>1
    <3> QED BY <2>1, <3>1
  <2>2. CASE request.stream
    <3>1. PICK e : d = <<e>> /\ e.type = "delta"
      BY <1>5
    <3>2. CASE out' = <<e>>
      <4>1. out' \in Seq({e}) /\ Len(out') = 1 /\ out'[1] = e
        BY <3>2
      <4> QED BY <3>1, <4>1 DEF Coming
    <3>3. CASE \E f : f.type = "added" /\ out' = <<f>> \o <<e>>
      <4>1. PICK f : f.type = "added" /\ out' = <<f>> \o <<e>>
        BY <3>3
      <4>2. <<f>> \in Seq({f, e}) /\ <<e>> \in Seq({f, e}) /\ Len(<<f>>) = 1 /\ Len(<<e>>) = 1
        OBVIOUS
      <4>3. out' \in Seq({f, e}) /\ Len(out') = 2 /\ out'[1] = f /\ out'[2] = e
        BY <4>1, <4>2
      <4>4. \A i \in 1..Len(out') : out'[i] \in {f, e}
        BY <4>3
      <4>5. 2 \in 1..Len(out')
        BY <4>3
      <4>6. Coming("delta")'
        BY <3>1, <4>3, <4>5 DEF Coming
      <4> QED BY <3>1, <4>1, <4>3, <4>4, <4>6
    <3>4. out' = <<e>> \/ \E f : f.type = "added" /\ out' = <<f>> \o <<e>>
      <4>1. out' = <<>> \o <<e>> \/ out' = a \o <<e>>
        BY <1>1, <2>2, <3>1
      <4>2. <<>> \o <<e>> = <<e>>
        OBVIOUS
      <4> QED BY <1>5, <4>1, <4>2
    <3> QED BY <3>2, <3>3, <3>4
  <2> QED BY <2>1, <2>2
<1>7. reader.body = "stream" => request.stream
  BY DEF GatewayInv, Waits
<1> QED BY <1>3, <1>4, <1>6, <1>7, OutputStep

LEMMA EpilogueFrames ==
  ASSUME NEW items, NEW S, items \in Seq(S)
  PROVE  /\ \E T : epilogue(items) \in Seq(T)
         /\ \A i \in 1..Len(epilogue(items)) : epilogue(items)[i].type # "failed"
<1> DEFINE n == Len(items)
           D(i) == [type |-> "done", index |-> i,
                    text |-> IF request.protocol = "responses" THEN items[i].text ELSE <<>>]
           c == Closing(items)
           r == [type |-> "completed", runsTools |-> hasCalls(items)]
           T == {D(i) : i \in 1..n} \cup {r}
           p == IF request.protocol = "chat-completions" THEN <<>> ELSE c
           e == epilogue(items)
<1>1. n \in Nat
  OBVIOUS
<1>2. \A x \in T : x.type # "failed"
  OBVIOUS
<1>3. c \in Seq(T)
  <2>1. c = [i \in 1..n |-> D(i)]
    BY DEF Closing
  <2>2. \A i \in 1..n : D(i) \in T
    OBVIOUS
  <2> HIDE DEF n, D, c, T
  <2>3. c \in [1..n -> T]
    BY <2>1, <2>2
  <2> QED BY <1>1, <2>3, SeqDef
<1>4. <<r>> \in Seq(T) /\ e = p \o <<r>>
  <2>1. r \in T
    OBVIOUS
  <2>2. e = p \o <<r>>
    BY DEF epilogue
  <2> HIDE DEF r, T, e, p
  <2> QED BY <2>1, <2>2
<1> HIDE DEF n, c, r, T, e
<1>5. p \in Seq(T)
  <2>1. <<>> \in Seq(T)
    OBVIOUS
  <2> QED BY <1>3, <2>1
<1> HIDE DEF p
<1>6. e \in Seq(T)
  BY <1>4, <1>5
<1>7. \A i \in 1..Len(e) : e[i] \in T
  BY <1>6
<1> QED BY <1>2, <1>6, <1>7 DEF e

LEMMA FailsStep ==
  ASSUME GatewayInv, NEW chunk, Encode(chunk), OutputFails(chunk) PROVE GatewayInv'
<1>0. GatewayType /\ Waits /\ Working /\ Explained /\ handler.at = "encoding" /\ out = <<>>
      /\ UNCHANGED <<request, reader>>
  BY DEF GatewayInv, Encode, OutputFails
<1>1. /\ DOMAIN inference' = InferenceField /\ inference'.ahead = <<>>
      /\ inference'.items = inference.items /\ inference'.cause = chunk /\ Closes(handler.index)
  BY Fields DEF OutputFails, InferenceField
<1>2. \E S : inference'.items \in Seq(S)
  BY <1>0, <1>1 DEF GatewayType
<1>3. CASE request.stream
  <2> DEFINE f == [type |-> "failed"]
  <2>1. out' = <<f>> /\ handler' = Answered(handler.index)
    BY <1>3 DEF OutputFails
  <2>2. <<f>> \in Seq({f})
    OBVIOUS
  <2>3. DOMAIN reader' = ReaderField /\ \E S : reader'.frames \in Seq(S)
    BY <1>0, Fields DEF GatewayType
  <2>4. reader.body = "stream" => inference'.cause.type # "error" \/ Shown("delta")
    BY <1>1, PartRead
  <2> HIDE DEF f
  <2>5. \E S : out' \in Seq(S)
    BY <2>1, <2>2
  <2> QED BY <1>0, <1>1, <1>2, <2>1, <2>3, <2>4, <2>5, AnsweredStep
<1>4. CASE ~request.stream
  <2>1. Failed /\ out' = out
    BY <1>4 DEF OutputFails
  <2>2. /\ DOMAIN handler' = HandlerField /\ handler'.at = "next"
        /\ handler'.index = handler.index + 1 /\ handler'.last = "failure"
    BY <2>1, Handled
  <2>3. /\ upstream' \in [1..Models -> {"off", "open", "closed"}]
        /\ \A d \in 1..Models : upstream'[d] # "open"
    BY <1>0, <1>1, Closed, Encoding
  <2>4. handler'.index \in 1..(Models + 1)
    BY <1>0, <2>2, Encoding, GatewayAssumption
  <2>5. reader.at = "waiting" \/ request.aborted
    BY <1>0, <1>4, Encoding
  <2>6. GatewayType'
    BY <1>0, <1>1, <1>2, <2>1, <2>2, <2>3, <2>4 DEF GatewayType, HandlerField, InferenceField, Early
  <2>7. Waits'
    BY <1>0, <2>2, <2>5 DEF Waits
  <2>8. Working'
    <3>1. ~\E i \in 1..Len(out) : Ends(out[i])
      BY <1>0
    <3> QED BY <2>1, <2>3, <3>1 DEF Working
  <2>9. reader'.body # "stream"
    BY <1>0, <1>4 DEF Waits
  <2>10. Explained'
    BY <1>1, <2>9 DEF Explained
  <2> QED BY <2>6, <2>7, <2>8, <2>10 DEF GatewayInv
<1> QED BY <1>3, <1>4

LEMMA EndsStep ==
  ASSUME GatewayInv, NEW chunk, Encode(chunk), OutputEnds PROVE GatewayInv'
<1>0. GatewayType /\ Waits /\ Working /\ Explained /\ handler.at = "encoding" /\ out = <<>>
      /\ UNCHANGED <<request, inference>> /\ Closes(handler.index) /\ handler' = Answered(handler.index)
  BY DEF GatewayInv, Encode, OutputEnds
<1>1. DOMAIN inference' = InferenceField /\ inference'.ahead = inference.ahead
      /\ \E S : inference'.items \in Seq(S)
  BY <1>0, Fields DEF GatewayType
<1>2. CASE request.stream
  <2>1. out' = epilogue(inference.items) /\ reader' = reader
    BY <1>2 DEF OutputEnds
  <2>2. (\E S : out' \in Seq(S)) /\ ~Coming("failed")'
    BY <1>0, <2>1, EpilogueFrames DEF GatewayType, Coming
  <2>3. DOMAIN reader' = ReaderField /\ \E S : reader'.frames \in Seq(S)
    BY <1>0, <2>1, Fields DEF GatewayType
  <2> QED BY <1>0, <1>1, <2>1, <2>2, <2>3, AnsweredStep
<1>3. CASE ~request.stream
  <2> DEFINE d == finalDocument(inference.items)
  <2>1. out' = out /\ reader' = IF reader.at # "waiting" THEN reader
                                ELSE [reader EXCEPT !.at = "over", !.body = "document", !.frames = <<d>>]
    BY <1>3 DEF OutputEnds
  <2> HIDE DEF d
  <2>2. <<d>> \in Seq({d})
    OBVIOUS
  <2>3. /\ DOMAIN reader' = ReaderField
        /\ reader' = reader \/ (reader.at = "waiting" /\ reader'.at = "over" /\ reader'.body = "document")
        /\ \E S : reader'.frames \in Seq(S)
    <3>1. CASE reader.at # "waiting"
      BY <1>0, <2>1, <3>1, Fields DEF GatewayType
    <3>2. CASE reader.at = "waiting"
      <4>1. DOMAIN reader' = ReaderField /\ reader'.at = "over" /\ reader'.body = "document"
            /\ reader'.frames = <<d>>
        BY <2>1, <3>2, Fields DEF ReaderField
      <4> QED BY <2>2, <3>2, <4>1
    <3> QED BY <3>1, <3>2
  <2>4. (\E S : out' \in Seq(S)) /\ ~Coming("failed")'
    BY <1>0, <2>1 DEF GatewayType, Coming
  <2> QED BY <1>0, <1>1, <2>3, <2>4, AnsweredStep
<1> QED BY <1>2, <1>3

LEMMA EncodeStep ==
  ASSUME GatewayInv, NEW chunk, Encode(chunk) PROVE GatewayInv'
<1>0. GatewayType /\ Waits /\ Working /\ Explained /\ handler.at = "encoding" /\ out = <<>>
      /\ UNCHANGED request
  BY DEF GatewayInv, Encode
<1>1. CASE acceptPart(chunk) /\ UNCHANGED <<handler, upstream, reader>>
  BY <1>0, <1>1, AcceptStep
<1>2. CASE OutputFails(chunk)
  BY <1>2, FailsStep
<1>3. CASE OutputEnds
  BY <1>3, EndsStep
<1>4. CASE /\ chunk.type = "finish"
           /\ inference' = [inference EXCEPT !.ahead = <<>>, !.finish = chunk.id]
           /\ UNCHANGED <<handler, upstream, out, reader>>
  <2>1. /\ DOMAIN inference' = InferenceField /\ inference'.ahead = <<>> /\ inference'.finish = chunk.id
        /\ inference'.items = inference.items
    BY <1>4, Fields DEF InferenceField
  <2>2. (\E S : inference'.items \in Seq(S)) /\ (\E S : out' \in Seq(S)) /\ chunk.id # "none"
    BY <1>0, <1>4, <2>1, PartRead DEF GatewayType
  <2> QED BY <1>0, <1>4, <2>1, <2>2, OutputStep
<1>5. CASE /\ chunk.type = "framing"
           /\ inference' = [inference EXCEPT !.ahead = <<>>, !.framings = @ + 1]
           /\ UNCHANGED <<handler, upstream, out, reader>>
  <2>1. /\ DOMAIN inference' = InferenceField /\ inference'.ahead = <<>>
        /\ inference'.finish = inference.finish /\ inference'.items = inference.items
    BY <1>5, Fields DEF InferenceField
  <2>2. (\E S : inference'.items \in Seq(S)) /\ (\E S : out' \in Seq(S))
        /\ (reader.body = "stream" => inference.finish # "none" \/ Shown("delta"))
    BY <1>0, <1>5, <2>1, PartRead DEF GatewayType
  <2> QED BY <1>0, <1>5, <2>1, <2>2, OutputStep
<1> QED BY <1>1, <1>2, <1>3, <1>4, <1>5 DEF Encode

-----------------------------------------------------------------------------
\* The harness.
LEMMA PullStep ==
  ASSUME GatewayInv, Pull PROVE GatewayInv'
<1>0. GatewayType /\ Waits /\ Working /\ Explained
  BY DEF GatewayInv
<1> DEFINE f == Head(out)
<1>1. /\ reader.at = "reading" /\ reader.body = "stream" /\ out # <<>>
      /\ reader' = [reader EXCEPT !.frames = Append(@, f), !.at = IF Ends(f) THEN "over" ELSE @]
      /\ out' = Tail(out) /\ UNCHANGED <<request, handler, upstream, inference>>
  BY DEF Pull
<1>2. PICK S, T : out \in Seq(S) /\ reader.frames \in Seq(T)
  BY <1>0 DEF GatewayType
<1>3. /\ out' \in Seq(S) /\ Len(out) \in Nat /\ Len(out) > 0 /\ Len(out') = Len(out) - 1
      /\ \A i \in 1..Len(out') : out'[i] = out[i + 1]
      /\ f = out[1]
  BY <1>1, <1>2
<1> HIDE DEF f
<1>4. /\ DOMAIN reader' = ReaderField /\ reader'.body = "stream"
      /\ reader'.frames = Append(reader.frames, f)
      /\ reader'.at = IF Ends(f) THEN "over" ELSE "reading"
  BY <1>1, Fields DEF ReaderField
<1>5. /\ \E U : reader'.frames \in Seq(U)
      /\ Len(reader'.frames) = Len(reader.frames) + 1 /\ Len(reader.frames) \in Nat
      /\ reader'.frames[Len(reader.frames) + 1] = f
      /\ \A i \in 1..Len(reader.frames) : reader'.frames[i] = reader.frames[i]
  <2> DEFINE U == T \cup {f}
  <2>1. T \subseteq U /\ f \in U
    OBVIOUS
  <2> HIDE DEF U
  <2>2. reader.frames \in Seq(U)
    BY <1>2, <2>1, SeqMonotonic
  <2> QED BY <1>4, <2>1, <2>2
<1>6. \A t : Shown(t)' <=> Shown(t) \/ f.type = t
  <2>1. \A i \in 1..Len(reader'.frames) : i \in 1..Len(reader.frames) \/ i = Len(reader.frames) + 1
    BY <1>5
  <2>2. \A i \in 1..Len(reader.frames) : i \in 1..Len(reader'.frames)
    BY <1>5
  <2>3. Len(reader.frames) + 1 \in 1..Len(reader'.frames)
    BY <1>5
  <2> QED BY <1>5, <2>1, <2>2, <2>3 DEF Shown
<1>7. \A i \in 1..Len(out') : i + 1 \in 1..Len(out)
  BY <1>3
<1>8. 1 \in 1..Len(out) /\ \A i \in 1..Len(out) : i = 1 \/ (i - 1 \in 1..Len(out') /\ out'[i - 1] = out[i])
  BY <1>3
<1>9. \A t : Coming(t) <=> Coming(t)' \/ f.type = t
  BY <1>3, <1>7, <1>8 DEF Coming
<1>10. GatewayType'
  BY <1>0, <1>1, <1>3, <1>4, <1>5 DEF GatewayType, ReaderField
<1>11. Ends(f) => handler.at = "answered" /\ \A c \in 1..Models : upstream[c] # "open"
  BY <1>0, <1>3, <1>8 DEF Working
<1>12. Waits'
  BY <1>0, <1>1, <1>4, <1>11 DEF Waits, Early
<1>13. Working'
  BY <1>0, <1>1, <1>3, <1>4, <1>7, <1>11 DEF Working
<1>14. Explained'
  BY <1>0, <1>1, <1>4, <1>6, <1>9 DEF Explained
<1> QED BY <1>10, <1>12, <1>13, <1>14 DEF GatewayInv

\* The upstreams are closed.
Hangup == upstream' = [c \in 1..Models |-> IF upstream[c] = "open" THEN "closed" ELSE upstream[c]]
LEMMA HungUp ==
  ASSUME GatewayInv, Hangup
  PROVE  /\ upstream' \in [1..Models -> {"off", "open", "closed"}]
         /\ \A c \in 1..Models : upstream'[c] # "open"
BY DEF GatewayInv, GatewayType, Hangup

LEMMA LeavesStep ==
  ASSUME GatewayInv, ReadRaw \/ Cancel \/ Abort PROVE GatewayInv'
<1>0. GatewayType /\ Waits /\ Working /\ Explained
  BY DEF GatewayInv
<1>1. /\ upstream' \in [1..Models -> {"off", "open", "closed"}]
      /\ \A c \in 1..Models : upstream'[c] # "open"
  BY HungUp DEF ReadRaw, Cancel, Abort, Hangup
<1>2. /\ DOMAIN reader' = ReaderField /\ reader'.frames = reader.frames /\ reader'.body = reader.body
      /\ reader'.at \in {"over", "gone"} /\ UNCHANGED inference
  BY Fields DEF ReadRaw, Cancel, Abort, ReaderField
<1>3. CASE ReadRaw
  <2>1. /\ reader.at = "reading" /\ reader.body = "raw" /\ UNCHANGED <<request, handler, out>>
        /\ reader'.at = "over"
    BY <1>3, Fields DEF ReadRaw, ReaderField
  <2>2. handler.at = "answered"
    BY <1>0, <2>1 DEF Waits, GatewayType
  <2>3. GatewayType'
    BY <1>0, <1>1, <1>2, <2>1, FramesStay DEF GatewayType, ReaderField
  <2>4. Waits' /\ Working' /\ Explained'
    BY <1>0, <1>1, <1>2, <2>1, <2>2 DEF Waits, Working, Explained, Early
  <2> QED BY <2>3, <2>4 DEF GatewayInv
<1>4. CASE Cancel
  <2>1. /\ reader.at = "reading" /\ out' = <<>> /\ UNCHANGED request /\ reader'.at = "gone"
        /\ DOMAIN handler' = HandlerField /\ handler'.at = "answered" /\ handler'.index = handler.index
    BY <1>4, Handled, Fields DEF Cancel, ReaderField
  <2>2. out' \in Seq({}) /\ Len(out') = 0
    BY <2>1
  <2>3. GatewayType'
    BY <1>0, <1>1, <1>2, <2>1, <2>2 DEF GatewayType, ReaderField, HandlerField
  <2>4. Waits' /\ Working'
    BY <1>0, <1>1, <1>2, <2>1, <2>2 DEF Waits, Working, Early
  <2>5. ~Coming("failed")' /\ (Shown("failed")' <=> Shown("failed")) /\ (Shown("delta")' <=> Shown("delta"))
    BY <1>2, <2>2 DEF Coming, Shown
  <2>6. Explained'
    BY <1>0, <1>2, <2>1, <2>5 DEF Explained
  <2> QED BY <2>3, <2>4, <2>6 DEF GatewayInv
<1>5. CASE Abort
  <2>1. /\ reader.at = "waiting" /\ UNCHANGED <<handler, out>> /\ reader'.at = "gone"
        /\ request'.aborted = TRUE /\ request'.stream = request.stream
        /\ DOMAIN request' = {"protocol", "stream", "decodes", "wrong", "aborted", "kind"}
    BY <1>0, <1>5, Fields DEF Abort, ReaderField, GatewayType
  <2>2. GatewayType'
    BY <1>0, <1>1, <1>2, <2>1, FramesStay DEF GatewayType, ReaderField
  <2>3. Waits' /\ Working'
    BY <1>0, <1>1, <1>2, <2>1 DEF Waits, Working, Early
  <2>4. reader'.body # "stream"
    BY <1>0, <1>2, <2>1 DEF Waits
  <2>5. Explained'
    BY <1>0, <1>2, <2>4 DEF Explained
  <2> QED BY <2>2, <2>3, <2>5 DEF GatewayInv
<1> QED BY <1>3, <1>4, <1>5

LEMMA GatewayStep == GatewayInv /\ [GatewayNext]_gatewayVars => GatewayInv'
<1> SUFFICES ASSUME GatewayInv, [GatewayNext]_gatewayVars PROVE GatewayInv'
  OBVIOUS
<1>1. CASE UNCHANGED gatewayVars
  <2>1. GatewayType /\ Waits /\ Working /\ Explained
    BY DEF GatewayInv
  <2>2. UNCHANGED <<request, handler, upstream, inference, out, reader>>
    BY <1>1 DEF gatewayVars
  <2>3. GatewayType' /\ Waits' /\ Working'
    BY <2>1, <2>2 DEF GatewayType, Waits, Working
  <2>4. Explained'
    BY <2>1, <2>2 DEF Explained, Shown, Coming
  <2> QED BY <2>3, <2>4 DEF GatewayInv
<1> QED BY <1>1, ReceiveStep, BrokenStep, SkipStep, ExhaustedStep, CustomStep, NativeStep, SdkStep,
           FirstStep, EncodeStep, PullStep, LeavesStep DEF GatewayNext

-----------------------------------------------------------------------------
(* The instance                                                            *)

\* Whatever part of the instance moves, a job does not or does one of its steps.
LEMMA NextOfJob == [Next]_<<part, jobVars, gatewayVars, wireVars>> => [NativeJobNext]_scopeVars
BY DEF Next, jobVars

\* What a job's model is offered can be called, by its one name; what it called is in the
\* transcript once, as it ended; and nothing of the job is left when it has stopped.  For any
\* servers, tools and calls, however the servers fail, the process dies and stops come in.
THEOREM JobIsContained == Spec => []JobContained
<1>1. Init => NativeJobInv
  BY NativeJobStart DEF Init, JobInit, NoJob
<1>2. NativeJobInv /\ [Next]_<<part, jobVars, gatewayVars, wireVars>> => NativeJobInv'
  BY NativeJobStep, NextOfJob
<1>3. NativeJobInv => JobContained
  BY InvContained
<1> QED BY <1>1, <1>2, <1>3, PTL DEF Spec

\* An adapter moves in its own part only.
LEMMA NextOfAdapters ==
  [Next]_<<part, jobVars, gatewayVars, wireVars>> => [ClaudeNext]_claudeVars /\ [OpenCodeNext]_openCodeVars
BY DEF Next, jobVars

\* A steer that either SDK adapter accepted has been worked on when its turn completes: by the
\* CLI that read its whole input before it ended, or by a loop of the OpenCode server, at once
\* or when it was run again.  For any number of steers, subagents and messages, however the
\* input, the events and the end of the turn cross.
THEOREM SteersAreWorkedOn == Spec => []SteersWorkedOn
<1>1. Init => ClaudeInv /\ OpenCodeInv
  BY ClaudeStart, OpenCodeStart DEF Init, JobInit, NoJob
<1>2. ClaudeInv /\ OpenCodeInv /\ [Next]_<<part, jobVars, gatewayVars, wireVars>>
        => ClaudeInv' /\ OpenCodeInv'
  BY ClaudeStep, OpenCodeStep, NextOfAdapters
<1>3. ClaudeInv /\ OpenCodeInv => SteersWorkedOn
  BY ClaudeHears, OpenCodeWorks DEF SteersWorkedOn
<1> QED BY <1>1, <1>2, <1>3, PTL DEF Spec

\* Without a request nothing has been asked of a model and the harness read nothing.
LEMMA NothingAsked == NoRequest => FailuresContained
<1> SUFFICES ASSUME NoRequest PROVE FailuresContained
  OBVIOUS
<1>1. ErrorsBeforeOutputFallBack
  BY DEF NoRequest, ErrorsBeforeOutputFallBack
<1>2. {c \in 1..Models : upstream[c] = "open"} = {}
  BY DEF NoRequest
<1> QED BY <1>1, <1>2, FS_EmptySet DEF UpstreamsReleased, FailuresContained

\* A request is one of the gateway's part, and the other parts make none.
GatewayOfInstance ==
  \/ part = "gateway" /\ GatewayInv
  \/ part # "gateway" /\ NoRequest

\* The gateway moves in its own part only, and no step changes the part.
LEMMA NextOfGateway ==
  [Next]_<<part, jobVars, gatewayVars, wireVars>>
    => /\ part' = part /\ [GatewayNext]_gatewayVars
       /\ part # "gateway" => UNCHANGED gatewayVars
BY DEF Next

\* A stream the harness reads never fails with an error of its provider before it showed some
\* output, and a model works only for a harness that still waits or reads, one at a time.  For
\* any number of candidates, any answers, however they fail and whenever the harness leaves.
THEOREM FailuresStayContained == Spec => []FailuresContained
<1>1. Init => GatewayOfInstance
  BY GatewayStart DEF Init, GatewayOfInstance
<1>2. GatewayOfInstance /\ [Next]_<<part, jobVars, gatewayVars, wireVars>> => GatewayOfInstance'
  BY GatewayStep, NextOfGateway DEF GatewayOfInstance, NoRequest, gatewayVars
<1>3. GatewayOfInstance => FailuresContained
  BY GatewayContains, NothingAsked DEF GatewayOfInstance
<1> QED BY <1>1, <1>2, <1>3, PTL DEF Spec
=============================================================================
