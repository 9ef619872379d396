---------------------------- MODULE StreamProofs ----------------------------
(***************************************************************************)
(* Proofs about the two components of the instance Streams.                *)
(*                                                                         *)
(* EventStream, for any clients, limits and page size: its steps are steps *)
(* of Feed, and a creation stream covers its turn.  (That a client that    *)
(* follows is woken is liveness, and left to TLC.)  A stream holds the     *)
(* part of the log right before its cursor, and a client that caught up    *)
(* has seen all that comes before that part (StreamShape): so the next     *)
(* event its stream sends is either one it has seen or the very next one.  *)
(*                                                                         *)
(* Vault, for any credentials, callers and bounds.  A grant whose use is   *)
(* in doubt is held back by the row of the credential that stores it: by   *)
(* its reservation when the answer was lost, by its rejection when the     *)
(* endpoint refused it (Guarded).  That needs that no two credentials ever *)
(* share a grant, nor a call one with another credential (Apart), and that *)
(* the call a reservation waits for is not out with a grant that was lost  *)
(* before (Fresh).                                                         *)
(***************************************************************************)
EXTENDS EventStream, Vault, SequenceTheorems, TLAPS

EventType == {"created", "in_progress", "output", "turn", "idle"}
StreamType ==
  [pc : {"off", "starting", "reading", "waiting", "sending", "ended"}, cursor : Nat,
   rows : Seq(Nat), tick : BOOLEAN, initial : BOOLEAN]
ClientType == [seen : Nat, caughtUp : BOOLEAN, given : BOOLEAN]

StreamTypeOK ==
  /\ log \in Seq(EventType)
  /\ session \in [deleted : BOOLEAN, execution : BOOLEAN, turns : Nat]
  /\ stream \in [Client -> StreamType] /\ client \in [Client -> ClientType]

\* What a stream s holds, with what its client k has seen of a log of n events.
Shape(s, k, n) ==
  /\ s.cursor <= n /\ Len(s.rows) <= s.cursor
  /\ \A i \in 1..Len(s.rows) : s.rows[i] = s.cursor - Len(s.rows) + i
  /\ s.pc = "sending" <=> s.rows # <<>> /\ s.pc # "ended"
  /\ k.caughtUp => s.cursor - Len(s.rows) <= k.seen
StreamShape == \A c \in Client : Shape(stream[c], client[c], Len(log))

\* A session that was deleted runs no turn; a client was given a turn only if there is one.
SessionShape ==
  /\ session.execution => ~session.deleted
  /\ \A c \in Client : client[c].given => session.turns > 0

\* A creation stream that ended by itself has sent the event that settled its turn.
Covered(k) == \E i \in 1..k.seen : i <= Len(log) /\ log[i] = "idle"
EndedCovered == \A c \in Client : stream[c].pc = "ended" /\ client[c].given => Covered(client[c])

StreamInv == StreamTypeOK /\ StreamShape /\ SessionShape /\ EndedCovered

PageSize(after, limit) == IF Len(log) - after < limit THEN Len(log) - after ELSE limit

\* A page is the part of the log after the cursor.
LEMMA EventsFacts ==
  ASSUME log \in Seq(EventType), NEW after \in Nat, NEW limit \in Nat \ {0}
  PROVE  /\ after >= Len(log) => events(after, limit) = <<>>
         /\ after < Len(log) => /\ events(after, limit) \in Seq(Nat)
                                /\ Len(events(after, limit)) = PageSize(after, limit)
                                /\ PageSize(after, limit) \in 1..(Len(log) - after)
                                /\ \A i \in 1..PageSize(after, limit) :
                                     events(after, limit)[i] = after + i
<1> DEFINE page == events(after, limit)
           n == PageSize(after, limit)
<1>1. Len(log) \in Nat
  BY LenProperties
<1>2. n \in Int /\ n <= Len(log) - after /\ page = [i \in 1..n |-> after + i]
  BY <1>1 DEF events, PageSize
<1>3. CASE after >= Len(log)
  <2>1. 1..n = {}
    BY <1>1, <1>2, <1>3
  <2> QED BY <1>1, <1>2, <1>3, <2>1
<1>4. CASE after < Len(log)
  <2>1. n \in Nat /\ n \in 1..(Len(log) - after)
    BY <1>1, <1>4 DEF PageSize
  <2> HIDE DEF n
  <2>2. \A i \in 1..n : after + i \in Nat
    BY <2>1
  <2>3. page \in [1..n -> Nat]
    BY <1>2, <2>2
  <2>4. page \in Seq(Nat)
    BY <2>1, <2>3, SeqDef
  <2>5. Len(page) = n
    BY <1>2, <2>1, <2>4, LenProperties
  <2> QED BY <1>1, <1>2, <1>4, <2>1, <2>4, <2>5 DEF n
<1> QED BY <1>1, <1>3, <1>4

\* Appending to the log keeps what it has.
LEMMA AppendedLog ==
  ASSUME log \in Seq(EventType), NEW ev \in Seq(EventType), ev # <<>>
  PROVE  /\ log \o ev \in Seq(EventType) /\ Len(log \o ev) > Len(log)
         /\ \A i \in 1..Len(log) : (log \o ev)[i] = log[i]
         /\ SubSeq(log \o ev, 1, Len(log)) = log
<1>1. Len(log) \in Nat /\ Len(ev) \in Nat /\ Len(ev) > 0
  BY LenProperties, EmptySeq
<1>2. /\ log \o ev \in Seq(EventType) /\ Len(log \o ev) = Len(log) + Len(ev)
      /\ \A i \in 1..Len(log) + Len(ev) :
           (log \o ev)[i] = IF i <= Len(log) THEN log[i] ELSE ev[i - Len(log)]
  BY ConcatProperties
<1>3. \A i \in 1..Len(log) : (log \o ev)[i] = log[i]
  BY <1>1, <1>2
<1>4. SubSeq(log \o ev, 1, Len(log)) = log
  <2>1. /\ SubSeq(log \o ev, 1, Len(log)) \in Seq(EventType)
        /\ Len(SubSeq(log \o ev, 1, Len(log))) = Len(log)
        /\ \A i \in 1..Len(log) : SubSeq(log \o ev, 1, Len(log))[i] = (log \o ev)[i]
    BY <1>1, <1>2, SubSeqProperties
  <2> QED BY <1>3, <2>1, SeqEqual
<1> QED BY <1>1, <1>2, <1>3, <1>4

\* What is left of a page when its first event is sent.
LEMMA PageRest ==
  ASSUME NEW page \in Seq(Nat), page # <<>>
  PROVE  /\ Head(page) = page[1] /\ Tail(page) \in Seq(Nat)
         /\ Len(page) \in Nat \ {0} /\ Len(Tail(page)) = Len(page) - 1
         /\ \A i \in 1..Len(Tail(page)) : Tail(page)[i] = page[i + 1]
         /\ (Tail(page) = <<>> <=> Len(Tail(page)) = 0)
<1>1. /\ Tail(page) \in Seq(Nat) /\ Len(Tail(page)) = Len(page) - 1
      /\ \A i \in 1..Len(Tail(page)) : Tail(page)[i] = page[i + 1]
  BY HeadTailProperties
<1>2. Len(page) \in Nat \ {0} /\ (Tail(page) # <<>> => Len(Tail(page)) \in Nat \ {0})
  BY <1>1, EmptySeq
<1>3. Len(<<>>) = 0
  OBVIOUS
<1>4. Head(page) = page[1]
  OBVIOUS
<1> QED BY <1>1, <1>2, <1>3, <1>4

-----------------------------------------------------------------------------
(***************************************************************************)
(* Each step keeps the invariant and is a step of the feed.                *)
(***************************************************************************)
FeedStep == [F!Next]_(F!fvars)

\* A commit appends to the log: what streams hold and clients have seen stays where it is.
LEMMA CommitStep ==
  ASSUME StreamInv, NEW ev \in Seq(EventType), ev # <<>>, Committed(ev),
         session' \in [deleted : BOOLEAN, execution : BOOLEAN, turns : Nat],
         ~session.deleted, ~session'.deleted, session'.turns >= session.turns
  PROVE  StreamInv' /\ FeedStep
<1> USE DEF StreamInv
<1>1. log' = log \o ev /\ UNCHANGED <<stream, client>>
  BY DEF Committed
<1>2. /\ log' \in Seq(EventType) /\ Len(log') > Len(log)
      /\ \A i \in 1..Len(log) : log'[i] = log[i]
      /\ SubSeq(log', 1, Len(log)) = log /\ Len(log) \in Nat /\ Len(log') \in Nat
  BY <1>1, AppendedLog, LenProperties DEF StreamTypeOK
<1>3. StreamTypeOK'
  BY <1>1, <1>2 DEF StreamTypeOK
<1>4. \A c \in Client : stream[c].cursor \in Nat /\ client[c].seen \in Nat
  BY DEF StreamTypeOK, StreamType, ClientType
<1>5. StreamShape'
  BY <1>1, <1>2, <1>4 DEF StreamShape, Shape
<1>6. session.turns \in Nat /\ session'.turns \in Nat
  BY DEF StreamTypeOK
<1>7. SessionShape'
  BY <1>1, <1>6 DEF SessionShape
<1>8. EndedCovered'
  BY <1>1, <1>2, <1>4 DEF EndedCovered, Covered
<1>9. F!Commit
  BY <1>1, <1>2 DEF F!Commit, Following
<1> QED BY <1>3, <1>5, <1>7, <1>8, <1>9 DEF FeedStep, F!Next

\* A step of one stream and its client keeps the invariant if what it leaves is in shape.
LEMMA OneStream ==
  ASSUME StreamInv, UNCHANGED <<log, session>>, NEW c \in Client,
         stream' \in [Client -> StreamType], client' \in [Client -> ClientType],
         \A d \in Client : d # c => stream'[d] = stream[d] /\ client'[d] = client[d],
         Shape(stream'[c], client'[c], Len(log)),
         client'[c].given => session.turns > 0,
         stream'[c].pc = "ended" /\ client'[c].given => Covered(client'[c])
  PROVE  StreamInv'
<1> USE DEF StreamInv
<1>1. StreamTypeOK' /\ SessionShape'
  BY DEF StreamTypeOK, SessionShape
<1>2. StreamShape'
  <2> SUFFICES ASSUME NEW d \in Client PROVE Shape(stream'[d], client'[d], Len(log))
    BY DEF StreamShape
  <2>1. CASE d = c
    BY <2>1
  <2>2. CASE d # c
    BY <2>2 DEF StreamShape
  <2> QED BY <2>1, <2>2
<1>3. EndedCovered'
  BY DEF EndedCovered, Covered
<1> QED BY <1>1, <1>2, <1>3

\* It is a step of the feed if its client sees nothing new, or sees the next event and
\* does not join with it.
LEMMA OneView ==
  ASSUME StreamInv, UNCHANGED <<log, session>>, NEW c \in Client,
         client' \in [Client -> ClientType],
         \A d \in Client : d # c => stream'[d] = stream[d] /\ client'[d] = client[d],
         \/ client'[c].seen = client[c].seen
         \/ /\ client'[c].seen = client[c].seen + 1 /\ client[c].seen < Len(log)
            /\ Following(c)' => Following(c)
  PROVE  FeedStep
<1> DEFINE joined == {d \in Client : Following(d)}
           view == [d \in Client |-> client[d].seen]
<1>1. \A d \in Client : d # c => (Following(d)' <=> Following(d))
  BY DEF Following
<1>2. CASE client'[c].seen = client[c].seen
  <2>1. view' = view
    BY <1>2
  <2>2. CASE Following(c)'
    <3>1. joined' = joined \cup {c}
      BY <1>1, <2>2
    <3> QED BY <2>1, <3>1 DEF FeedStep, F!Next, F!Join
  <2>3. CASE ~Following(c)'
    <3>1. joined' = joined \ {c}
      BY <1>1, <2>3
    <3>2. joined' \in SUBSET joined
      BY <3>1
    <3> QED BY <2>1, <3>2 DEF FeedStep, F!Next, F!Leave
  <2> QED BY <2>2, <2>3
<1>3. CASE /\ client'[c].seen = client[c].seen + 1 /\ client[c].seen < Len(log)
           /\ Following(c)' => Following(c)
  <2>1. view' = [view EXCEPT ![c] = @ + 1] /\ view[c] < Len(log)
    BY <1>3
  <2>2. joined' \in {joined, joined \ {c}}
    <3>1. CASE Following(c)'
      <4>1. joined' = joined
        BY <1>1, <1>3, <3>1
      <4> QED BY <4>1
    <3>2. CASE ~Following(c)'
      <4>1. joined' = joined \ {c}
        BY <1>1, <3>2
      <4> QED BY <4>1
    <3> QED BY <3>1, <3>2
  <2>3. F!Read(c)
    BY <2>1, <2>2 DEF F!Read
  <2> QED BY <2>3 DEF FeedStep, F!Next
<1> QED BY <1>2, <1>3

\* Streams that are all touched at once: a wake-up, or the end of every stream.
LEMMA EveryStream ==
  ASSUME StreamInv, UNCHANGED <<log, session>>,
         stream' \in [Client -> StreamType], client' \in [Client -> ClientType],
         \A c \in Client :
           /\ client'[c].seen = client[c].seen /\ client'[c].given = client[c].given
           /\ Shape(stream'[c], client'[c], Len(log))
           /\ stream'[c].pc = "ended" => stream[c].pc = "ended"
           /\ Following(c)' => Following(c)
  PROVE  StreamInv' /\ FeedStep
<1> USE DEF StreamInv
<1>1. StreamTypeOK' /\ SessionShape' /\ StreamShape' /\ EndedCovered'
  BY DEF StreamTypeOK, SessionShape, StreamShape, EndedCovered, Covered
<1>2. F!Leave
  <2> DEFINE joined == {d \in Client : Following(d)}
             view == [d \in Client |-> client[d].seen]
  <2>1. view' = view /\ joined' \in SUBSET joined
    OBVIOUS
  <2> QED BY <2>1 DEF F!Leave
<1> QED BY <1>1, <1>2 DEF FeedStep, F!Next

\* A stream that is off holds nothing.
LEMMA OffFacts ==
  ASSUME NEW k \in ClientType, NEW n \in Nat
  PROVE  Off \in StreamType /\ Off.pc = "off" /\ Shape(Off, k, n)
<1>1. <<>> \in Seq(Nat) /\ Len(<<>>) = 0
  BY EmptySeq
<1>2. /\ Off \in StreamType /\ Off.pc = "off" /\ Off.rows = <<>> /\ Off.cursor = 0
  BY <1>1 DEF Off, StreamType
<1>3. k.seen \in Nat
  BY DEF ClientType
<1> QED BY <1>1, <1>2, <1>3 DEF Shape

\* A wake-up moves no cursor.
LEMMA WakeStep == ASSUME StreamInv, Wake PROVE StreamInv' /\ FeedStep
<1> USE DEF StreamInv
<1>1. ASSUME NEW c \in Client
      PROVE  /\ stream'[c] \in StreamType /\ stream'[c].pc = stream[c].pc
             /\ stream'[c].cursor = stream[c].cursor /\ stream'[c].rows = stream[c].rows
  BY DEF Wake, Publish, StreamTypeOK, StreamType
<1>2. stream' \in [Client -> StreamType]
  BY <1>1 DEF Wake
<1>3. UNCHANGED <<log, session, client>>
  BY DEF Wake
<1>4. ASSUME NEW c \in Client
      PROVE  Shape(stream'[c], client'[c], Len(log)) /\ (Following(c)' => Following(c))
  BY <1>1, <1>3 DEF StreamShape, Shape, Following
<1> QED BY <1>1, <1>2, <1>3, <1>4, EveryStream DEF StreamTypeOK

\* A deletion waits for the turn to end.
LEMMA DeleteStep == ASSUME StreamInv, Delete PROVE StreamInv' /\ FeedStep
<1> USE DEF StreamInv
<1>1. /\ session' \in [deleted : BOOLEAN, execution : BOOLEAN, turns : Nat]
      /\ session'.deleted = TRUE /\ session'.execution = session.execution
      /\ session'.turns = session.turns /\ ~session.execution
      /\ UNCHANGED <<log, stream, client>>
  BY DEF Delete, StreamTypeOK
<1>2. StreamTypeOK' /\ StreamShape' /\ SessionShape' /\ EndedCovered'
  BY <1>1 DEF StreamTypeOK, StreamShape, SessionShape, EndedCovered, Covered
<1>3. F!Close
  BY <1>1 DEF F!Close, Following
<1> QED BY <1>2, <1>3 DEF FeedStep, F!Next

\* The end of every stream takes nothing from what a client has seen.
LEMMA EndAllStep ==
  ASSUME StreamInv, CloseStreams \/ Evict
  PROVE  StreamInv' /\ FeedStep
<1> USE DEF StreamInv
<1>1. UNCHANGED <<log, session>> /\ stream' = [c \in Client |-> Off] /\ Len(log) \in Nat
  BY LenProperties DEF CloseStreams, Evict, StreamTypeOK
<1>2. ASSUME NEW c \in Client
      PROVE  /\ client'[c] \in ClientType
             /\ client'[c].seen = client[c].seen /\ client'[c].given = client[c].given
  <2>1. client[c] \in ClientType
    BY DEF StreamTypeOK
  <2>2. CASE CloseStreams
    BY <2>1, <2>2 DEF CloseStreams
  <2>3. CASE Evict
    <3>1. client'[c] = [client[c] EXCEPT !.caughtUp = FALSE]
      BY <2>3 DEF Evict
    <3> QED BY <2>1, <3>1 DEF ClientType
  <2> QED BY <2>2, <2>3
<1>3. client' \in [Client -> ClientType]
  BY <1>2 DEF CloseStreams, Evict, StreamTypeOK
<1>4. ASSUME NEW c \in Client
      PROVE  /\ stream'[c] \in StreamType /\ stream'[c].pc = "off"
             /\ Shape(stream'[c], client'[c], Len(log)) /\ ~Following(c)'
  BY <1>1, <1>2, OffFacts DEF Following, Live
<1>5. stream' \in [Client -> StreamType]
  BY <1>1, <1>4
<1> QED BY <1>1, <1>2, <1>3, <1>4, <1>5, EveryStream

\* The purge comes when no stream is left.
LEMMA PurgeStep == ASSUME StreamInv, Purge PROVE StreamInv' /\ FeedStep
<1> USE DEF StreamInv
<1>1. /\ session.deleted /\ log' = <<>> /\ UNCHANGED <<session, stream, client>>
      /\ \A c \in Client : stream[c] = Off
  BY DEF Purge
<1>2. log' \in Seq(EventType) /\ Len(log') = 0
  BY <1>1, EmptySeq
<1>3. StreamTypeOK' /\ SessionShape'
  BY <1>1, <1>2 DEF StreamTypeOK, SessionShape
<1>4. ASSUME NEW c \in Client
      PROVE  stream[c].pc = "off" /\ Shape(stream[c], client[c], Len(log'))
  BY <1>1, <1>2, OffFacts DEF StreamTypeOK
<1>5. StreamShape' /\ EndedCovered'
  BY <1>1, <1>4 DEF StreamShape, EndedCovered
<1>6. F!Drop
  <2>1. {c \in Client : Following(c)} = {}
    BY <1>4 DEF Following, Live
  <2> QED BY <1>1, <2>1 DEF F!Drop, Following
<1> QED BY <1>3, <1>5, <1>6 DEF FeedStep, F!Next

-----------------------------------------------------------------------------
(***************************************************************************)
(* The steps of one stream                                                 *)
(***************************************************************************)
\* A stream begins at the end of the log, or before its first event.
LEMMA OpenStep ==
  ASSUME StreamInv, NEW c \in Client, NEW initial \in BOOLEAN, Open(c, initial)
  PROVE  StreamInv' /\ FeedStep
<1> USE DEF StreamInv
<1> DEFINE start == IF initial THEN 0 ELSE Len(log)
           s == [Off EXCEPT !.pc = "starting", !.initial = initial, !.cursor = start]
           given == initial /\ session.turns > 0
<1>1. UNCHANGED <<log, session>> /\ stream' = [stream EXCEPT ![c] = s]
      /\ client' = [client EXCEPT ![c].caughtUp = initial, ![c].given = given]
      /\ ~Following(c)
  BY DEF Open, Following, Live
<1>2. start \in Nat /\ start <= Len(log) /\ given \in BOOLEAN /\ (initial => start = 0)
  BY LenProperties DEF StreamTypeOK
<1>3. <<>> \in Seq(Nat) /\ Len(<<>>) = 0
  BY EmptySeq
<1> HIDE DEF start
<1>4. s \in StreamType /\ s.pc = "starting" /\ s.cursor = start /\ s.rows = <<>>
  BY <1>2, <1>3 DEF Off, StreamType
<1> HIDE DEF s
<1>5. given => session.turns > 0
  OBVIOUS
<1> HIDE DEF given
<1>6. stream' \in [Client -> StreamType] /\ stream'[c] = s
      /\ \A d \in Client : d # c => stream'[d] = stream[d]
  BY <1>1, <1>4 DEF StreamTypeOK
<1>7. /\ client' \in [Client -> ClientType]
      /\ client'[c].caughtUp = initial /\ client'[c].given = given
      /\ client'[c].seen = client[c].seen /\ client[c].seen \in Nat
      /\ \A d \in Client : d # c => client'[d] = client[d]
  BY <1>1, <1>2 DEF StreamTypeOK, ClientType
<1>8. Shape(stream'[c], client'[c], Len(log))
  BY <1>2, <1>3, <1>4, <1>6, <1>7 DEF Shape
<1>9. StreamInv'
  BY <1>1, <1>4, <1>5, <1>6, <1>7, <1>8, OneStream
<1>10. FeedStep
  BY <1>1, <1>6, <1>7, OneView
<1> QED BY <1>9, <1>10

\* A step that only moves the fiber.
LEMMA MoveStep ==
  ASSUME StreamInv, NEW c \in Client, UNCHANGED <<log, session, client>>,
         stream' \in [Client -> StreamType],
         \A d \in Client : d # c => stream'[d] = stream[d],
         stream'[c].pc # "ended", Shape(stream'[c], client[c], Len(log))
  PROVE  StreamInv' /\ FeedStep
<1>1. client' \in [Client -> ClientType] /\ (client[c].given => session.turns > 0)
  BY DEF StreamInv, StreamTypeOK, SessionShape
<1> QED BY <1>1, OneStream, OneView

\* A fiber begins where its stream was opened.
LEMMA BeginStep ==
  ASSUME StreamInv, NEW c \in Client, Begin(c) \/ TakeTick(c)
  PROVE  StreamInv' /\ FeedStep
<1> USE DEF StreamInv
<1>1. /\ UNCHANGED <<log, session, client>> /\ stream' \in [Client -> StreamType]
      /\ \A d \in Client : d # c => stream'[d] = stream[d]
      /\ stream'[c].pc = "reading" /\ stream[c].pc \in {"starting", "waiting"}
      /\ stream'[c].cursor = stream[c].cursor /\ stream'[c].rows = stream[c].rows
  <2>1. CASE Begin(c)
    BY <2>1 DEF Begin, StreamTypeOK, StreamType
  <2>2. CASE TakeTick(c)
    BY <2>2 DEF TakeTick, StreamTypeOK, StreamType
  <2> QED BY <2>1, <2>2
<1>2. Shape(stream'[c], client[c], Len(log))
  BY <1>1 DEF StreamShape, Shape
<1> QED BY <1>1, <1>2, MoveStep

\* A page that is read ends where the cursor goes.
LEMMA ReadPageStep ==
  ASSUME StreamInv, NEW c \in Client, ReadPage(c)
  PROVE  StreamInv' /\ FeedStep
<1> USE DEF StreamInv
<1> DEFINE after == stream[c].cursor
           page == events(after, EVENT_PAGE)
           n == PageSize(after, EVENT_PAGE)
<1>1. UNCHANGED <<log, session, client>> /\ stream[c].pc = "reading"
  BY DEF ReadPage
<1>2. /\ after \in Nat /\ Len(log) \in Nat /\ after <= Len(log) /\ stream[c].rows = <<>>
      /\ Len(stream[c].rows) = 0 /\ client[c].seen \in Nat
      /\ (client[c].caughtUp => after <= client[c].seen)
  <2>1. /\ stream[c] \in StreamType /\ client[c] \in ClientType /\ log \in Seq(EventType)
        /\ Shape(stream[c], client[c], Len(log))
    BY DEF StreamTypeOK, StreamShape
  <2>2. after \in Nat /\ client[c].seen \in Nat /\ Len(log) \in Nat
    BY <2>1, LenProperties DEF StreamType, ClientType
  <2>3. stream[c].rows = <<>> /\ Len(stream[c].rows) = 0
    BY <1>1, <2>1, EmptySeq DEF Shape
  <2> QED BY <2>1, <2>2, <2>3 DEF Shape
<1>3. /\ after >= Len(log) => page = <<>>
      /\ after < Len(log) => /\ page \in Seq(Nat) /\ Len(page) = n /\ n \in 1..(Len(log) - after)
                             /\ \A i \in 1..n : page[i] = after + i
  <2>1. log \in Seq(EventType) /\ EVENT_PAGE \in Nat \ {0}
    BY StreamAssumption DEF StreamTypeOK
  <2> QED BY <1>2, <2>1, EventsFacts
<1>4. page # <<>> <=> after < Len(log)
  BY <1>2, <1>3, EmptySeq
<1>5. CASE page = <<>>
  <2>1. stream' = [stream EXCEPT ![c].pc = "waiting"]
    BY <1>5 DEF ReadPage
  <2>2. /\ stream' \in [Client -> StreamType]
        /\ \A d \in Client : d # c => stream'[d] = stream[d]
        /\ stream'[c].pc = "waiting" /\ stream'[c].cursor = after
        /\ stream'[c].rows = stream[c].rows
    BY <2>1 DEF StreamTypeOK, StreamType
  <2>3. Shape(stream'[c], client[c], Len(log))
    BY <1>2, <2>2 DEF Shape
  <2> QED BY <1>1, <2>2, <2>3, MoveStep
<1>6. CASE page # <<>>
  <2> DEFINE last == page[Len(page)]
  <2>1. last = after + n /\ last \in Nat /\ page \in Seq(Nat) /\ Len(page) = n /\ n \in Nat
    BY <1>2, <1>3, <1>4, <1>6
  <2>2. stream' = [stream EXCEPT ![c].pc = "sending", ![c].rows = page, ![c].cursor = last]
    BY <1>6 DEF ReadPage
  <2> HIDE DEF last, page
  <2>3. /\ stream' \in [Client -> StreamType]
        /\ \A d \in Client : d # c => stream'[d] = stream[d]
        /\ stream'[c].pc = "sending" /\ stream'[c].cursor = last /\ stream'[c].rows = page
    <3>1. stream \in [Client -> StreamType] /\ stream[c] \in StreamType
      BY DEF StreamTypeOK
    <3> DEFINE s == [stream[c] EXCEPT !.pc = "sending", !.rows = page, !.cursor = last]
    <3>2. /\ s \in StreamType /\ s.pc = "sending" /\ s.cursor = last /\ s.rows = page
      BY ONLY <2>1, <3>1 DEF StreamType
    <3>3. stream' = [stream EXCEPT ![c] = s]
      BY ONLY <2>2, <3>1
    <3> HIDE DEF s
    <3> QED BY ONLY <3>1, <3>2, <3>3
  <2> HIDE DEF n, after
  <2>4. Shape(stream'[c], client[c], Len(log))
    <3>1. /\ last = after + n /\ Len(page) = n /\ page # <<>> /\ n \in 1..(Len(log) - after)
          /\ after \in Nat /\ Len(log) \in Nat
          /\ \A i \in 1..n : page[i] = after + i
      BY <1>2, <1>3, <1>4, <1>6, <2>1
    <3>2. /\ last <= Len(log) /\ n <= last /\ last - n = after
          /\ \A i \in 1..n : page[i] = last - n + i
      BY ONLY <3>1
    <3>3. client[c].caughtUp => after <= client[c].seen
      BY <1>2
    <3> QED BY ONLY <2>3, <3>1, <3>2, <3>3 DEF Shape
  <2> QED BY <1>1, <2>3, <2>4, MoveStep
<1> QED BY <1>5, <1>6

\* An event that is pulled is the next one, or was seen before.
LEMMA SendStep ==
  ASSUME StreamInv, NEW c \in Client, Send(c)
  PROVE  StreamInv' /\ FeedStep
<1> USE DEF StreamInv
<1> DEFINE page == stream[c].rows
           seq == Head(page)
           rest == Tail(page)
           settled == stream[c].initial /\ initialSettled(log[seq])
           pc == IF settled THEN "ended" ELSE IF rest = <<>> THEN "reading" ELSE "sending"
           seen == IF seq > client[c].seen THEN seq ELSE client[c].seen
<1>1. /\ UNCHANGED <<log, session>> /\ stream[c].pc = "sending" /\ client[c].caughtUp
      /\ stream' = [stream EXCEPT ![c].rows = rest, ![c].pc = pc]
  BY DEF Send
<1>2. client' = [client EXCEPT ![c].seen = seen]
  BY DEF Send
<1>3. /\ stream[c] \in StreamType /\ client[c] \in ClientType /\ log \in Seq(EventType)
      /\ Shape(stream[c], client[c], Len(log))
  BY DEF StreamTypeOK, StreamShape
<1>4. /\ stream[c].cursor \in Nat /\ page \in Seq(Nat) /\ client[c].seen \in Nat
      /\ Len(log) \in Nat /\ page # <<>>
  BY <1>1, <1>3, LenProperties DEF StreamType, ClientType, Shape
<1>5. /\ seq = page[1] /\ rest \in Seq(Nat) /\ Len(rest) = Len(page) - 1
      /\ Len(page) \in Nat \ {0} /\ \A i \in 1..Len(rest) : rest[i] = page[i + 1]
      /\ (rest = <<>> <=> Len(rest) = 0)
  BY <1>4, PageRest
<1>6. /\ stream[c].cursor <= Len(log) /\ Len(page) <= stream[c].cursor
      /\ \A i \in 1..Len(page) : page[i] = stream[c].cursor - Len(page) + i
      /\ stream[c].cursor - Len(page) <= client[c].seen
  BY <1>1, <1>3 DEF Shape
<1> HIDE DEF page, seq, rest
<1>7. /\ seq = stream[c].cursor - Len(page) + 1 /\ seq \in 1..Len(log)
      /\ seq <= client[c].seen + 1
  <2>1. 1 \in 1..Len(page)
    BY <1>5
  <2>2. seq = stream[c].cursor - Len(page) + 1
    BY <1>5, <1>6, <2>1
  <2>3. /\ stream[c].cursor \in Nat /\ client[c].seen \in Nat /\ Len(log) \in Nat
        /\ Len(page) \in Nat \ {0}
    BY <1>4, <1>5
  <2>4. /\ stream[c].cursor <= Len(log) /\ Len(page) <= stream[c].cursor
        /\ stream[c].cursor - Len(page) <= client[c].seen
    BY <1>6
  <2> QED BY <2>2, <2>3, <2>4
<1>8. seen \in Nat /\ seq <= seen
      /\ (seen = client[c].seen \/ (seen = client[c].seen + 1 /\ client[c].seen < Len(log)))
  <2> DEFINE k == client[c].seen
             n == Len(log)
  <2>1. seq \in Nat /\ seq <= n /\ k \in Nat /\ n \in Nat /\ seq <= k + 1
    BY <1>4, <1>7
  <2> HIDE DEF k, n
  <2>2. seq > k => seq = k + 1 /\ k < n
    BY ONLY <2>1
  <2>3. ~(seq > k) => seq <= k
    BY ONLY <2>1
  <2> QED BY <2>1, <2>2, <2>3 DEF k, n
<1>9. pc \in {"reading", "sending", "ended"}
      /\ (pc = "sending" => rest # <<>>) /\ (pc = "reading" => rest = <<>>)
      /\ (pc = "ended" => stream[c].initial /\ initialSettled(log[seq]))
  OBVIOUS
<1> HIDE DEF settled, pc, seen
<1>10. /\ stream' \in [Client -> StreamType]
       /\ \A d \in Client : d # c => stream'[d] = stream[d]
       /\ stream'[c].pc = pc /\ stream'[c].rows = rest /\ stream'[c].cursor = stream[c].cursor
  <2>1. stream \in [Client -> StreamType] /\ stream[c] \in StreamType
    BY <1>3 DEF StreamTypeOK
  <2> DEFINE s == [stream[c] EXCEPT !.rows = rest, !.pc = pc]
  <2>2. /\ s \in StreamType /\ s.pc = pc /\ s.rows = rest /\ s.cursor = stream[c].cursor
    BY ONLY <1>5, <1>9, <2>1 DEF StreamType
  <2>3. stream' = [stream EXCEPT ![c] = s]
    BY ONLY <1>1, <2>1
  <2> HIDE DEF s
  <2> QED BY ONLY <2>1, <2>2, <2>3
<1>11. /\ client' \in [Client -> ClientType]
       /\ \A d \in Client : d # c => client'[d] = client[d]
       /\ client'[c].seen = seen /\ client'[c].caughtUp = client[c].caughtUp
       /\ client'[c].given = client[c].given
  BY <1>2, <1>8 DEF StreamTypeOK, ClientType
<1>12. Shape(stream'[c], client'[c], Len(log))
  <2>1. ASSUME NEW i \in 1..Len(rest) PROVE rest[i] = stream[c].cursor - Len(rest) + i
    <3>1. i + 1 \in 1..Len(page) /\ rest[i] = page[i + 1]
      BY <1>5
    <3>2. rest[i] = stream[c].cursor - Len(page) + (i + 1)
      BY <1>6, <3>1
    <3>3. stream[c].cursor \in Nat /\ Len(page) \in Nat \ {0} /\ Len(rest) = Len(page) - 1
      BY <1>4, <1>5
    <3>4. i \in Nat
      BY <3>3
    <3>5. stream[c].cursor - Len(page) + (i + 1) = stream[c].cursor - Len(rest) + i
      <4> HIDE DEF page, rest
      <4> QED BY ONLY <3>3, <3>4
    <3> QED BY ONLY <3>1, <3>2, <3>5
  <2>2. Len(rest) <= stream[c].cursor /\ stream[c].cursor - Len(rest) <= seen
    <3>1. stream[c].cursor \in Nat /\ Len(page) \in Nat \ {0} /\ Len(rest) = Len(page) - 1
      BY <1>4, <1>5
    <3>2. Len(page) <= stream[c].cursor
      BY <1>6
    <3>3. seq = stream[c].cursor - Len(page) + 1 /\ seq \in Nat /\ seen \in Nat /\ seq <= seen
      BY <1>7, <1>8
    <3> QED BY <3>1, <3>2, <3>3
  <2> QED BY <1>6, <1>9, <1>10, <1>11, <2>1, <2>2 DEF Shape
<1>13. ASSUME stream'[c].pc = "ended", client'[c].given PROVE Covered(client'[c])
  <2>1. initialSettled(log[seq]) /\ session.turns > 0 /\ session.turns \in Nat
    BY <1>9, <1>10, <1>11, <1>13 DEF SessionShape, StreamTypeOK
  <2>2. log[seq] = "idle"
    BY <2>1 DEF initialSettled
  <2>3. seq \in 1..client'[c].seen /\ seq <= Len(log)
    BY <1>7, <1>8, <1>11
  <2> QED BY <2>2, <2>3, <1>1 DEF Covered
<1>14. StreamInv'
  BY <1>1, <1>10, <1>11, <1>12, <1>13, OneStream DEF SessionShape
<1>15. FeedStep
  <2>1. Following(c)
    BY <1>1 DEF Following, Live
  <2> QED BY <1>1, <1>8, <1>10, <1>11, <2>1, OneView
<1> QED BY <1>14, <1>15

\* A replay reads the next event, or finds that the client has seen them all.
LEMMA ReplayStep ==
  ASSUME StreamInv, NEW c \in Client, Replay(c)
  PROVE  StreamInv' /\ FeedStep
<1> USE DEF StreamInv
<1> DEFINE page == events(client[c].seen, 1)
<1>1. UNCHANGED <<log, session, stream>> /\ ~client[c].caughtUp
  BY DEF Replay
<1>2. /\ stream[c] \in StreamType /\ client[c] \in ClientType /\ log \in Seq(EventType)
      /\ Shape(stream[c], client[c], Len(log))
  BY DEF StreamTypeOK, StreamShape
<1>3. /\ stream[c].cursor \in Nat /\ client[c].seen \in Nat /\ Len(log) \in Nat
      /\ Len(stream[c].rows) \in Nat /\ 1 \in Nat \ {0}
  BY <1>2, LenProperties DEF StreamType, ClientType
<1>4. /\ client[c].seen >= Len(log) => page = <<>>
      /\ client[c].seen < Len(log) => page # <<>> /\ page[1] = client[c].seen + 1
  <2>1. client[c].seen >= Len(log) => page = <<>>
    BY <1>2, <1>3, EventsFacts
  <2>2. ASSUME client[c].seen < Len(log) PROVE page # <<>> /\ page[1] = client[c].seen + 1
    <3> DEFINE n == PageSize(client[c].seen, 1)
    <3>1. /\ page \in Seq(Nat) /\ Len(page) = n /\ n \in 1..(Len(log) - client[c].seen)
          /\ \A i \in 1..n : page[i] = client[c].seen + i
      BY <1>2, <1>3, <2>2, EventsFacts
    <3> HIDE DEF n, page
    <3>2. 1 \in 1..n /\ n # 0
      BY <1>3, <3>1
    <3> QED BY <1>3, <3>1, <3>2, EmptySeq
  <2> QED BY <2>1, <2>2
<1>5. CASE page = <<>>
  <2>1. client' = [client EXCEPT ![c].caughtUp = TRUE]
    BY <1>5 DEF Replay
  <2>2. /\ client' \in [Client -> ClientType]
        /\ \A d \in Client : d # c => client'[d] = client[d]
        /\ client'[c].seen = client[c].seen /\ client'[c].given = client[c].given
    BY <2>1 DEF StreamTypeOK, ClientType
  <2>3. client[c].seen >= Len(log)
    BY <1>3, <1>4, <1>5
  <2>4. Shape(stream'[c], client'[c], Len(log))
    BY <1>1, <1>2, <1>3, <2>2, <2>3 DEF Shape
  <2>5. stream[c].pc = "ended" /\ client'[c].given => Covered(client'[c])
    BY <1>1, <2>2 DEF EndedCovered, Covered
  <2>6. StreamInv'
    BY <1>1, <2>2, <2>4, <2>5, OneStream DEF StreamTypeOK, SessionShape
  <2> QED BY <1>1, <2>2, <2>6, OneView
<1>6. CASE page # <<>>
  <2>1. client' = [client EXCEPT ![c].seen = page[1]]
    BY <1>6 DEF Replay
  <2>2. client[c].seen < Len(log) /\ page[1] = client[c].seen + 1
    BY <1>3, <1>4, <1>6
  <2>3. client' = [client EXCEPT ![c].seen = client[c].seen + 1]
    BY <2>1, <2>2
  <2>4. /\ client' \in [Client -> ClientType]
        /\ \A d \in Client : d # c => client'[d] = client[d]
        /\ client'[c].seen = client[c].seen + 1 /\ client'[c].given = client[c].given
        /\ client'[c].caughtUp = client[c].caughtUp
    <3> DEFINE next == client[c].seen + 1
    <3>1. next \in Nat /\ client' = [client EXCEPT ![c].seen = next]
      BY <1>3, <2>3
    <3> HIDE DEF next
    <3>2. /\ client' \in [Client -> ClientType]
          /\ \A d \in Client : d # c => client'[d] = client[d]
          /\ client'[c].seen = next /\ client'[c].given = client[c].given
          /\ client'[c].caughtUp = client[c].caughtUp
      BY <3>1 DEF StreamTypeOK, ClientType
    <3> QED BY <3>2 DEF next
  <2>5. Shape(stream'[c], client'[c], Len(log))
    BY <1>1, <1>2, <1>3, <2>4 DEF Shape
  <2>6. stream[c].pc = "ended" /\ client'[c].given => Covered(client'[c])
    <3> SUFFICES ASSUME stream[c].pc = "ended", client'[c].given PROVE Covered(client'[c])
      OBVIOUS
    <3>1. PICK i \in 1..client[c].seen : i <= Len(log) /\ log[i] = "idle"
      BY <2>4 DEF EndedCovered, Covered
    <3>2. i \in 1..client'[c].seen
      BY <1>3, <2>4
    <3> QED BY <3>1, <3>2 DEF Covered
  <2>7. StreamInv'
    BY <1>1, <2>4, <2>5, <2>6, OneStream DEF StreamTypeOK, SessionShape
  <2>8. Following(c)' => Following(c)
    BY <1>1, <2>4 DEF Following
  <2> QED BY <1>1, <2>2, <2>4, <2>7, <2>8, OneView
<1> QED BY <1>5, <1>6

\* A client that goes away leaves the feed.
LEMMA CancelStep ==
  ASSUME StreamInv, NEW c \in Client, Cancel(c)
  PROVE  StreamInv' /\ FeedStep
<1> USE DEF StreamInv
<1>1. UNCHANGED <<log, session>> /\ stream' = [stream EXCEPT ![c] = Off]
      /\ client' = [client EXCEPT ![c].caughtUp = FALSE]
  BY DEF Cancel
<1>2. /\ client' \in [Client -> ClientType]
      /\ \A d \in Client : d # c => client'[d] = client[d]
      /\ client'[c].seen = client[c].seen /\ client'[c].given = client[c].given
  BY <1>1 DEF StreamTypeOK, ClientType
<1>3. Len(log) \in Nat /\ client'[c] \in ClientType
  BY <1>2, LenProperties DEF StreamTypeOK
<1>4. Off \in StreamType /\ Off.pc = "off" /\ Shape(Off, client'[c], Len(log))
  BY <1>3, OffFacts
<1>5. /\ stream' \in [Client -> StreamType] /\ stream'[c] = Off
      /\ \A d \in Client : d # c => stream'[d] = stream[d]
  BY <1>1, <1>4 DEF StreamTypeOK
<1>6. StreamInv'
  BY <1>1, <1>2, <1>4, <1>5, OneStream DEF SessionShape
<1> QED BY <1>1, <1>2, <1>5, <1>6, OneView

-----------------------------------------------------------------------------
\* A session begins with its creation, and nobody follows it yet.
LEMMA StreamInvInit == Init => StreamInv /\ F!Init
<1> SUFFICES ASSUME Init PROVE StreamInv /\ F!Init
  OBVIOUS
<1>1. /\ session \in [deleted : BOOLEAN, execution : BOOLEAN, turns : Nat] /\ ~session.deleted
      /\ stream = [c \in Client |-> Off]
      /\ client = [c \in Client |-> [seen |-> 0, caughtUp |-> FALSE, given |-> FALSE]]
  <2>1. PICK b \in BOOLEAN :
          session = [deleted |-> FALSE, execution |-> b, turns |-> IF b THEN 1 ELSE 0]
    BY DEF Init
  <2> DEFINE n == IF b THEN 1 ELSE 0
  <2>2. n \in Nat /\ session = [deleted |-> FALSE, execution |-> b, turns |-> n]
    BY <2>1
  <2> HIDE DEF n
  <2>3. session \in [deleted : BOOLEAN, execution : BOOLEAN, turns : Nat] /\ ~session.deleted
    BY <2>2
  <2> QED BY <2>3 DEF Init
<1>2. log \in Seq(EventType) /\ Len(log) \in Nat
  <2>1. <<"created", "in_progress">> \in Seq(EventType) /\ <<"created">> \in Seq(EventType)
    BY DEF EventType
  <2>2. log \in Seq(EventType)
    BY <2>1 DEF Init
  <2> QED BY <2>2, LenProperties
<1>3. ASSUME NEW c \in Client
      PROVE  /\ client[c] \in ClientType /\ client[c].seen = 0
             /\ ~client[c].caughtUp /\ ~client[c].given
  BY <1>1 DEF ClientType
<1>4. ASSUME NEW c \in Client
      PROVE  /\ stream[c] \in StreamType /\ stream[c].pc = "off"
             /\ Shape(stream[c], client[c], Len(log))
  BY <1>1, <1>2, <1>3, OffFacts
<1>5. StreamTypeOK
  BY <1>1, <1>2, <1>3, <1>4 DEF StreamTypeOK
<1>6. StreamShape /\ SessionShape /\ EndedCovered
  BY <1>1, <1>3, <1>4 DEF StreamShape, SessionShape, EndedCovered
<1>7. F!Init
  <2>1. {c \in Client : Following(c)} = {}
    BY <1>3 DEF Following
  <2>2. [c \in Client |-> client[c].seen] = [c \in Client |-> 0]
    BY <1>3
  <2> QED BY <1>1, <1>2, <2>1, <2>2 DEF F!Init
<1> QED BY <1>5, <1>6, <1>7 DEF StreamInv

\* The transactions append what they say.
LEMMA TurnStep ==
  ASSUME StreamInv, Input \/ Output \/ Settle
  PROVE  StreamInv' /\ FeedStep
<1>1. /\ session \in [deleted : BOOLEAN, execution : BOOLEAN, turns : Nat]
      /\ session.execution => ~session.deleted
  BY DEF StreamInv, StreamTypeOK, SessionShape
<1>2. /\ <<"in_progress">> \in Seq(EventType) /\ <<"output">> \in Seq(EventType)
      /\ <<"turn", "idle">> \in Seq(EventType)
      /\ <<"in_progress">> # <<>> /\ <<"output">> # <<>> /\ <<"turn", "idle">> # <<>>
  BY DEF EventType
<1>3. CASE Input
  <2>1. /\ session' \in [deleted : BOOLEAN, execution : BOOLEAN, turns : Nat]
        /\ session'.deleted = session.deleted /\ session'.turns = session.turns + 1
    <3> DEFINE n == session.turns + 1
    <3>1. n \in Nat /\ session' = [session EXCEPT !.execution = TRUE, !.turns = n]
      BY <1>1, <1>3 DEF Input
    <3> HIDE DEF n
    <3>2. /\ session' \in [deleted : BOOLEAN, execution : BOOLEAN, turns : Nat]
          /\ session'.deleted = session.deleted /\ session'.turns = n
      BY <1>1, <3>1
    <3> QED BY <3>2 DEF n
  <2>2. ~session.deleted /\ Committed(<<"in_progress">>)
    BY <1>3 DEF Input
  <2>3. session'.turns >= session.turns
    BY <1>1, <2>1
  <2> QED BY <1>2, <2>1, <2>2, <2>3, CommitStep
<1>4. CASE Output
  <2>1. UNCHANGED session /\ ~session.deleted /\ Committed(<<"output">>)
    BY <1>1, <1>4 DEF Output
  <2>2. session'.turns >= session.turns
    BY <1>1, <2>1
  <2> QED BY <1>1, <1>2, <2>1, <2>2, CommitStep
<1>5. CASE Settle
  <2>1. /\ session' \in [deleted : BOOLEAN, execution : BOOLEAN, turns : Nat]
        /\ session'.deleted = session.deleted /\ session'.turns = session.turns
    BY <1>1, <1>5 DEF Settle
  <2>2. ~session.deleted /\ Committed(<<"turn", "idle">>)
    BY <1>1, <1>5 DEF Settle
  <2>3. session'.turns >= session.turns
    BY <1>1, <2>1
  <2> QED BY <1>2, <2>1, <2>2, <2>3, CommitStep
<1> QED BY <1>3, <1>4, <1>5

\* Every step keeps the invariant and is a step of the feed, or none.
LEMMA StreamInvStep == StreamInv /\ [Next]_vars => StreamInv' /\ FeedStep
<1> SUFFICES ASSUME StreamInv, [Next]_vars PROVE StreamInv' /\ FeedStep
  OBVIOUS
<1>1. CASE UNCHANGED vars
  <2>1. StreamInv'
    BY <1>1 DEF vars, StreamInv, StreamTypeOK, StreamShape, SessionShape, EndedCovered, Covered
  <2>2. UNCHANGED F!fvars
    BY <1>1 DEF vars, F!fvars, Following
  <2> QED BY <2>1, <2>2 DEF FeedStep
<1>2. ASSUME NEW c \in Client, Fiber(c) PROVE StreamInv' /\ FeedStep
  BY <1>2, BeginStep, ReadPageStep, SendStep DEF Fiber
<1> QED
  BY <1>1, <1>2, TurnStep, WakeStep, DeleteStep, EndAllStep, PurgeStep, OpenStep, ReplayStep,
     CancelStep DEF Next

\* The streams implement the feed, wake-ups aside: pages, connections, evictions and the
\* purge show every client the next event or nothing, and drop no event of the log.
THEOREM StreamsImplementFeed == Spec => F!Init /\ [][F!Next]_(F!fvars)
<1>1. Init => StreamInv /\ F!Init
  BY StreamInvInit
<1>2. StreamInv /\ [Next]_vars => StreamInv' /\ [F!Next]_(F!fvars)
  BY StreamInvStep DEF FeedStep
<1> QED BY <1>1, <1>2, PTL DEF Spec

\* A creation stream that ends by itself has sent the event that settled the turn its
\* client gave, however late it reads the log: initialSettled in session.ts.
THEOREM CreationStreamsCover == Spec => []CreationStreamCoversTurn
<1>1. Init => StreamInv
  BY StreamInvInit
<1>2. StreamInv /\ [Next]_vars => StreamInv'
  BY StreamInvStep
<1>3. StreamInv => CreationStreamCoversTurn
  BY DEF StreamInv, EndedCovered, Covered, CreationStreamCoversTurn
<1> QED BY <1>1, <1>2, <1>3, PTL DEF Spec

-----------------------------------------------------------------------------
(* The vault.                                                               *)

AuthType == [type : {"static", "oauth"}, expires : {"never", "later", "soon", "over"},
             grant : Nat, era : Nat]
RowsType == [vault : BOOLEAN, credential : [Credential -> SUBSET AuthType],
             refresh : [Credential -> SUBSET Caller], rejected : SUBSET Credential]
CallType == [pc : {"free", "gate", "exchange"}, credential : SUBSET Credential,
             auth : SUBSET AuthType]
KnownType == [unknown : SUBSET Nat, refused : SUBSET Nat, created : SUBSET Credential,
              rotations : [Credential -> Nat]]

VaultTypeOK ==
  /\ rows \in RowsType /\ call \in [Caller -> CallType]
  /\ granted \in Nat /\ known \in KnownType

\* A credential is one row or none, and a call that waits is for one credential.
Single ==
  /\ \A c \in Credential : \A a, b \in rows.credential[c] : a = b
  /\ \A r \in Caller :
       /\ call[r].pc # "free" => \E c \in Credential : call[r].credential = {c}
       /\ call[r].pc = "exchange" => \E a \in AuthType : call[r].auth = {a}

\* Ids and grants are never named twice.
Named ==
  /\ \A c \in Credential :
       /\ \A a \in rows.credential[c] : a.grant <= granted
       /\ rows.credential[c] # {} \/ known.rotations[c] # 0 => c \in known.created
  /\ \A r \in Caller : call[r].pc = "exchange" =>
       \A a \in call[r].auth : a.grant # 0 /\ a.grant <= granted
  /\ \A g \in known.unknown \cup known.refused : g # 0 /\ g <= granted

\* No grant is of two credentials, stored or sent.
Apart ==
  /\ \A c, d \in Credential : \A a \in rows.credential[c], b \in rows.credential[d] :
       a.grant = b.grant /\ a.grant # 0 => c = d
  /\ \A r \in Caller, d \in Credential : call[r].pc = "exchange" =>
       \A a \in call[r].auth, b \in rows.credential[d] :
         a.grant = b.grant => call[r].credential = {d}

\* A grant in doubt is held back.
Guarded ==
  \A c \in Credential : \A a \in rows.credential[c] :
    /\ a.grant \in known.unknown => rows.refresh[c] # {}
    /\ a.grant \in known.refused => c \in rows.rejected

\* The call that has the reservation asked with a grant that was not lost.
Fresh ==
  \A r \in Caller, c \in Credential :
    call[r].pc = "exchange" /\ call[r].credential = {c} /\ rows.refresh[c] = {r} =>
      \A a \in rows.credential[c] : a.grant \notin known.unknown

VaultInv ==
  VaultTypeOK /\ Single /\ Named /\ Apart /\ Guarded /\ Fresh /\ RotationWins

\* What a call works with.
LEMMA CallFacts ==
  ASSUME VaultTypeOK, Single, NEW r \in Caller, call[r].pc # "free"
  PROVE  /\ Of(r) \in Credential /\ call[r].credential = {Of(r)}
         /\ call[r].pc = "exchange" => Sent(r) \in AuthType /\ call[r].auth = {Sent(r)}
<1>1. PICK c \in Credential : call[r].credential = {c}
  BY DEF Single
<1>2. Of(r) = c
  BY <1>1 DEF Of
<1>3. ASSUME call[r].pc = "exchange" PROVE Sent(r) \in AuthType /\ call[r].auth = {Sent(r)}
  <2>1. PICK a \in AuthType : call[r].auth = {a}
    BY <1>3 DEF Single
  <2> QED BY <2>1 DEF Sent
<1> QED BY <1>1, <1>2, <1>3

\* What a credential stores.
LEMMA AuthFacts ==
  ASSUME VaultTypeOK, Single, NEW c \in Credential, rows.credential[c] # {}
  PROVE  Auth(c) \in AuthType /\ rows.credential[c] = {Auth(c)}
<1>1. PICK a \in rows.credential[c] : TRUE
  OBVIOUS
<1>2. rows.credential[c] = {a}
  BY <1>1 DEF Single
<1>3. rows.credential[c] \subseteq AuthType
  BY DEF VaultTypeOK, RowsType
<1> QED BY <1>2, <1>3 DEF Auth

\* No credential is stored and no call is under way at first.
LEMMA VaultInvInit == VaultInit => VaultInv
<1> SUFFICES ASSUME VaultInit PROVE VaultInv
  OBVIOUS
<1>1. /\ rows.vault = TRUE /\ rows.credential = [c \in Credential |-> {}]
      /\ rows.refresh = [c \in Credential |-> {}] /\ rows.rejected = {}
      /\ known.unknown = {} /\ known.refused = {} /\ known.created = {}
      /\ known.rotations = [c \in Credential |-> 0]
      /\ \A r \in Caller : call[r].pc = "free"
  BY DEF VaultInit, NoCall
<1>2. VaultTypeOK
  BY DEF VaultInit, NoCall, VaultTypeOK, RowsType, CallType, KnownType
<1> QED BY <1>1, <1>2 DEF VaultInv, Single, Named, Apart, Guarded, Fresh, RotationWins, VaultInit

-----------------------------------------------------------------------------
(***************************************************************************)
(* The calls                                                               *)
(***************************************************************************)
\* token() only reads the credential its call works with.
LEMMA TokenStep ==
  ASSUME VaultInv, NEW r \in Caller, NEW c \in Credential, token(r, c)
  PROVE  VaultInv'
<1> USE DEF VaultInv
<1>1. CASE UNCHANGED call
  BY <1>1 DEF token, VaultTypeOK, Single, Named, Apart, Guarded, Fresh, RotationWins
<1>2. CASE call' = [call EXCEPT ![r] = [pc |-> "gate", credential |-> {c}, auth |-> {}]]
  <2>1. /\ call'[r] = [pc |-> "gate", credential |-> {c}, auth |-> {}]
        /\ \A q \in Caller : q # r => call'[q] = call[q]
        /\ call' \in [Caller -> CallType]
    BY <1>2 DEF VaultTypeOK, CallType
  <2> QED BY <2>1 DEF token, VaultTypeOK, Single, Named, Apart, Guarded, Fresh, RotationWins
<1> QED BY <1>1, <1>2 DEF token

\* A call that ends tells nothing more of its credential.
LEMMA LeavesFacts ==
  ASSUME VaultTypeOK, NEW r \in Caller, Leaves(r)
  PROVE  /\ call' \in [Caller -> CallType] /\ call'[r].pc = "free"
         /\ \A q \in Caller : q # r => call'[q] = call[q]
<1>1. NoCall \in CallType /\ NoCall.pc = "free"
  BY DEF NoCall, CallType
<1> QED BY <1>1 DEF Leaves, VaultTypeOK

\* A reservation sends the grant it was given, which nothing holds back.
LEMMA RefreshStep ==
  ASSUME VaultInv, NEW r \in Caller, refresh(r)
  PROVE  VaultInv'
<1> USE DEF VaultInv
<1> DEFINE c == Of(r)
           a == Auth(c)
<1>1. c \in Credential /\ call[r].credential = {c} /\ call[r].pc = "gate"
  BY CallFacts DEF refresh
<1> HIDE DEF c
<1>2. CASE Leaves(r) /\ UNCHANGED rows
  BY <1>2, LeavesFacts
     DEF refresh, VaultTypeOK, Single, Named, Apart, Guarded, Fresh, RotationWins
<1>3. CASE /\ rows.credential[c] # {} /\ usableToken(c) = "refresh" /\ rows.refresh[c] = {}
           /\ rows' = [rows EXCEPT !.refresh[c] = {r}]
           /\ call' = [call EXCEPT ![r].pc = "exchange", ![r].auth = {a}]
  <2>1. a \in AuthType /\ rows.credential[c] = {a}
    BY <1>1, <1>3, AuthFacts
  <2>2. a.grant # 0
    BY <1>3 DEF usableToken
  <2> HIDE DEF a
  <2>3. /\ rows'.vault = rows.vault /\ rows'.credential = rows.credential
        /\ rows'.rejected = rows.rejected /\ rows'.refresh = [rows.refresh EXCEPT ![c] = {r}]
    BY <1>3 DEF VaultTypeOK, RowsType
  <2>4. rows' \in RowsType
    BY <1>1, <1>3 DEF VaultTypeOK, RowsType
  <2>5. /\ call'[r].pc = "exchange" /\ call'[r].auth = {a} /\ call'[r].credential = {c}
        /\ \A q \in Caller : q # r => call'[q] = call[q]
    BY <1>1, <1>3 DEF VaultTypeOK, CallType
  <2>6. call' \in [Caller -> CallType]
    BY <1>3, <2>1 DEF VaultTypeOK, CallType
  <2>7. UNCHANGED <<granted, known>>
    BY DEF refresh
  <2>8. VaultTypeOK' /\ RotationWins'
    BY <2>3, <2>4, <2>6, <2>7 DEF VaultTypeOK, RotationWins
  <2>9. Single' /\ Named'
    BY <1>1, <2>1, <2>2, <2>3, <2>5, <2>7 DEF Single, Named
  <2>10. Apart'
    BY <1>1, <2>1, <2>2, <2>3, <2>5 DEF Apart
  <2>11. /\ rows'.refresh[c] = {r}
         /\ \A d \in Credential : d # c => rows'.refresh[d] = rows.refresh[d]
    BY <1>1, <2>3 DEF VaultTypeOK, RowsType
  <2>12. Guarded'
    BY <1>1, <2>3, <2>7, <2>11 DEF Guarded
  <2>13. a.grant \notin known.unknown
    BY <1>1, <1>3, <2>1 DEF Guarded
  <2>14. Fresh'
    BY <1>1, <2>1, <2>3, <2>5, <2>7, <2>11, <2>13 DEF Fresh
  <2> QED BY <2>8, <2>9, <2>10, <2>12, <2>14
<1> QED BY <1>2, <1>3 DEF refresh, Asks, c

\* What may be lost with a call is the grant it sent, while it has the reservation.
LEMMA LostFacts ==
  ASSUME VaultTypeOK, Single, NEW r \in Caller, call[r].pc = "exchange"
  PROVE  \A g \in Lost(r) : g = Sent(r).grant /\ rows.refresh[Of(r)] = {r}
BY DEF Lost, Mine

\* A grant that is lost now is held back by the reservation of the call.
LEMMA LoseGrants ==
  ASSUME VaultInv, NEW r \in Caller, call[r].pc = "exchange", NEW g \in Lost(r)
  PROVE  /\ g \in Nat /\ g # 0 /\ g <= granted
         /\ \A c \in Credential : \A a \in rows.credential[c] :
              a.grant = g => call[r].credential = {c} /\ rows.refresh[c] = {r}
<1> USE DEF VaultInv
<1>1. g = Sent(r).grant /\ rows.refresh[Of(r)] = {r}
  BY LostFacts
<1>2. /\ Of(r) \in Credential /\ call[r].credential = {Of(r)}
      /\ Sent(r) \in AuthType /\ call[r].auth = {Sent(r)}
  BY CallFacts
<1>3. g \in Nat /\ g # 0 /\ g <= granted
  BY <1>1, <1>2 DEF Named, AuthType
<1>4. ASSUME NEW c \in Credential, NEW a \in rows.credential[c], a.grant = g
      PROVE  call[r].credential = {c} /\ rows.refresh[c] = {r}
  <2>1. call[r].credential = {c}
    BY <1>1, <1>2, <1>4 DEF Apart
  <2> QED BY <1>1, <1>2, <2>1
<1> QED BY <1>3, <1>4

\* An answer that never came leaves the grant held back.
LEMMA UnknownStep ==
  ASSUME VaultInv, NEW r \in Caller, Unknown(r)
  PROVE  VaultInv'
<1> USE DEF VaultInv
<1> DEFINE lost == Lost(r)
<1>1. call[r].pc = "exchange" /\ Leaves(r) /\ UNCHANGED <<rows, granted>>
      /\ known' = [known EXCEPT !.unknown = @ \cup lost]
  BY DEF Unknown
<1>2. ASSUME NEW g \in lost
      PROVE  /\ g \in Nat /\ g # 0 /\ g <= granted
             /\ \A c \in Credential : \A a \in rows.credential[c] :
                  a.grant = g => call[r].credential = {c} /\ rows.refresh[c] = {r}
  BY <1>1, <1>2, LoseGrants
<1> HIDE DEF lost
<1>3. /\ lost \subseteq Nat /\ \A g \in lost : g # 0 /\ g <= granted
      /\ \A c \in Credential : \A a \in rows.credential[c] :
           a.grant \in lost => call[r].credential = {c} /\ rows.refresh[c] = {r}
  BY <1>2
<1>4. /\ known'.unknown = known.unknown \cup lost /\ known'.refused = known.refused
      /\ known'.created = known.created /\ known'.rotations = known.rotations
  BY <1>1 DEF VaultTypeOK, KnownType
<1>5. known' \in KnownType
  BY <1>1, <1>3 DEF VaultTypeOK, KnownType
<1>6. /\ call' \in [Caller -> CallType] /\ call'[r].pc = "free"
      /\ \A q \in Caller : q # r => call'[q] = call[q]
  BY <1>1, LeavesFacts
<1>7. VaultTypeOK' /\ RotationWins' /\ Single' /\ Apart'
  BY <1>1, <1>4, <1>5, <1>6 DEF VaultTypeOK, RotationWins, Single, Apart
<1>8. Named'
  BY <1>1, <1>3, <1>4, <1>6 DEF Named
<1>9. Guarded'
  BY <1>1, <1>3, <1>4 DEF Guarded
<1>10. Fresh'
  BY <1>1, <1>3, <1>4, <1>6 DEF Fresh
<1> QED BY <1>7, <1>8, <1>9, <1>10

\* An eviction loses every call of the object, and the grants they sent.
LEMMA EvictStep == ASSUME VaultInv, EvictCatalog PROVE VaultInv'
<1> USE DEF VaultInv
<1> DEFINE S == {q \in Caller : call[q].pc = "exchange"}
           lost == UNION {Lost(r) : r \in S}
<1>1. known' = [known EXCEPT !.unknown = @ \cup lost] /\ UNCHANGED <<rows, granted>>
  BY DEF EvictCatalog
<1>2. /\ lost \subseteq Nat /\ \A g \in lost : g # 0 /\ g <= granted
      /\ \A c \in Credential : \A a \in rows.credential[c] :
           a.grant \in lost => rows.refresh[c] # {}
  <2> SUFFICES ASSUME NEW g \in lost
               PROVE  /\ g \in Nat /\ g # 0 /\ g <= granted
                      /\ \A c \in Credential : \A a \in rows.credential[c] :
                           a.grant = g => rows.refresh[c] # {}
    OBVIOUS
  <2>1. PICK r \in S : g \in Lost(r)
    OBVIOUS
  <2> QED BY <2>1, LoseGrants
<1> HIDE DEF lost
<1>3. /\ known'.unknown = known.unknown \cup lost /\ known'.refused = known.refused
      /\ known'.created = known.created /\ known'.rotations = known.rotations
  BY <1>1 DEF VaultTypeOK, KnownType
<1>4. known' \in KnownType
  BY <1>1, <1>2 DEF VaultTypeOK, KnownType
<1>5. call' \in [Caller -> CallType] /\ \A q \in Caller : call'[q].pc = "free"
  <2>1. NoCall \in CallType /\ NoCall.pc = "free"
    BY DEF NoCall, CallType
  <2> QED BY <2>1 DEF EvictCatalog
<1>6. VaultTypeOK' /\ RotationWins' /\ Single' /\ Apart'
  BY <1>1, <1>3, <1>4, <1>5 DEF VaultTypeOK, RotationWins, Single, Apart
<1>7. Named' /\ Guarded' /\ Fresh'
  BY <1>1, <1>2, <1>3, <1>5 DEF Named, Guarded, Fresh
<1> QED BY <1>6, <1>7

\* A refusal is stored only if the credential is still the one that was sent.
LEMMA RefusedStep ==
  ASSUME VaultInv, NEW r \in Caller, NEW rejected \in BOOLEAN, Refused(r, rejected)
  PROVE  VaultInv'
<1> USE DEF VaultInv
<1> DEFINE c == Of(r)
           s == Sent(r)
           refreshed == IF Mine(r) THEN {} ELSE rows.refresh[c]
           reject == IF rejected THEN rows.rejected \cup {c} ELSE rows.rejected
           refuse == IF rejected THEN known.refused \cup {s.grant} ELSE known.refused
<1>1. /\ c \in Credential /\ call[r].credential = {c} /\ call[r].pc = "exchange"
      /\ s \in AuthType /\ call[r].auth = {s}
  BY CallFacts DEF Refused
<1>2. /\ rows' = [rows EXCEPT !.refresh[c] = refreshed, !.rejected = reject]
      /\ known' = [known EXCEPT !.refused = refuse]
      /\ Leaves(r) /\ UNCHANGED granted
  BY DEF Refused
<1>3. refreshed \in SUBSET Caller /\ refreshed \in {{}, rows.refresh[c]}
      /\ (refreshed # rows.refresh[c] => rows.refresh[c] = {r})
  BY <1>1 DEF Mine, VaultTypeOK, RowsType
<1>4. /\ reject \in SUBSET Credential /\ rows.rejected \subseteq reject
      /\ known.refused \subseteq refuse /\ refuse \subseteq known.refused \cup {s.grant}
      /\ (refuse # known.refused => c \in reject)
  BY <1>1 DEF VaultTypeOK, RowsType
<1>5. s.grant \in Nat /\ s.grant # 0 /\ s.grant <= granted
  BY <1>1 DEF Named, AuthType
<1>6. refuse \in SUBSET Nat
  BY <1>4, <1>5 DEF VaultTypeOK, KnownType
<1> HIDE DEF c, s, refreshed, reject, refuse
<1>7. /\ rows'.vault = rows.vault /\ rows'.credential = rows.credential
      /\ rows'.rejected = reject /\ rows'.refresh[c] = refreshed
      /\ \A d \in Credential : d # c => rows'.refresh[d] = rows.refresh[d]
  BY <1>1, <1>2 DEF VaultTypeOK, RowsType
<1>8. rows' \in RowsType
  BY <1>1, <1>2, <1>3, <1>4 DEF VaultTypeOK, RowsType
<1>9. /\ known'.unknown = known.unknown /\ known'.refused = refuse
      /\ known'.created = known.created /\ known'.rotations = known.rotations
  BY <1>2 DEF VaultTypeOK, KnownType
<1>10. known' \in KnownType
  BY <1>2, <1>6 DEF VaultTypeOK, KnownType
<1>11. /\ call' \in [Caller -> CallType] /\ call'[r].pc = "free"
       /\ \A q \in Caller : q # r => call'[q] = call[q]
  BY <1>2, LeavesFacts
<1>12. VaultTypeOK' /\ RotationWins' /\ Single' /\ Apart'
  BY <1>2, <1>7, <1>8, <1>9, <1>10, <1>11 DEF VaultTypeOK, RotationWins, Single, Apart
<1>13. Named'
  BY <1>2, <1>4, <1>5, <1>7, <1>9, <1>11 DEF Named
<1>14. Guarded'
  <2> SUFFICES ASSUME NEW d \in Credential, NEW a \in rows.credential[d]
               PROVE  /\ a.grant \in known.unknown => rows'.refresh[d] # {}
                      /\ a.grant \in refuse => d \in reject
    BY <1>7, <1>9 DEF Guarded
  <2>1. a.grant \in known.unknown => rows'.refresh[d] # {}
    BY <1>1, <1>3, <1>7 DEF Guarded, Fresh
  <2>2. a.grant \in refuse => d \in reject
    BY <1>1, <1>4 DEF Guarded, Apart
  <2> QED BY <2>1, <2>2
<1>15. Fresh'
  BY <1>3, <1>7, <1>9, <1>11 DEF Fresh
<1> QED BY <1>12, <1>13, <1>14, <1>15

\* A renewal is stored only if the credential is still the one that was sent.
LEMMA RenewedStep ==
  ASSUME VaultInv, NEW r \in Caller, NEW grant \in 1..MaxGrant, Renewed(r, grant)
  PROVE  VaultInv'
<1> USE DEF VaultInv
<1> DEFINE c == Of(r)
           s == Sent(r)
           n == [s EXCEPT !.expires = "later", !.grant = grant]
<1>1. /\ c \in Credential /\ call[r].credential = {c} /\ call[r].pc = "exchange"
      /\ s \in AuthType /\ call[r].auth = {s}
  BY CallFacts DEF Renewed
<1>2. n \in AuthType /\ n.grant = grant /\ n.era = s.era /\ grant # 0
  <2>1. grant \in Nat /\ grant # 0
    BY VaultAssumption
  <2> HIDE DEF s
  <2> QED BY <1>1, <2>1 DEF AuthType
<1>3. s.grant \in Nat /\ s.grant # 0 /\ s.grant <= granted /\ granted \in Nat
  BY <1>1 DEF Named, AuthType, VaultTypeOK
<1>4. /\ grant \in {s.grant, granted + 1} /\ Leaves(r) /\ UNCHANGED known
      /\ granted' = IF grant > granted THEN grant ELSE granted
  BY DEF Renewed
<1>5. granted' \in Nat /\ granted <= granted' /\ grant <= granted'
  BY <1>3, <1>4
<1>6. /\ call' \in [Caller -> CallType] /\ call'[r].pc = "free"
      /\ \A q \in Caller : q # r => call'[q] = call[q]
  BY <1>4, LeavesFacts
<1>7. known \in KnownType /\ \A e \in AuthType : e.grant \in Nat
  BY DEF VaultTypeOK, KnownType, AuthType
<1>8. \A q \in Caller : call[q].pc = "exchange" => \A a \in call[q].auth : a.grant \in Nat
  BY <1>7 DEF VaultTypeOK, CallType
<1>9. \A d \in Credential : \A a \in rows.credential[d] : a \in AuthType
  BY DEF VaultTypeOK, RowsType
<1>10. \A g \in known.unknown \cup known.refused : g \in Nat
  BY <1>7 DEF KnownType
<1> HIDE DEF c, s, n
<1>11. CASE UNCHANGED rows
  <2>1. VaultTypeOK' /\ Single' /\ RotationWins' /\ Apart' /\ Guarded' /\ Fresh'
    BY <1>4, <1>5, <1>6, <1>11 DEF VaultTypeOK, Single, RotationWins, Apart, Guarded, Fresh
  <2>2. Named'
    BY <1>3, <1>4, <1>5, <1>6, <1>7, <1>8, <1>9, <1>10, <1>11 DEF Named
  <2> QED BY <2>1, <2>2
<1>12. CASE /\ rows.credential[c] = {s} /\ rows.refresh[c] = {r}
            /\ rows' = [rows EXCEPT !.credential[c] = {n}, !.refresh[c] = {}]
  <2>1. /\ rows'.vault = rows.vault /\ rows'.rejected = rows.rejected
        /\ rows'.credential[c] = {n} /\ rows'.refresh[c] = {}
        /\ \A d \in Credential : d # c => /\ rows'.credential[d] = rows.credential[d]
                                          /\ rows'.refresh[d] = rows.refresh[d]
    BY <1>1, <1>12 DEF VaultTypeOK, RowsType
  <2>2. rows' \in RowsType
    BY <1>1, <1>2, <1>12 DEF VaultTypeOK, RowsType
  <2>3. VaultTypeOK' /\ Single'
    BY <1>4, <1>5, <1>6, <2>1, <2>2 DEF VaultTypeOK, Single
  <2>4. RotationWins'
    BY <1>1, <1>2, <1>4, <1>12, <2>1 DEF RotationWins
  <2>5. Named'
    BY <1>1, <1>2, <1>3, <1>4, <1>5, <1>6, <1>7, <1>8, <1>9, <1>10, <1>12, <2>1 DEF Named
  <2>6. \A d \in Credential : \A a \in rows.credential[d] : a.grant = grant => d = c
    BY <1>1, <1>2, <1>3, <1>4, <1>7, <1>9, <1>12 DEF Apart, Named
  <2>7. \A q \in Caller : call[q].pc = "exchange" =>
          \A a \in call[q].auth : a.grant = grant => call[q].credential = {c}
    BY <1>1, <1>3, <1>4, <1>8, <1>12 DEF Apart, Named
  <2>8. Apart'
    BY <1>1, <1>2, <1>4, <1>6, <2>1, <2>6, <2>7 DEF Apart
  <2>9. grant \notin known.unknown /\ (grant \in known.refused => c \in rows.rejected)
    BY <1>1, <1>3, <1>4, <1>10, <1>12 DEF Fresh, Guarded, Named
  <2>10. Guarded' /\ Fresh'
    BY <1>1, <1>2, <1>4, <1>6, <2>1, <2>9 DEF Guarded, Fresh
  <2> QED BY <2>3, <2>4, <2>5, <2>8, <2>10
<1> QED BY <1>1, <1>11, <1>12 DEF Renewed, Unchanged, Mine, c, s, n

-----------------------------------------------------------------------------
(***************************************************************************)
(* The owner's operations                                                  *)
(***************************************************************************)
\* A credential that is created starts with a grant of its own.
LEMMA CreateStep ==
  ASSUME VaultInv, NEW c \in Credential, NEW a \in {Bearer, OAuth(0), OAuth(granted + 1)},
         createCredential(c, a)
  PROVE  VaultInv'
<1> USE DEF VaultInv
<1>1. granted \in Nat
  BY DEF VaultTypeOK
<1>2. a \in AuthType /\ a.era = 0 /\ a.grant \in {0, granted + 1}
  BY <1>1 DEF Bearer, OAuth, AuthType
<1>3. /\ rows.vault /\ c \notin known.created /\ UNCHANGED call
      /\ granted' = IF a.grant # 0 THEN granted + 1 ELSE granted
      /\ rows' = [rows EXCEPT !.credential[c] = {a}]
      /\ known' = [known EXCEPT !.created = @ \cup {c}]
  BY DEF createCredential
<1>4. granted' \in Nat /\ granted <= granted' /\ a.grant <= granted'
  BY <1>1, <1>2, <1>3
<1>5. /\ rows'.vault = rows.vault /\ rows'.rejected = rows.rejected
      /\ rows'.refresh = rows.refresh /\ rows'.credential[c] = {a}
      /\ \A d \in Credential : d # c => rows'.credential[d] = rows.credential[d]
  BY <1>3 DEF VaultTypeOK, RowsType
<1>6. rows' \in RowsType
  BY <1>2, <1>3 DEF VaultTypeOK, RowsType
<1>7. /\ known'.unknown = known.unknown /\ known'.refused = known.refused
      /\ known'.created = known.created \cup {c} /\ known'.rotations = known.rotations
  BY <1>3 DEF VaultTypeOK, KnownType
<1>8. known' \in KnownType
  BY <1>3 DEF VaultTypeOK, KnownType
<1>9. \A d \in Credential : \A b \in rows.credential[d] : b.grant \in Nat
  BY DEF VaultTypeOK, RowsType, AuthType
<1>10. \A q \in Caller : call[q].pc = "exchange" => \A b \in call[q].auth : b.grant \in Nat
  BY DEF VaultTypeOK, CallType, AuthType
<1>11. \A g \in known.unknown \cup known.refused : g \in Nat
  BY DEF VaultTypeOK, KnownType
<1>12. VaultTypeOK' /\ Single'
  BY <1>3, <1>4, <1>5, <1>6, <1>8 DEF VaultTypeOK, Single
<1>13. known.rotations[c] = 0 /\ known.rotations \in [Credential -> Nat]
  BY <1>3 DEF Named, VaultTypeOK, KnownType
<1>14. RotationWins'
  BY <1>2, <1>3, <1>5, <1>7, <1>13 DEF RotationWins
<1>15. Named'
  BY <1>1, <1>2, <1>3, <1>4, <1>5, <1>7, <1>9, <1>10, <1>11 DEF Named
<1>16. \A d \in Credential : \A b \in rows.credential[d] : b.grant = a.grant => a.grant = 0
  BY <1>1, <1>2, <1>9 DEF Named
<1>17. \A q \in Caller : call[q].pc = "exchange" => \A b \in call[q].auth : b.grant # a.grant
  BY <1>1, <1>2, <1>10 DEF Named
<1>18. Apart'
  BY <1>3, <1>5, <1>16, <1>17 DEF Apart
<1>19. a.grant \notin known.unknown \cup known.refused
  BY <1>1, <1>2, <1>11 DEF Named
<1>20. Guarded' /\ Fresh'
  BY <1>3, <1>5, <1>7, <1>19 DEF Guarded, Fresh
<1> QED BY <1>12, <1>14, <1>15, <1>18, <1>20

\* A rotation clears what is known of the grant it keeps, or names another.
LEMMA RotateStep ==
  ASSUME VaultInv, NEW c \in Credential, NEW regrant \in BOOLEAN,
         NEW expires \in {"never", "later", "soon", "over"}, rotate(c, expires, regrant)
  PROVE  VaultInv'
<1> USE DEF VaultInv
<1> DEFINE a == Auth(c)
           grant == IF regrant THEN granted + 1 ELSE a.grant
           n == [a EXCEPT !.expires = expires,
                          !.grant = IF regrant THEN granted + 1 ELSE @, !.era = @ + 1]
<1>1. granted \in Nat /\ rows.vault /\ rows.credential[c] # {}
  BY DEF VaultTypeOK, rotate
<1>2. a \in AuthType /\ rows.credential[c] = {a}
  BY <1>1, AuthFacts
<1>3. a.grant \in Nat /\ a.era \in Nat /\ a.grant <= granted /\ a.era = known.rotations[c]
  BY <1>2 DEF AuthType, Named, RotationWins
<1>4. n \in AuthType /\ n.grant = grant /\ n.era = a.era + 1
  <2> DEFINE era == a.era + 1
             m == [a EXCEPT !.expires = expires, !.grant = grant, !.era = era]
  <2>1. grant \in Nat /\ era \in Nat
    BY <1>1, <1>3
  <2>2. n = m
    BY <1>2 DEF AuthType
  <2> HIDE DEF a, n, grant, era
  <2>3. m \in AuthType /\ m.grant = grant /\ m.era = era
    BY <1>2, <2>1 DEF AuthType
  <2> QED BY <2>2, <2>3 DEF era
<1>5. grant \in {a.grant, granted + 1} /\ (regrant => a.grant # 0)
  BY DEF rotate
<1>6. /\ UNCHANGED call
      /\ granted' = IF regrant THEN granted + 1 ELSE granted
      /\ rows' = [rows EXCEPT !.credential[c] = {n}, !.refresh[c] = {},
                              !.rejected = @ \ {c}]
      /\ known' = [known EXCEPT !.unknown = @ \ {a.grant}, !.refused = @ \ {a.grant},
                                !.rotations[c] = @ + 1]
  BY DEF rotate
<1>7. granted' \in Nat /\ granted <= granted' /\ grant <= granted'
  BY <1>1, <1>3, <1>6
<1> HIDE DEF a, n, grant
<1>8. /\ rows'.vault = rows.vault /\ rows'.rejected = rows.rejected \ {c}
      /\ rows'.credential[c] = {n} /\ rows'.refresh[c] = {}
      /\ \A d \in Credential : d # c => /\ rows'.credential[d] = rows.credential[d]
                                        /\ rows'.refresh[d] = rows.refresh[d]
  BY <1>6 DEF VaultTypeOK, RowsType
<1>9. rows' \in RowsType
  BY <1>4, <1>6 DEF VaultTypeOK, RowsType
<1>10. /\ known'.unknown = known.unknown \ {a.grant}
       /\ known'.refused = known.refused \ {a.grant}
       /\ known'.created = known.created /\ known'.rotations[c] = known.rotations[c] + 1
       /\ \A d \in Credential : d # c => known'.rotations[d] = known.rotations[d]
       /\ known' \in KnownType
  <2> DEFINE times == known.rotations[c] + 1
  <2>1. times \in Nat
    BY DEF VaultTypeOK, KnownType
  <2>2. known' = [known EXCEPT !.unknown = @ \ {a.grant}, !.refused = @ \ {a.grant},
                               !.rotations[c] = times]
    BY <1>6
  <2> HIDE DEF times
  <2>3. /\ known'.unknown = known.unknown \ {a.grant}
        /\ known'.refused = known.refused \ {a.grant}
        /\ known'.created = known.created /\ known'.rotations[c] = times
        /\ \A d \in Credential : d # c => known'.rotations[d] = known.rotations[d]
    BY <2>2 DEF VaultTypeOK, KnownType
  <2>4. known' \in KnownType
    BY <2>1, <2>2 DEF VaultTypeOK, KnownType
  <2> QED BY <2>3, <2>4 DEF times
<1>12. \A d \in Credential : \A b \in rows.credential[d] : b.grant \in Nat
  BY DEF VaultTypeOK, RowsType, AuthType
<1>13. \A q \in Caller : call[q].pc = "exchange" => \A b \in call[q].auth : b.grant \in Nat
  BY DEF VaultTypeOK, CallType, AuthType
<1>14. \A g \in known.unknown \cup known.refused : g \in Nat
  BY DEF VaultTypeOK, KnownType
<1>15. VaultTypeOK' /\ Single'
  BY <1>6, <1>7, <1>8, <1>9, <1>10 DEF VaultTypeOK, Single
<1>16. RotationWins'
  BY <1>1, <1>3, <1>4, <1>8, <1>10 DEF RotationWins
<1>17. c \in known.created
  BY <1>1 DEF Named
<1>18. Named'
  BY <1>1, <1>4, <1>6, <1>7, <1>8, <1>10, <1>12, <1>13, <1>14, <1>17 DEF Named
<1>19. \A d \in Credential : \A b \in rows.credential[d] :
         b.grant = grant /\ grant # 0 => d = c
  BY <1>1, <1>2, <1>5, <1>12 DEF Apart, Named
<1>20. \A q \in Caller : call[q].pc = "exchange" =>
         \A b \in call[q].auth : b.grant = grant => call[q].credential = {c}
  BY <1>1, <1>2, <1>5, <1>13 DEF Apart, Named
<1>21. Apart'
  BY <1>4, <1>6, <1>8, <1>19, <1>20 DEF Apart
<1>22. grant \notin known'.unknown \cup known'.refused
  BY <1>1, <1>5, <1>10, <1>14 DEF Named
<1>23. Guarded' /\ Fresh'
  BY <1>4, <1>6, <1>8, <1>10, <1>22 DEF Guarded, Fresh
<1> QED BY <1>15, <1>16, <1>18, <1>21, <1>23

\* A credential that is deleted is named by no call that goes on to store.
LEMMA DeleteCredentialStep ==
  ASSUME VaultInv, NEW c \in Credential, deleteCredential(c)
  PROVE  VaultInv'
<1> USE DEF VaultInv
<1>1. /\ rows' = [rows EXCEPT !.credential[c] = {}, !.refresh[c] = {}, !.rejected = @ \ {c}]
      /\ UNCHANGED <<call, granted, known>>
  BY DEF deleteCredential
<1>2. /\ rows'.vault = rows.vault /\ rows'.rejected = rows.rejected \ {c}
      /\ rows'.credential[c] = {} /\ rows'.refresh[c] = {}
      /\ \A d \in Credential : d # c => /\ rows'.credential[d] = rows.credential[d]
                                        /\ rows'.refresh[d] = rows.refresh[d]
  BY <1>1 DEF VaultTypeOK, RowsType
<1>3. rows' \in RowsType
  BY <1>1 DEF VaultTypeOK, RowsType
<1>4. VaultTypeOK' /\ Single' /\ RotationWins'
  BY <1>1, <1>2, <1>3 DEF VaultTypeOK, Single, RotationWins
<1>5. Named' /\ Apart'
  BY <1>1, <1>2 DEF Named, Apart
<1>6. Guarded' /\ Fresh'
  BY <1>1, <1>2 DEF Guarded, Fresh
<1> QED BY <1>4, <1>5, <1>6

\* So are those of a vault that is deleted.
LEMMA DeleteVaultStep == ASSUME VaultInv, deleteVault PROVE VaultInv'
<1> USE DEF VaultInv
<1>1. /\ rows' = [rows EXCEPT !.vault = FALSE, !.credential = [c \in Credential |-> {}]]
      /\ UNCHANGED <<call, granted, known>>
  BY DEF deleteVault
<1>2. /\ rows'.vault = FALSE /\ rows'.credential = [c \in Credential |-> {}]
      /\ rows'.refresh = rows.refresh /\ rows'.rejected = rows.rejected
  BY <1>1 DEF VaultTypeOK, RowsType
<1>3. rows' \in RowsType
  BY <1>1 DEF VaultTypeOK, RowsType
<1> QED
  BY <1>1, <1>2, <1>3
     DEF VaultTypeOK, Single, RotationWins, Named, Apart, Guarded, Fresh

\* An access token that grows old changes no grant.
LEMMA AgesStep ==
  ASSUME VaultInv, NEW c \in Credential, Ages(c)
  PROVE  VaultInv'
<1> USE DEF VaultInv
<1> DEFINE a == Auth(c)
           n == [a EXCEPT !.expires = IF @ = "later" THEN "soon" ELSE "over"]
<1>1. rows' = [rows EXCEPT !.credential[c] = {n}] /\ UNCHANGED <<call, granted, known>>
  BY DEF Ages
<1>2. a \in AuthType /\ rows.credential[c] = {a}
  BY AuthFacts DEF Ages
<1>3. n \in AuthType /\ n.grant = a.grant /\ n.era = a.era
  BY <1>2 DEF AuthType
<1> HIDE DEF a, n
<1>4. /\ rows'.vault = rows.vault /\ rows'.rejected = rows.rejected
      /\ rows'.refresh = rows.refresh /\ rows'.credential[c] = {n}
      /\ \A d \in Credential : d # c => rows'.credential[d] = rows.credential[d]
  BY <1>1 DEF VaultTypeOK, RowsType
<1>5. rows' \in RowsType
  BY <1>1, <1>3 DEF VaultTypeOK, RowsType
<1>6. VaultTypeOK' /\ Single' /\ RotationWins'
  BY <1>1, <1>2, <1>3, <1>4, <1>5 DEF VaultTypeOK, Single, RotationWins
<1>7. Named' /\ Apart'
  BY <1>1, <1>2, <1>3, <1>4 DEF Named, Apart
<1>8. Guarded' /\ Fresh'
  BY <1>1, <1>2, <1>3, <1>4 DEF Guarded, Fresh
<1> QED BY <1>6, <1>7, <1>8

-----------------------------------------------------------------------------
\* Every step keeps the invariant.
LEMMA VaultInvStep == VaultInv /\ [VaultNext]_vaultVars => VaultInv'
<1> SUFFICES ASSUME VaultInv, [VaultNext]_vaultVars PROVE VaultInv'
  OBVIOUS
<1>1. ASSUME NEW r \in Caller, Exchange(r) PROVE VaultInv'
  BY <1>1, UnknownStep, RefusedStep, RenewedStep DEF Exchange
<1>2. ASSUME NEW c \in Credential, NEW regrant \in BOOLEAN, NEW a \in rows.credential[c],
             NEW expires \in {"never", "later", a.expires}, rotate(c, expires, regrant)
      PROVE  VaultInv'
  <2>1. a \in AuthType
    BY <1>2 DEF VaultInv, VaultTypeOK, RowsType
  <2>2. expires \in {"never", "later", "soon", "over"}
    BY <2>1 DEF AuthType
  <2> QED BY <1>2, <2>2, RotateStep
<1>3. CASE UNCHANGED vaultVars
  BY <1>3 DEF vaultVars, VaultInv, VaultTypeOK, Single, Named, Apart, Guarded, Fresh, RotationWins
<1> QED
  BY <1>1, <1>2, <1>3, TokenStep, RefreshStep, CreateStep, DeleteCredentialStep,
     DeleteVaultStep, AgesStep,
     EvictStep DEF VaultNext

\* Only a reservation sends a grant, and only one that nothing holds back.
LEMMA NoReplayStep ==
  ASSUME VaultInv, VaultNext, NEW r \in Caller, call[r].pc = "gate", call'[r].pc = "exchange"
  PROVE  {a.grant : a \in call'[r].auth} \cap (known.unknown \cup known.refused) = {}
<1> USE DEF VaultInv
<1>1. call \in [Caller -> CallType] /\ NoCall.pc = "free"
  BY DEF VaultTypeOK, NoCall
<1>2. ~UNCHANGED call /\ call' # [q \in Caller |-> NoCall]
  BY <1>1
<1>3. ASSUME NEW q \in Caller, Leaves(q) PROVE FALSE
  <2>1. call'[q] = NoCall /\ \A p \in Caller : p # q => call'[p] = call[p]
    BY <1>1, <1>3 DEF Leaves
  <2> QED BY <1>1, <2>1
<1>4. ASSUME NEW q \in Caller, NEW c \in Credential, token(q, c) PROVE FALSE
  <2>1. call' = [call EXCEPT ![q] = [pc |-> "gate", credential |-> {c}, auth |-> {}]]
    BY <1>2, <1>4 DEF token
  <2>2. /\ call'[q].pc = "gate" /\ \A p \in Caller : p # q => call'[p] = call[p]
    BY <1>1, <2>1
  <2> QED BY <2>2
<1>5. ASSUME NEW q \in Caller, refresh(q), NEW c \in Credential, c = Of(q),
             rows.credential[c] # {}, usableToken(c) = "refresh", rows.refresh[c] = {},
             call' = [call EXCEPT ![q].pc = "exchange", ![q].auth = {Auth(c)}]
      PROVE  {a.grant : a \in call'[r].auth} \cap (known.unknown \cup known.refused) = {}
  <2> DEFINE a == Auth(c)
  <2>1. a \in AuthType /\ rows.credential[c] = {a}
    BY <1>5, AuthFacts
  <2>2. a.type = "oauth" /\ c \notin rows.rejected
    BY <1>5, <2>1 DEF usableToken, AuthType
  <2> HIDE DEF a
  <2>3. a.grant \notin known.unknown \cup known.refused
    BY <1>5, <2>1, <2>2 DEF Guarded
  <2>4. call'[q].auth = {a} /\ \A p \in Caller : p # q => call'[p] = call[p]
    BY <1>1, <1>5 DEF CallType, a
  <2>5. r = q
    BY <2>4
  <2> QED BY <2>3, <2>4, <2>5
<1>6. ASSUME NEW q \in Caller, refresh(q)
      PROVE  {a.grant : a \in call'[r].auth} \cap (known.unknown \cup known.refused) = {}
  <2>1. call[q].pc # "free"
    BY <1>6 DEF refresh
  <2>2. Of(q) \in Credential
    BY <2>1, CallFacts
  <2> QED BY <1>3, <1>5, <1>6, <2>2 DEF refresh, Asks
<1>7. ASSUME NEW q \in Caller, Exchange(q) PROVE FALSE
  BY <1>3, <1>7 DEF Exchange, Unknown, Refused, Renewed
<1>8. ASSUME NEW c \in Credential,
             \/ \E a \in {Bearer, OAuth(0), OAuth(granted + 1)} : createCredential(c, a)
             \/ \E regrant \in BOOLEAN, a \in rows.credential[c] :
                  \E expires \in {"never", "later", a.expires} : rotate(c, expires, regrant)
             \/ deleteCredential(c) \/ Ages(c)
      PROVE  FALSE
  BY <1>2, <1>8 DEF createCredential, rotate, deleteCredential, Ages
<1> QED BY <1>2, <1>4, <1>6, <1>7, <1>8 DEF VaultNext, deleteVault, EvictCatalog

\* No refresh token is sent again while its use is in doubt, and no refresh brings back
\* what the owner rotated or deleted: VaultRepository, for any number of concurrent calls,
\* credentials, rotations and evictions.
THEOREM GrantsAlwaysHold == VaultSpec => GrantsHold
<1>1. VaultInit => VaultInv
  BY VaultInvInit
<1>2. VaultInv /\ [VaultNext]_vaultVars => VaultInv'
  BY VaultInvStep
<1>3. VaultInv => RotationWins
  BY DEF VaultInv
<1>4. VaultInv /\ [VaultNext]_vaultVars =>
        [\A r \in Caller :
           call[r].pc = "gate" /\ call'[r].pc = "exchange" =>
             {a.grant : a \in call'[r].auth} \cap (known.unknown \cup known.refused) = {}]_vaultVars
  BY NoReplayStep
<1> QED BY <1>1, <1>2, <1>3, <1>4, PTL DEF VaultSpec, GrantsHold, NoReplay
=============================================================================
