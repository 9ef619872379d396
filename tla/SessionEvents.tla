--------------------------- MODULE SessionEvents ---------------------------
(***************************************************************************)
(* session-events.ts: how a SessionDO turns the numbered events of one     *)
(* root turn's runtime into public records and the ordered event log.      *)
(*                                                                         *)
(* native is external: the log of the runtime, which the reconciler polls  *)
(* in batches.  A batch may repeat events that were already applied (its   *)
(* answer was lost, or the object was evicted), and is one transaction.    *)
(* Between two batches the client may answer a function call, and the turn *)
(* may be sealed.  The session has one subagent, whose turns are Child.    *)
(*                                                                         *)
(* A text is the number of its chunks.  A value that may be absent is a    *)
(* set of at most one element.                                             *)
(***************************************************************************)
EXTENDS Integers, Sequences, FiniteSets, FiniteSetsExt, SequencesExt

CONSTANTS Root,       \* the root turn
          Child,      \* the turns of the subagent
          MaxItem,    \* native item ids of a turn are 1..MaxItem
          MaxNative,  \* bound on the events of the runtime
          MaxBatch    \* most events of one poll

ASSUME EventsAssumption ==
  /\ Root \notin Child /\ IsFiniteSet(Child)
  /\ MaxItem \in Nat /\ MaxNative \in Nat /\ MaxBatch \in Nat

VARIABLES native,  \* the runtime's events
          ended,   \* the runtime reported that the root turn completed
          store    \* the records and the event log of the SessionDO

vars == <<native, ended, store>>

Turn == {Root} \cup Child
Key == Turn \X (1..MaxItem)
Settled == {"completed", "cancelled", "failed"}
Terminal == [completed |-> "turn.completed", cancelled |-> "turn.cancelled", failed |-> "turn.failed"]

-----------------------------------------------------------------------------
(***************************************************************************)
(* The runtime, external.  It names a turn only between its opening and    *)
(* its settlement, and an item's events follow the life of its family.     *)
(***************************************************************************)
Family == [message |-> {"delta", "text"},
           reasoning |-> {"reasoning_part", "reasoning_delta", "reasoning"},
           command |-> {"command_start", "command_delta", "command"},
           web_search |-> {"web_search"},
           mcp |-> {"mcp"},
           collaboration |-> {"collaboration"},
           function_call |-> {"function_call"}]
ItemEvent == UNION {Family[f] : f \in DOMAIN Family}

Event(type, turn, id, status, text) ==
  [type |-> type, turn |-> turn, id |-> id, status |-> status, text |-> text]

Of(turn, id) == SelectSeq(native, LAMBDA e : e.type \in ItemEvent /\ e.turn = turn /\ e.id = id)
Reports(turn) == SelectSeq(native, LAMBDA e : e.type = "subagent_turn" /\ e.turn = turn)
Finished(e) ==
  \/ e.type \in {"text", "command", "mcp", "collaboration", "function_call"}
  \/ e.type \in {"reasoning", "web_search"} /\ e.status # "in_progress"
Chunks(h) == Len(SelectSeq(h, LAMBDA e : e.type \in {"delta", "command_delta", "reasoning_delta"}))
\* The summary so far: an event that repeats it may have added to it.
Summary(h) ==
  FoldLeft(LAMBDA n, e : CASE e.type = "reasoning" -> e.text[1]
                           [] e.type = "reasoning_delta" -> n + 1
                           [] OTHER -> n, 0, h)

\* The turn is open for the runtime.
Live(turn) ==
  turn = Root \/ (Reports(turn) # <<>> /\ Last(Reports(turn)).status \notin Settled)

Continues(h, e) ==
  \/ h = <<>> /\ e.type # "command_delta"
  \/ /\ h # <<>> /\ ~Finished(Last(h))
     /\ \E f \in DOMAIN Family : {e.type, Last(h).type} \subseteq Family[f]
     /\ e.type # "command_start"

\* The final text repeats what was streamed; a summary may add to it.
Texts(h, type) ==
  CASE type = "text" -> {<<IF Chunks(h) = 0 THEN 1 ELSE Chunks(h)>>}
    [] type = "reasoning" -> {<<Summary(h)>>, <<Summary(h) + 1>>}
    [] type = "reasoning_part" -> {<<0, 0>>}
    [] OTHER -> {<<1>>}

Statuses(type) ==
  IF type \in {"reasoning", "web_search"} THEN {"in_progress", "completed"} ELSE {"completed"}

EmitItem ==
  \E turn \in Turn, id \in 1..MaxItem, type \in ItemEvent :
    LET h == Of(turn, id)
    IN \E s \in Statuses(type), t \in Texts(h, type) :
         LET e == Event(type, turn, id, s, t)
         IN /\ Live(turn) /\ Continues(h, e)
            /\ (id > 1 => Of(turn, id - 1) # <<>>)
            /\ native' = Append(native, e)

EmitUsage ==
  \E turn \in Turn, n \in 1..2 :
    /\ Live(turn)
    /\ native' = Append(native, Event("usage", turn, 0, "", <<n>>))

EmitSubagent ==
  \E s \in {"active", "closed"} :
    /\ s = "closed" => \E i \in DOMAIN native : native[i].type = "subagent"
    /\ s = "closed" => \A c \in Child : ~Live(c)
    /\ native' = Append(native, Event("subagent", Root, 0, s, <<>>))

\* A report of Codex may be the first of a turn that has already ended.
EmitTurn ==
  \E c \in Child, s \in {"in_progress"} \cup Settled :
    /\ \E i \in DOMAIN native : native[i].type = "subagent"
    /\ Reports(c) = <<>> \/ (Live(c) /\ s # "in_progress")
    /\ native' = Append(native, Event("subagent_turn", c, 0, s, <<>>))

Runtime ==
  /\ ~ended /\ Len(native) < MaxNative /\ Len(native) < store.cursor + MaxBatch
  /\ EmitItem \/ EmitUsage \/ EmitSubagent \/ EmitTurn
  /\ UNCHANGED <<ended, store>>

\* A runtime completes the root turn once its children settled and its calls are answered.
RuntimeEnds ==
  /\ ~ended /\ \A c \in Child : ~Live(c)
  /\ \A i \in DOMAIN native :
       native[i].type = "function_call" /\ native[i].turn = Root =>
         i <= store.cursor /\ \A a \in store.required : a.turn # Root
  /\ ended' = TRUE
  /\ UNCHANGED <<native, store>>

-----------------------------------------------------------------------------
(***************************************************************************)
(* The store.  Every handler is a function of the transaction's store.     *)
(***************************************************************************)
emit(d, type, turn, id, index, text) ==
  [d EXCEPT !.log = Append(@, [type |-> type, turn |-> turn, id |-> id,
                               index |-> index, text |-> text])]
emitTurn(d, type, turn) == emit(d, type, turn, 0, 0, 0)

previous(d, e) == d.output[<<e.turn, e.id>>]
Fresh(d, e) == previous(d, e) = {}
Item(d, e) == CHOOSE p \in previous(d, e) : TRUE

\* resolveSlot: the position the item had before, or the next one of its turn.
Position(d, e) == IF Fresh(d, e) THEN d.count[e.turn] ELSE Item(d, e).index
\* The item so far, unless it was of another type.
Started(d, e, type) ==
  IF ~Fresh(d, e) /\ Item(d, e).type = type THEN Item(d, e)
  ELSE [index |-> Position(d, e), type |-> type, status |-> "in_progress", text |-> <<>>]
save(d, e, item) == [d EXCEPT !.output[<<e.turn, e.id>>] = {item}]
added(d, e) ==
  emit([d EXCEPT !.count[e.turn] = Position(d, e) + 1],
       "item.added", e.turn, e.id, Position(d, e), 0)
AddedIfNew(d, e) == IF Fresh(d, e) THEN added(d, e) ELSE d
itemDone(d, e, item) == emit(d, "item.done", e.turn, e.id, item.index, 0)

\* The text of a part is final: its two closing events.
PartDone(d, turn, id, part, text) ==
  emit(emit(d, "text.done", turn, id, part, text), "part.done", turn, id, part, text)
PartsDone(d, turn, id, texts) ==
  FoldLeft(LAMBDA s, part : PartDone(s, turn, id, part, texts[part]),
           d, [i \in 1..Len(texts) |-> i])

acceptMessage(d, e) ==
  LET item == [Started(d, e, "message") EXCEPT !.text = IF @ = <<>> THEN <<0>> ELSE @]
      d1 == IF Fresh(d, e) THEN emit(added(d, e), "part.added", e.turn, e.id, 1, 0) ELSE d
      d2 == IF e.type = "delta" \/ Fresh(d, e)
            THEN emit(d1, "delta", e.turn, e.id, 1, e.text[1]) ELSE d1
      done == [item EXCEPT !.text = e.text, !.status = "completed"]
  IN IF e.type = "delta" THEN save(d2, e, [item EXCEPT !.text[1] = @ + e.text[1]])
     ELSE save(itemDone(PartDone(d2, e.turn, e.id, 1, e.text[1]), e, done), e, done)

\* ensurePart: a summary has every part up to the one that is named.
ensurePart(d, e, texts, part) ==
  FoldLeft(LAMBDA s, p : emit(s, "part.added", e.turn, e.id, p, 0), d,
           [i \in 1..(IF part > Len(texts) THEN part - Len(texts) ELSE 0) |-> Len(texts) + i])
Padded(texts, part) ==
  [p \in 1..(IF part > Len(texts) THEN part ELSE Len(texts)) |->
     IF p <= Len(texts) THEN texts[p] ELSE 0]

\* A part event names its summary index, a delta extends the first part, and the
\* whole summary adds what was not streamed and, when completed, closes each part.
acceptReasoning(d, e) ==
  LET item == Started(d, e, "reasoning")
      texts == Padded(item.text, Len(e.text))
      d1 == ensurePart(AddedIfNew(d, e), e, item.text, Len(e.text))
      streamed == [texts EXCEPT ![1] = @ + e.text[1]]
      final == [p \in DOMAIN texts |-> IF p <= Len(e.text) THEN e.text[p] ELSE texts[p]]
      d2 == FoldLeft(LAMBDA s, p :
                       IF e.text[p] > texts[p]
                       THEN emit(s, "delta", e.turn, e.id, p, e.text[p] - texts[p]) ELSE s,
                     d1, [p \in 1..Len(e.text) |-> p])
      done == [item EXCEPT !.text = final, !.status = e.status]
  IN CASE e.type = "reasoning_part" -> save(d1, e, [item EXCEPT !.text = texts])
       [] e.type = "reasoning_delta" ->
            save(emit(d1, "delta", e.turn, e.id, 1, e.text[1]), e, [item EXCEPT !.text = streamed])
       [] e.type = "reasoning" /\ e.status = "in_progress" -> save(d2, e, done)
       [] OTHER -> save(itemDone(PartsDone(d2, e.turn, e.id, final), e, done), e, done)

acceptCommandStream(d, e) ==
  LET item == Started(d, e, "command")
      d1 == AddedIfNew(d, e)
  IN save(IF e.type = "command_delta" THEN emit(d1, "output", e.turn, e.id, 1, 1) ELSE d1, e, item)

\* One event is the whole item, or its last state.
Whole(d, e) ==
  LET type == CHOOSE f \in DOMAIN Family : e.type \in Family[f]
  IN [index |-> Position(d, e), type |-> type, status |-> e.status, text |-> <<>>]
acceptWebSearch(d, e) ==
  LET d1 == save(AddedIfNew(d, e), e, Whole(d, e))
  IN IF e.status = "in_progress" THEN d1 ELSE itemDone(d1, e, Whole(d, e))
acceptCompletedItem(d, e) ==
  itemDone(save(AddedIfNew(d, e), e, Whole(d, e)), e, Whole(d, e))
acceptCollaboration(d, e) == acceptCompletedItem(d, e)

\* The call parks its turn and the session; a call id is required once.
acceptFunctionCall(d, e) ==
  LET d1 == acceptCompletedItem(d, e)
      action == [turn |-> e.turn, call |-> <<e.turn, e.id>>]
      known == \E a \in d.required : a.call = action.call
  IN emitTurn([d1 EXCEPT !.required = IF known THEN @ ELSE @ \cup {action},
                         !.status = "requires_action",
                         !.turns[e.turn] = "waiting"],
              "requires_action", e.turn)

acceptOutputItem(d, e) ==
  CASE e.type = "collaboration" -> acceptCollaboration(d, e)
    [] e.type \in Family.message -> acceptMessage(d, e)
    [] e.type \in Family.reasoning -> acceptReasoning(d, e)
    [] e.type \in {"command_start", "command_delta"} -> acceptCommandStream(d, e)
    [] e.type = "web_search" -> acceptWebSearch(d, e)
    [] e.type = "function_call" -> acceptFunctionCall(d, e)
    [] OTHER -> acceptCompletedItem(d, e)

\* finishOutputItems: partial items are closed, in the order of their positions.
Partial(d, turn) ==
  {id \in 1..MaxItem : \E p \in d.output[<<turn, id>>] : p.status = "in_progress"}
finishItem(d, turn, id) ==
  LET item == CHOOSE p \in d.output[<<turn, id>>] : TRUE
      d1 == IF item.type \in {"message", "reasoning"} THEN PartsDone(d, turn, id, item.text) ELSE d
  IN [emit(d1, "item.done", turn, id, item.index, 0) EXCEPT
        !.output[<<turn, id>>] = {[item EXCEPT !.status = "incomplete"]}]
finishOutputItemsOfRoot(d, turn) ==
  IF turn # Root THEN d
  ELSE FoldLeft(LAMBDA s, id : finishItem(s, turn, id), d, SetToSortSeq(Partial(d, turn), <))
finishOutputItems(d, turn) ==
  FoldLeft(LAMBDA s, id : finishItem(s, turn, id), d, SetToSortSeq(Partial(d, turn), <))

-----------------------------------------------------------------------------
(***************************************************************************)
(* Subagents, their turns and usage.                                       *)
(***************************************************************************)
acceptSubagent(d, e) ==
  LET d1 == [d EXCEPT !.agent = {e.status}]
  IN IF d.agent = {e.status} THEN d1
     ELSE emitTurn(d1, IF d.agent = {} THEN "subagent.created"
                       ELSE IF e.status = "closed" THEN "subagent.closed" ELSE "subagent.active",
                   Root)

acceptSubagentTurnEager(d, e) ==
  LET d1 == [d EXCEPT !.turns[e.turn] = e.status]
  IN IF e.status = "in_progress" THEN emitTurn(d1, "turn.in_progress", e.turn)
     ELSE emitTurn(finishOutputItems(d1, e.turn), Terminal[e.status], e.turn)
\* A completed child turn waits for the root's checkpoint; any other is published.
acceptSubagentTurn(d, e) ==
  LET new == d.turns[e.turn] = "none"
      d1 == [d EXCEPT !.turns[e.turn] = e.status]
      d2 == IF new THEN emitTurn(d1, "turn.created", e.turn) ELSE d1
  IN CASE e.status = "completed" ->
            [d EXCEPT !.pending = @ \cup {e.turn},
                      !.turns[e.turn] = IF new THEN "in_progress" ELSE @]
       [] e.status = "in_progress" -> emitTurn(d2, "turn.in_progress", e.turn)
       [] OTHER -> emitTurn(finishOutputItems(d2, e.turn), Terminal[e.status], e.turn)

\* Usage is cumulative in its turn: the session's total moves by the difference.
acceptUsage(d, e) ==
  [d EXCEPT !.usage = Max({0, @ + e.text[1] - d.turnUsage[e.turn]}),
            !.turnUsage[e.turn] = e.text[1]]

acceptRuntimeEvent(d, e) ==
  CASE e.type = "subagent" -> acceptSubagent(d, e)
    [] e.type = "subagent_turn" -> acceptSubagentTurn(d, e)
    [] e.type = "usage" -> acceptUsage(d, e)
    [] OTHER -> acceptOutputItem(d, e)

-----------------------------------------------------------------------------
(***************************************************************************)
(* The transactions.                                                       *)
(***************************************************************************)
\* An entry at or before the cursor was applied by an earlier batch.
applyEntry(d, seq) ==
  IF seq <= d.cursor THEN d
  ELSE [acceptRuntimeEvent(d, native[seq]) EXCEPT !.cursor = seq]

acceptBatch ==
  \E from \in 1..(store.cursor + 1) :
    LET to == IF from + MaxBatch - 1 < Len(native) THEN from + MaxBatch - 1 ELSE Len(native)
    IN /\ store.phase = "running" /\ to > store.cursor
       /\ store' = FoldLeft(applyEntry, store, [i \in 1..(to - from + 1) |-> from + i - 1])
       /\ UNCHANGED <<native, ended>>

\* acceptToolResult and recordToolResult: the last answer resumes its own turn.
acceptToolResult ==
  \E a \in store.required :
    LET rest == store.required \ {a}
        d == [store EXCEPT !.required = rest,
                           !.status = IF rest = {} THEN "in_progress" ELSE "requires_action",
                           !.turns[a.turn] = IF rest = {} THEN "in_progress" ELSE @]
        d1 == emitTurn(d, "result.added", a.turn)
    IN /\ store.phase = "running"
       /\ store' = IF rest = {} THEN emitTurn(d1, "in_progress", Root) ELSE d1
       /\ UNCHANGED <<native, ended>>

\* openChildTurns and closeChildTurns.
openChildTurns(d, status) ==
  IF status = "completed" THEN d.pending
  ELSE {c \in Child : d.turns[c] \in {"in_progress", "waiting"}}
closeChild(d, status, c) ==
  emitTurn(finishOutputItems([d EXCEPT !.turns[c] = status], c), Terminal[status], c)
closeChildTurns(d, status) ==
  [FoldLeft(LAMBDA s, c : closeChild(s, status, c), d, SetToSeq(openChildTurns(d, status)))
     EXCEPT !.pending = {}]

\* complete: children first, then the root turn, its items and its events.
complete(status) ==
  LET d == closeChildTurns(store, status)
      d1 == finishOutputItems([d EXCEPT !.turns[Root] = status], Root)
  IN /\ store.phase = "running"
     /\ status = "completed" => ended /\ store.cursor = Len(native)
     /\ store' = emitTurn(emitTurn([d1 EXCEPT !.phase = "idle", !.status = "idle", !.required = {}],
                                   Terminal[status], Root), "idle", Root)
     /\ UNCHANGED <<native, ended>>

\* The root turn was opened by the input that started it, and its runtime may have
\* spawned the subagent before the first poll.
Opening == <<Event("subagent", Root, 0, "active", <<>>)>>
             \o SetToSeq({Event("subagent_turn", c, 0, "in_progress", <<>>) : c \in Child})
Init ==
  /\ native \in {SubSeq(Opening, 1, n) : n \in 1..Len(Opening)} /\ ended = FALSE
  /\ store = [phase |-> "running", status |-> "in_progress", required |-> {}, cursor |-> 0,
              turns |-> [t \in Turn |-> IF t = Root THEN "in_progress" ELSE "none"],
              agent |-> {}, pending |-> {},
              output |-> [k \in Key |-> {}], count |-> [t \in Turn |-> 0],
              usage |-> 0, turnUsage |-> [t \in Turn |-> 0], log |-> <<>>]

Next ==
  \/ Runtime
  \/ RuntimeEnds
  \/ acceptBatch
  \/ acceptToolResult
  \/ \E status \in Settled : complete(status)

Spec == Init /\ [][Next]_vars

-----------------------------------------------------------------------------
(***************************************************************************)
(* Properties.  They compare the public log with the runtime's.            *)
(***************************************************************************)
Published(turn, id) ==
  SelectSeq(store.log, LAMBDA e : e.turn = turn /\ e.id = id)
Where(type, turn, id) ==
  {i \in DOMAIN store.log :
     store.log[i].type = type /\ store.log[i].turn = turn /\ store.log[i].id = id}
Ends(turn) == UNION {Where(Terminal[s], turn, 0) : s \in Settled}

\* Every item of acceptOutputItem is announced once, before anything else is said
\* of it, and done at most once, after everything else; a turn's terminal event
\* comes only after each of its items is done, whichever way the turn ended.
ItemsClosed ==
  \A turn \in Turn, id \in 1..MaxItem :
    LET h == Published(turn, id)
        starts == Where("item.added", turn, id)
        dones == Where("item.done", turn, id)
    IN /\ h # <<>> => h[1].type = "item.added" /\ Cardinality(starts) = 1
       /\ dones # {} => Cardinality(dones) = 1 /\ Last(h).type = "item.done"
       /\ \A i \in Ends(turn) : h # <<>> => \E j \in dones : j < i

\* The output indexes of a turn are 0, 1, 2, ... in the order in which the runtime
\* first named its items, although batches repeat, items of other turns come between
\* and the client answers in the meantime.
IndexesFollowRuntime ==
  \A turn \in Turn :
    LET h == SelectSeq(store.log, LAMBDA e : e.turn = turn /\ e.type = "item.added")
    IN \A i \in DOMAIN h : h[i].index = i - 1 /\ h[i].id = i

\* Who listens to the deltas of a text part has exactly the text that closes the part,
\* whether the runtime closed it or the end of the turn did.
DeltasMakeText ==
  \A i \in DOMAIN store.log :
    store.log[i].type = "text.done" =>
      LET deltas == {j \in 1..(i - 1) :
                       /\ store.log[j].type = "delta" /\ store.log[j].index = store.log[i].index
                       /\ store.log[j].turn = store.log[i].turn /\ store.log[j].id = store.log[i].id}
      IN store.log[i].text = MapThenSumSet(LAMBDA j : store.log[j].text, deltas)

\* The session's usage is the sum of what the runtime last reported for each turn.
UsageAddsUp ==
  LET seen == SubSeq(native, 1, store.cursor)
      reported(turn) == SelectSeq(seen, LAMBDA e : e.type = "usage" /\ e.turn = turn)
  IN store.usage = MapThenSumSet(LAMBDA turn : IF reported(turn) = <<>> THEN 0
                                               ELSE Last(reported(turn)).text[1], Turn)

\* What clients are shown is the runtime's log, each event once, at its index and complete,
\* whichever batches repeat and whatever answers and seals come in between.
LogFaithful == ItemsClosed /\ IndexesFollowRuntime /\ DeltasMakeText /\ UsageAddsUp

\* A child's completion is published once, with the root's completion: never before the
\* checkpoint that holds its history, never when the root fails, and never forgotten.
ChildrenCompleteWithRoot ==
  \A c \in Child :
    LET completed == \E i \in 1..store.cursor : native[i] = Event("subagent_turn", c, 0, "completed", <<>>)
        ends == Where("turn.completed", c, 0)
    IN /\ Cardinality(ends) <= 1
       /\ ends # {} => completed
       /\ ends # {} <=> completed /\ Where("turn.completed", Root, 0) # {}
       /\ \A i \in ends, j \in Where("turn.completed", Root, 0) : i < j

=============================================================================
