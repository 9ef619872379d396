---------------------------- MODULE ModelGateway ----------------------------
(***************************************************************************)
(* One request to the model gateway (models/gateway.ts, models.ts,         *)
(* models/output.ts, models/body.ts): the registry entry is a fallback     *)
(* over candidates tried in order, the candidate that answers through the  *)
(* AI SDK has its parts encoded as the frames of the harness's protocol,   *)
(* and the harness reads them, leaves, or closes the body half-way.        *)
(*                                                                         *)
(* A candidate is an AI SDK model ("sdk"), a provider that speaks the      *)
(* protocol itself ("native"), an adapter of the deployment ("custom") or  *)
(* a factory that throws ("broken").  The providers are external: they     *)
(* answer with any status, and an SDK stream ends with a finish, with an   *)
(* error or with nothing.  Parts of one type are not interleaved, a call   *)
(* is one part.  All adapters honour the abort signal.                     *)
(*                                                                         *)
(* The token of a part is its position, so two texts are equal only if     *)
(* they were made of the same parts in the same order.  Usage, ids and     *)
(* headers are left out; the frames that announce and end the one content  *)
(* part of an item are those of the item.                                  *)
(***************************************************************************)
EXTENDS Naturals, Sequences, FiniteSets

CONSTANTS Models,    \* number of candidates of the registry entry
          Id,        \* ids the SDK gives to the parts of an answer
          MaxParts,  \* bound on the parts of one SDK stream
          ByteLimit  \* output chunks that fit 8 MiB

ASSUME GatewayAssumption ==
  /\ Models \in Nat \ {0} /\ IsFiniteSet(Id)
  /\ MaxParts \in Nat /\ ByteLimit \in Nat

VARIABLES request,    \* what the harness sent, and its abort signal
          handler,    \* where the handler is: candidate, outcome of the last one
          upstream,   \* the connection to each candidate
          inference,  \* the SDK stream read, the items the encoder keeps, what failed it
          out,        \* frames the encoder yielded and the harness did not pull
          reader      \* what the harness has

gatewayVars == <<request, handler, upstream, inference, out, reader>>

Protocol == {"responses", "anthropic", "chat-completions"}
Kind == {"sdk", "native", "custom", "broken"}
\* 200, 400, 429, 500 and a redirect stand for their classes.
Status == {"ok", "client_error", "too_many", "server_error", "redirect"}
ItemType == {"text", "reasoning", "call"}

Part(type, id) == [type |-> type, id |-> id]
Framing == Part("framing", "none")
Done == Part("done", "none")
Finishes == {Part("finish", r) : r \in {"stop", "tool-calls", "length"}}

GatewayInit ==
  /\ request \in [protocol : Protocol, stream : BOOLEAN, decodes : BOOLEAN,
                  wrong : {"no", "method", "body", "size", "model"}, aborted : {FALSE},
                  kind : [1..Models -> Kind]]
  /\ request.wrong # "no" => request.decodes /\ request.stream
  /\ handler = [at |-> "received", index |-> 1, last |-> "none"]
  /\ upstream = [c \in 1..Models |-> "off"]
  /\ inference = [parts |-> <<>>, ahead |-> <<>>, items |-> <<>>, finish |-> "none",
                  framings |-> 0, cause |-> Done]
  /\ out = <<>>
  /\ reader = [at |-> "waiting", body |-> "none", frames |-> <<>>]

-----------------------------------------------------------------------------
(***************************************************************************)
(* Ending a request                                                        *)
(***************************************************************************)
Answer(body) == reader' = IF reader.at = "waiting"
                          THEN [reader EXCEPT !.at = "reading", !.body = body] ELSE reader
Answered(c) == [handler EXCEPT !.at = "answered", !.index = c]
\* A refusal of the gateway, or the failure of the last candidate, is one
\* complete error document.
Refuse == reader' = IF reader.at = "waiting"
                    THEN [reader EXCEPT !.at = "over", !.body = "error"] ELSE reader

\* createModelGateway: the request is refused, or goes to its registry entry.
Receive ==
  /\ handler.at = "received"
  /\ IF request.wrong = "no"
     THEN handler' = [handler EXCEPT !.at = "next"] /\ UNCHANGED reader
     ELSE handler' = Answered(1) /\ Refuse
  /\ UNCHANGED <<request, upstream, inference, out>>

-----------------------------------------------------------------------------
(***************************************************************************)
(* fallbackModel                                                           *)
(***************************************************************************)
Tries(kind) ==
  /\ handler.at = "next" /\ handler.index <= Models /\ ~request.aborted
  /\ request.kind[handler.index] = kind
Closes(c) == upstream' = [upstream EXCEPT ![c] = "closed"]
\* The candidate failed: the next one has its turn.
Failed == handler' = [handler EXCEPT !.at = "next", !.index = @ + 1, !.last = "failure"]
rejected(status) == status \in {"too_many", "server_error"}
\* A rejected answer: its body is cancelled when there is another candidate.
Discard == handler.index < Models
SkipResponse(c) ==
  /\ handler' = [handler EXCEPT !.at = "next", !.index = @ + 1, !.last = "response"]
  /\ upstream' = [upstream EXCEPT ![c] = IF Discard THEN "closed" ELSE @]

CallBroken ==
  /\ Tries("broken")
  /\ Failed
  /\ UNCHANGED <<request, upstream, inference, out, reader>>

\* An adapter of the deployment answers with an open body, or throws.
CallCustom(status) ==
  /\ Tries("custom")
  /\ LET c == handler.index
     IN /\ upstream[c] = "off"
        /\ \/ Failed /\ Closes(c) /\ UNCHANGED reader
           \/ /\ rejected(status)
              /\ handler' = [handler EXCEPT !.at = "rejected"]
              /\ upstream' = [upstream EXCEPT ![c] = "open"] /\ UNCHANGED reader
           \/ /\ ~rejected(status)
              /\ handler' = Answered(c) /\ Answer("raw")
              /\ upstream' = [upstream EXCEPT ![c] = "open"]
  /\ UNCHANGED <<request, inference, out>>

\* nativeModel: the protocol must match; a redirect is a failure, an error
\* body is read to its end and replaced by a sanitized one.
CallNative(status, sameProtocol) ==
  /\ Tries("native")
  /\ LET c == handler.index
     IN \/ /\ ~sameProtocol \/ status = "redirect"
           /\ Failed /\ Closes(c) /\ UNCHANGED reader
        \/ /\ sameProtocol /\ rejected(status)
           /\ handler' = [handler EXCEPT !.at = "rejected"] /\ Closes(c) /\ UNCHANGED reader
        \/ /\ sameProtocol /\ status \in {"ok", "client_error"}
           /\ handler' = Answered(c) /\ Answer("raw")
           /\ upstream' = [upstream EXCEPT ![c] = IF status = "ok" THEN "open" ELSE "closed"]
  /\ UNCHANGED <<request, inference, out>>

\* The loop looks at a rejected answer.
Skip ==
  /\ handler.at = "rejected"
  /\ SkipResponse(handler.index)
  /\ UNCHANGED <<request, inference, out, reader>>

\* The candidates are used up, or the harness has gone: the last outcome answers.
Exhausted ==
  /\ handler.at = "next" /\ (handler.index > Models \/ request.aborted)
  /\ handler' = Answered(handler.index)
  /\ IF handler.last = "response" THEN Answer("raw") ELSE Refuse
  /\ UNCHANGED <<request, upstream, inference, out>>

-----------------------------------------------------------------------------
(***************************************************************************)
(* aiSDKModel                                                              *)
(***************************************************************************)
\* An id is new, or that of the text or reasoning that is being written.
MayYield(type, id) ==
  LET of == SelectSeq(inference.items, LAMBDA i : i.type = type)
  IN \/ \A i \in 1..Len(of) : of[i].id # id
     \/ type # "call" /\ of[Len(of)].id = id
Outputs == {p \in {Part(t, i) : t \in ItemType, i \in Id} : MayYield(p.type, p.id)}
\* The part the provider's stream yields next.
Yields ==
  IF upstream[handler.index] # "open" \/ inference.finish # "none" THEN {Done}
  ELSE {Done, Part("error", "none")} \cup Finishes
       \cup (IF inference.framings = 0 THEN {Framing} ELSE {})
       \cup (IF Len(inference.parts) = MaxParts THEN {} ELSE Outputs \cup {Part("invalid", "none")})

\* The request is decoded and streamText opens the stream.
CallSdk ==
  /\ Tries("sdk")
  /\ IF request.decodes
     THEN /\ handler' = [handler EXCEPT !.at = "first"]
          /\ upstream' = [upstream EXCEPT ![handler.index] = "open"]
          /\ inference' = [parts |-> <<>>, ahead |-> <<>>, items |-> <<>>, finish |-> "none",
                           framings |-> 0, cause |-> Done]
     ELSE Failed /\ UNCHANGED <<upstream, inference>>
  /\ UNCHANGED <<request, out, reader>>

AnyPart(part) == TRUE
substantive(part) == part.type \in ItemType \cup {"invalid", "finish", "error"}
\* Nothing is committed before the first part with output or an outcome.
First(part) ==
  /\ handler.at = "first" /\ part \in Yields
  /\ LET c == handler.index
         ready == part = Done \/ substantive(part)
     IN \/ /\ ~ready
           /\ inference' = [inference EXCEPT !.framings = @ + 1]
           /\ UNCHANGED <<handler, upstream, out, reader>>
        \/ /\ ready /\ part.type = "error"
           /\ Failed /\ Closes(c)
           /\ UNCHANGED <<inference, out, reader>>
        \/ /\ ready /\ part.type # "error"
           /\ handler' = [handler EXCEPT !.at = "encoding"]
           /\ inference' = [inference EXCEPT !.ahead = <<part>>]
           /\ IF request.stream
              THEN Answer("stream") /\ out' = <<[type |-> "start"]>>
              ELSE UNCHANGED <<out, reader>>
           /\ UNCHANGED upstream
  /\ UNCHANGED request

-----------------------------------------------------------------------------
(***************************************************************************)
(* encodeModelResponse                                                     *)
(***************************************************************************)
Calls(items) == SelectSeq(items, LAMBDA i : i.type = "call")
hasCalls(items) == Calls(items) # <<>>

\* A fresh item is announced, except in Chat Completions.
itemAdded(index, item) ==
  IF request.protocol = "chat-completions" THEN <<>>
  ELSE <<[type |-> "added", index |-> index, kind |-> item.type, id |-> item.id]>>
\* The increment: by index, and in Chat Completions by the kind of the
\* output and the number of calls before it.
CallsBefore(items, index) == Len(Calls(SubSeq(items, 1, index - 1)))
itemDelta(items, index, kind, token) ==
  <<[type |-> "delta", kind |-> kind, token |-> token, id |-> items[index].id,
     index |-> IF request.protocol # "chat-completions" THEN index
               ELSE IF kind = "call" THEN CallsBefore(items, index) + 1 ELSE 0]>>

ItemOfId(items, part) ==
  {i \in 1..Len(items) : items[i].id = part.id}
ItemOf(items, part) ==
  {i \in 1..Len(items) : items[i].id = part.id /\ items[i].type = part.type}
\* accept, of one chunk: fold one chunk into its item and yield its frames.
acceptPart(part) ==
  LET token == Len(inference.parts) + 1
      found == ItemOf(inference.items, part)
      index == IF found = {} THEN Len(inference.items) + 1 ELSE CHOOSE i \in found : TRUE
      items == IF found = {} THEN Append(inference.items, [id |-> part.id, type |-> part.type, text |-> <<>>])
               ELSE inference.items
  IN /\ inference' = [inference EXCEPT !.ahead = <<>>, !.parts = Append(@, part),
                                       !.items = [items EXCEPT ![index].text = Append(@, token)]]
     /\ out' = IF request.stream
               THEN (IF found = {} THEN itemAdded(index, items[index]) ELSE <<>>)
                    \o itemDelta(items, index, part.type, token)
               ELSE <<>>

\* The whole answer: its items, or in Chat Completions one message.
TextsOf(items, type) ==
  LET of == SelectSeq(items, LAMBDA i : i.type = type)
      joined[n \in 0..Len(of)] == IF n = 0 THEN <<>> ELSE joined[n - 1] \o of[n].text
  IN joined[Len(of)]
finalDocument(items) ==
  IF request.protocol = "chat-completions"
  THEN [content |-> TextsOf(items, "text"), reasoning |-> TextsOf(items, "reasoning"),
        calls |-> [i \in 1..Len(Calls(items)) |-> Calls(items)[i].id]]
  ELSE [items |-> items]
\* itemDone and epilogue: every item is closed, then the response.
Closing(items) ==
  [i \in 1..Len(items) |-> [type |-> "done", index |-> i,
                            text |-> IF request.protocol = "responses" THEN items[i].text ELSE <<>>]]
epilogue(items) ==
  (IF request.protocol = "chat-completions" THEN <<>> ELSE Closing(items))
  \o <<[type |-> "completed", runsTools |-> hasCalls(items)]>>

\* The output is incomplete: a stream ends with a failure frame, a document
\* fails as a whole and the next candidate has its turn.
OutputFails(part) ==
  /\ Closes(handler.index)
  /\ inference' = [inference EXCEPT !.ahead = <<>>, !.cause = part]
  /\ IF request.stream
     THEN out' = <<[type |-> "failed"]>> /\ handler' = Answered(handler.index)
     ELSE Failed /\ UNCHANGED out
  /\ UNCHANGED reader
OutputEnds ==
  /\ Closes(handler.index)
  /\ handler' = Answered(handler.index)
  /\ IF request.stream
     THEN out' = epilogue(inference.items) /\ UNCHANGED reader
     ELSE /\ reader' = IF reader.at # "waiting" THEN reader
                       ELSE [reader EXCEPT !.at = "over", !.body = "document",
                                           !.frames = <<finalDocument(inference.items)>>]
          /\ UNCHANGED out
  /\ UNCHANGED inference

Whole(finish) == finish \in {"stop", "tool-calls"}
\* encode: one turn of the loop over the chunks, when its frames were pulled.
Encode(part) ==
  /\ handler.at = "encoding" /\ out = <<>>
  /\ IF inference.ahead # <<>> THEN part = inference.ahead[1] ELSE part \in Yields
  /\ \/ /\ part.type \in ItemType /\ Len(inference.parts) < ByteLimit
        /\ acceptPart(part) /\ UNCHANGED <<handler, upstream, reader>>
     \/ /\ part.type \in ItemType /\ Len(inference.parts) >= ByteLimit
        /\ OutputFails(part)
     \/ /\ part.type = "finish"
        /\ inference' = [inference EXCEPT !.ahead = <<>>, !.finish = part.id]
        /\ UNCHANGED <<handler, upstream, out, reader>>
     \/ /\ part.type = "framing"
        /\ inference' = [inference EXCEPT !.ahead = <<>>, !.framings = @ + 1]
        /\ UNCHANGED <<handler, upstream, out, reader>>
     \/ /\ part.type \in {"error", "invalid"}
        /\ OutputFails(part)
     \/ /\ part = Done
        /\ IF Whole(inference.finish) THEN OutputEnds ELSE OutputFails(part)
  /\ UNCHANGED request

-----------------------------------------------------------------------------
(***************************************************************************)
(* The harness                                                             *)
(***************************************************************************)
Ends(frame) == frame.type \in {"completed", "failed"}
\* pull: the next frame of the stream.
Pull ==
  /\ reader.at = "reading" /\ reader.body = "stream" /\ out # <<>>
  /\ reader' = [reader EXCEPT !.frames = Append(@, Head(out)),
                              !.at = IF Ends(Head(out)) THEN "over" ELSE @]
  /\ out' = Tail(out)
  /\ UNCHANGED <<request, handler, upstream, inference>>

\* A body that is passed through is read to its end.
ReadRaw ==
  /\ reader.at = "reading" /\ reader.body = "raw"
  /\ reader' = [reader EXCEPT !.at = "over"]
  /\ upstream' = [c \in 1..Models |-> IF upstream[c] = "open" THEN "closed" ELSE upstream[c]]
  /\ UNCHANGED <<request, handler, inference, out>>

\* cancel: the harness closes the body half-way; the upstream is aborted.
Cancel ==
  /\ reader.at = "reading"
  /\ reader' = [reader EXCEPT !.at = "gone"]
  /\ out' = <<>> /\ handler' = Answered(handler.index)
  /\ upstream' = [c \in 1..Models |-> IF upstream[c] = "open" THEN "closed" ELSE upstream[c]]
  /\ UNCHANGED <<request, inference>>

\* The harness drops the request before the answer: the signal reaches the
\* connections, the handler runs on.
Abort ==
  /\ reader.at = "waiting" /\ ~request.aborted
  /\ request' = [request EXCEPT !.aborted = TRUE]
  /\ reader' = [reader EXCEPT !.at = "gone"]
  /\ upstream' = [c \in 1..Models |-> IF upstream[c] = "open" THEN "closed" ELSE upstream[c]]
  /\ UNCHANGED <<handler, inference, out>>

GatewayNext ==
  \/ Receive \/ CallBroken \/ Skip \/ Exhausted
  \/ \E s \in Status : CallCustom(s)
  \/ \E s \in Status, same \in BOOLEAN : CallNative(s, same)
  \/ CallSdk
  \/ handler.at = "first" /\ \E p \in Yields : First(p)
  \/ handler.at = "encoding" /\ \E p \in Yields \cup {inference.ahead[i] : i \in 1..Len(inference.ahead)} : Encode(p)
  \/ Pull \/ ReadRaw \/ Cancel \/ Abort

-----------------------------------------------------------------------------
(***************************************************************************)
(* Properties                                                              *)
(***************************************************************************)
\* What the provider said, read off its parts.
SaidParts == inference.parts
Where(S) == SelectSeq([i \in 1..Len(SaidParts) |-> i], LAMBDA i : i \in S)
SaidOf(type) == Where({i \in 1..Len(SaidParts) : SaidParts[i].type = type})
SaidItems ==
  LET first == Where({i \in 1..Len(SaidParts) : \A j \in 1..i-1 : SaidParts[j] # SaidParts[i]})
  IN [n \in 1..Len(first) |->
        [id |-> SaidParts[first[n]].id, type |-> SaidParts[first[n]].type,
         text |-> Where({i \in 1..Len(SaidParts) : SaidParts[i] = SaidParts[first[n]]})]]
SaidAnswer ==
  IF request.protocol # "chat-completions" THEN [items |-> SaidItems]
  ELSE [content |-> SaidOf("text"), reasoning |-> SaidOf("reasoning"),
        calls |-> [n \in 1..Len(SaidOf("call")) |-> SaidParts[SaidOf("call")[n]].id]]

\* What a client of the protocol makes of the frames.
FramesOf(type) == SelectSeq(reader.frames, LAMBDA f : f.type = type)
Tokens(kind, index) ==
  LET of == SelectSeq(FramesOf("delta"), LAMBDA f : f.kind = kind /\ f.index = index)
  IN [n \in 1..Len(of) |-> of[n].token]
ReadItems ==
  [n \in 1..Len(FramesOf("added")) |->
     LET f == FramesOf("added")[n]
     IN [id |-> f.id, type |-> f.kind, text |-> Tokens(f.kind, f.index)]]
ReadCalls == SelectSeq(FramesOf("delta"), LAMBDA f : f.kind = "call")
ReadAnswer ==
  IF request.protocol # "chat-completions" THEN [items |-> ReadItems]
  ELSE [content |-> Tokens("text", 0), reasoning |-> Tokens("reasoning", 0),
        calls |-> [n \in 1..Len(ReadCalls) |-> (CHOOSE f \in {ReadCalls[i] : i \in 1..Len(ReadCalls)} :
                                                 f.index = n).id]]
\* Every announced item is closed once, in the end, with the text it had.
ItemsClosed ==
  request.protocol # "chat-completions" =>
    /\ Len(FramesOf("done")) = Len(FramesOf("added"))
    /\ \A n \in 1..Len(FramesOf("done")) :
         /\ FramesOf("done")[n].index = n /\ FramesOf("added")[n].index = n
         /\ request.protocol = "responses" => FramesOf("done")[n].text = ReadItems[n].text

(* A harness that reads a stream to its completion, in any of the three     *)
(* protocols, has rebuilt exactly the texts, reasonings and calls the model *)
(* produced, each under its item, and is told to run tools exactly when     *)
(* there are calls; the document of the same request without streaming says *)
(* the same; and neither is given for an output that was cut short          *)
(* (encodeModelResponse).                                                   *)
StreamMakesDocument ==
  /\ reader.body = "stream" /\ FramesOf("completed") # <<>> =>
       /\ ReadAnswer = SaidAnswer /\ ItemsClosed
       /\ FramesOf("completed")[1].runsTools = (SaidOf("call") # <<>>)
       /\ inference.finish \in {"stop", "tool-calls"}
  /\ reader.body = "document" =>
       reader.frames[1] = SaidAnswer /\ inference.finish \in {"stop", "tool-calls"}

Shown(type) == \E i \in 1..Len(reader.frames) : reader.frames[i].type = type
(* A provider that answers with an error before any output never costs the  *)
(* harness its stream: the error fails the candidate, so that a fallback    *)
(* tries the next model with the same request; a stream only fails with no  *)
(* output when the provider gave none (aiSDKModel, "model.first").          *)
ErrorsBeforeOutputFallBack ==
  reader.body = "stream" /\ Shown("failed") /\ ~Shown("delta") =>
    inference.cause.type # "error"

(* At most one model works on a request, and none when the harness has its  *)
(* answer, has closed the body or has gone: a candidate that was skipped, a *)
(* stream that failed or was dropped never leaves its provider generating   *)
(* (fallbackModel's discard, the encoder's finally and cancel).             *)
UpstreamsReleased ==
  LET working == {c \in 1..Models : upstream[c] = "open"}
  IN Cardinality(working) <= 1 /\ (reader.at \in {"over", "gone"} => working = {})
(* A candidate's failure stays with the candidate: it costs the harness no  *)
(* stream that had not begun, and the provider no work nobody reads.        *)
FailuresContained == ErrorsBeforeOutputFallBack /\ UpstreamsReleased
=============================================================================
