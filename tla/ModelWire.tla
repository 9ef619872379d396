------------------------------ MODULE ModelWire ------------------------------
(***************************************************************************)
(* A conversation of a harness with the model gateway, as the wire         *)
(* protocols carry it (models/input.ts, models/output.ts).  The gateway    *)
(* keeps nothing: each request brings the declared tools and the whole     *)
(* history, decodeModelRequest makes the tools and messages of the AI SDK  *)
(* of them, and the answer is encoded as the items or the message that the *)
(* harness appends to the history with the results of its calls.           *)
(*                                                                         *)
(* A name is a sequence of words, and "__" joins two names.  The payload   *)
(* of a message, a call or a result is its number in the conversation.     *)
(* The harness is external: it keeps the history as it was given, runs     *)
(* each call once and answers it by the call's id.                         *)
(***************************************************************************)
EXTENDS Naturals, Sequences, FiniteSets

CONSTANTS WireProtocol, \* the protocols of the instance
          Declarable,   \* tool definitions a harness may declare
          Found,        \* tool definitions a search may find
          MaxDeclared,  \* bound on the declared definitions
          MaxSaid       \* bound on the messages of the conversation

ASSUME WireAssumption == MaxDeclared \in Nat /\ MaxSaid \in Nat

VARIABLES dialog,   \* the harness: protocol, declared tools, history, calls it has to run
          decoded,  \* the request the gateway decoded last
          spoken    \* history: the messages of the conversation, as the models meant them

wireVars == <<dialog, decoded, spoken>>

\* A definition as the harness writes it; a namespace holds members.
Raw(type, name, schema) == [type |-> type, name |-> name, schema |-> schema, members |-> <<>>]
Namespace(name, members) == [type |-> "namespace", name |-> name, schema |-> 0, members |-> members]
SearchName == <<"tool_search">>
None == <<>>

-----------------------------------------------------------------------------
(***************************************************************************)
(* Tools                                                                   *)
(***************************************************************************)
Concat(seqs) ==
  LET upTo[n \in 0..Len(seqs)] == IF n = 0 THEN <<>> ELSE upTo[n - 1] \o seqs[n]
  IN upTo[Len(seqs)]

flattenNamespace(raw, discovered) ==
  LET flat(tool, namespace) == [tool |-> tool, namespace |-> namespace, discovered |-> discovered]
  IN IF raw.type # "namespace" THEN <<flat(raw, None)>>
     ELSE [i \in 1..Len(raw.members) |-> flat(raw.members[i], raw.name)]

\* Functions, custom tools and, in Responses, the client's own search; anything
\* else has no schema the gateway could pass on.
Understood(protocol, tool) ==
  tool.type \in {"function", "custom"} \/ (protocol = "responses" /\ tool.type = "tool_search")
ToolName(flat) ==
  IF flat.tool.type = "tool_search" THEN SearchName ELSE flat.namespace \o flat.tool.name
decodeToolDefinition(flat) ==
  [name |-> ToolName(flat),
   wireName |-> IF flat.tool.type = "tool_search" THEN SearchName ELSE flat.tool.name,
   namespace |-> flat.namespace, schema |-> flat.tool.schema,
   custom |-> flat.tool.type = "custom", search |-> flat.tool.type = "tool_search"]

\* The definitions of the request: the declared ones, then those found by an
\* earlier search, in Responses only.
historyTools(protocol, history) ==
  LET outputs == SelectSeq(history, LAMBDA i : i.type = "tool_search_output")
  IN IF protocol # "responses" THEN <<>>
     ELSE Concat([i \in 1..Len(outputs) |-> outputs[i].tools])
Definitions(protocol, declared, history) ==
  LET found == historyTools(protocol, history)
  IN Concat([i \in 1..Len(declared) |-> flattenNamespace(declared[i], FALSE)])
       \o Concat([i \in 1..Len(found) |-> flattenNamespace(found[i], TRUE)])

SameDefinition(acc, same, tool) == \A i \in same : acc.tools[i] = tool
\* decodeTools: a discovered definition identical to an earlier one is
\* dropped, any other duplicate and any unknown kind refuses the request.
Refused == [refused |-> TRUE, tools |-> <<>>]
decodeTools(protocol, declared, history) ==
  LET defs == Definitions(protocol, declared, history)
      step(acc, def) ==
        LET tool == decodeToolDefinition(def)
            same == {i \in 1..Len(acc.tools) : acc.tools[i].name = tool.name}
        IN IF acc.refused \/ ~Understood(protocol, def.tool) THEN Refused
           ELSE IF same = {} THEN [acc EXCEPT !.tools = Append(@, tool)]
           ELSE IF def.discovered /\ SameDefinition(acc, same, tool) THEN acc
           ELSE Refused
      upTo[n \in 0..Len(defs)] ==
        IF n = 0 THEN [refused |-> FALSE, tools |-> <<>>] ELSE step(upTo[n - 1], defs[n])
  IN upTo[Len(defs)]

-----------------------------------------------------------------------------
(***************************************************************************)
(* Messages                                                                *)
(***************************************************************************)
Spoken(role, kind, id, name, text) ==
  [role |-> role, kind |-> kind, id |-> id, name |-> name, text |-> text]
\* One entry of the history: an item of Responses, a part of a message of the
\* Messages API, or a message of Chat Completions.
WireEntry(type, role, id, namespace, name, text) ==
  [type |-> type, role |-> role, id |-> id, namespace |-> namespace, name |-> name, text |-> text,
   tools |-> <<>>, encrypted |-> FALSE]

\* Transcript: a result is decoded only after the call it answers.
push(script, message) == [script EXCEPT !.messages = Append(@, message)]
appendCall(script, id, name, text) ==
  [push(script, Spoken("assistant", "call", id, name, text)) EXCEPT !.calls = @ \cup {<<id, name>>}]
appendResult(script, id, text) ==
  LET named == {c \in script.calls : c[1] = id}
  IN IF named = {} THEN [script EXCEPT !.refused = TRUE]
     ELSE push(script, Spoken("tool", "result", id, (CHOOSE c \in named : TRUE)[2], text))

BareCallName(entry) == entry.name
WireCallName(entry) == entry.namespace \o entry.name
decodeResponsesItem(script, entry) ==
  CASE entry.type = "tool_search_call" -> appendCall(script, entry.id, SearchName, entry.text)
    [] entry.type \in {"function_call", "custom_tool_call"} ->
         appendCall(script, entry.id, WireCallName(entry), entry.text)
    [] entry.type \in {"function_call_output", "custom_tool_call_output", "tool_search_output"} ->
         appendResult(script, entry.id, entry.text)
    [] entry.type = "reasoning" ->
         IF entry.encrypted THEN [script EXCEPT !.refused = TRUE]
         ELSE push(script, Spoken("assistant", "reasoning", 0, None, entry.text))
    [] entry.type = "message" -> push(script, Spoken(entry.role, "text", 0, None, entry.text))
decodeMessagePart(script, entry) ==
  CASE entry.type = "tool_use" -> appendCall(script, entry.id, entry.name, entry.text)
    [] entry.type = "tool_result" -> appendResult(script, entry.id, entry.text)
    [] entry.type = "text" -> push(script, Spoken(entry.role, "text", 0, None, entry.text))
    [] entry.type = "thinking" -> push(script, Spoken("assistant", "reasoning", 0, None, entry.text))
\* The content of an assistant message, its reasoning, then its calls.
decodeChatMessage(script, entry) ==
  LET said == push(script, Spoken(entry.role, "text", 0, None, entry.text))
      thought == IF entry.thinking = <<>> THEN said
                 ELSE push(said, Spoken("assistant", "reasoning", 0, None, entry.thinking))
      upTo[n \in 0..Len(entry.calls)] ==
        IF n = 0 THEN thought
        ELSE appendCall(upTo[n - 1], entry.calls[n].id, entry.calls[n].name, entry.calls[n].text)
  IN IF entry.type = "tool" THEN appendResult(script, entry.id, entry.text)
     ELSE upTo[Len(entry.calls)]
decodeMessages(protocol, history) ==
  LET step(script, entry) ==
        CASE protocol = "responses" -> decodeResponsesItem(script, entry)
          [] protocol = "anthropic" -> decodeMessagePart(script, entry)
          [] protocol = "chat-completions" -> decodeChatMessage(script, entry)
      upTo[n \in 0..Len(history)] ==
        IF n = 0 THEN [messages |-> <<>>, calls |-> {}, refused |-> FALSE]
        ELSE step(upTo[n - 1], history[n])
  IN upTo[Len(history)]

-----------------------------------------------------------------------------
(***************************************************************************)
(* The answer on the wire: item is [kind, id, name, text]                  *)
(***************************************************************************)
Definition(tools, name) == CHOOSE i \in 1..Len(tools) : tools[i].name = name
WireNamespace(tool) == tool.namespace
responsesItem(tools, item) ==
  IF item.kind = "reasoning" THEN WireEntry("reasoning", "assistant", 0, None, None, item.text)
  ELSE IF item.kind = "text" THEN WireEntry("message", "assistant", 0, None, None, item.text)
  ELSE LET tool == tools[Definition(tools, item.name)]
       IN IF tool.search THEN WireEntry("tool_search_call", "assistant", item.id, None, SearchName, item.text)
          ELSE WireEntry(IF tool.custom THEN "custom_tool_call" ELSE "function_call", "assistant", item.id,
                     WireNamespace(tool), tool.wireName, item.text)
anthropicItem(item) ==
  CASE item.kind = "call" -> WireEntry("tool_use", "assistant", item.id, None, item.name, item.text)
    [] item.kind = "reasoning" -> WireEntry("thinking", "assistant", 0, None, None, item.text)
    [] item.kind = "text" -> WireEntry("text", "assistant", 0, None, None, item.text)
ChatEntry(type, role, id, text, thinking, calls) ==
  [type |-> type, role |-> role, id |-> id, text |-> text, thinking |-> thinking, calls |-> calls]
chatMessage(items) ==
  LET of(kind) == SelectSeq(items, LAMBDA i : i.kind = kind)
      joined(kind) == Concat([i \in 1..Len(of(kind)) |-> of(kind)[i].text])
  IN ChatEntry("message", "assistant", 0, joined("text"), joined("reasoning"), of("call"))
Answers(protocol, tools, items) ==
  CASE protocol = "responses" -> [i \in 1..Len(items) |-> responsesItem(tools, items[i])]
    [] protocol = "anthropic" -> [i \in 1..Len(items) |-> anthropicItem(items[i])]
    [] protocol = "chat-completions" -> <<chatMessage(items)>>

-----------------------------------------------------------------------------
(***************************************************************************)
(* The conversation                                                        *)
(***************************************************************************)
Hears(text) ==
  IF dialog.protocol = "chat-completions" THEN ChatEntry("message", "user", 0, text, <<>>, <<>>)
  ELSE WireEntry(IF dialog.protocol = "responses" THEN "message" ELSE "text", "user", 0, None, None, text)
Result(call, text, tools) ==
  CASE dialog.protocol = "responses" ->
         [WireEntry(CASE call.type = "tool_search_call" -> "tool_search_output"
                  [] call.type = "custom_tool_call" -> "custom_tool_call_output"
                  [] OTHER -> "function_call_output", "tool", call.id, None, None, text) EXCEPT !.tools = tools]
    [] dialog.protocol = "anthropic" -> WireEntry("tool_result", "user", call.id, None, None, text)
    [] dialog.protocol = "chat-completions" -> ChatEntry("tool", "tool", call.id, text, <<>>, <<>>)

\* Namespaces and the client's search exist in Responses only.
Writable(protocol, raw) == protocol = "responses" \/ raw.type \notin {"namespace", "tool_search"}
WireInit ==
  /\ \E p \in WireProtocol, n \in 0..MaxDeclared : \E tools \in [1..n -> Declarable] :
       /\ \A i \in 1..n : Writable(p, tools[i])
       /\ dialog = [protocol |-> p, declared |-> tools, history |-> <<>>, open |-> {}, turn |-> "user"]
  /\ decoded = [refused |-> FALSE, tools |-> <<>>, messages |-> <<>>]
  /\ spoken = <<>>

Number(n) == Len(spoken) + n
UserSpeaks ==
  /\ dialog.turn = "user" /\ Len(spoken) < MaxSaid
  /\ dialog' = [dialog EXCEPT !.history = Append(@, Hears(<<Number(1)>>)), !.turn = "send"]
  /\ spoken' = Append(spoken, Spoken("user", "text", 0, None, <<Number(1)>>))
  /\ UNCHANGED decoded

\* decodeModelRequest.
Send ==
  /\ dialog.turn = "send" /\ dialog.open = {}
  /\ LET tools == decodeTools(dialog.protocol, dialog.declared, dialog.history)
         script == decodeMessages(dialog.protocol, dialog.history)
         refused == tools.refused \/ script.refused
     IN /\ decoded' = [refused |-> refused, tools |-> tools.tools,
                       messages |-> IF refused THEN <<>> ELSE script.messages]
        /\ dialog' = [dialog EXCEPT !.turn = IF refused THEN "refused" ELSE "model"]
  /\ UNCHANGED spoken

Item(kind, n, name) == [kind |-> kind, id |-> IF kind = "call" THEN n ELSE 0, name |-> name, text |-> <<n>>]
Saying(item) == Spoken("assistant", item.kind, item.id, item.name, item.text)
Sayable(n) ==
  {Item("text", n, None), Item("reasoning", n, None)}
    \cup {Item("call", n, decoded.tools[i].name) : i \in 1..Len(decoded.tools)}
\* The model answers with one item or two.
Infer(items) ==
  LET answer == Answers(dialog.protocol, decoded.tools, items)
      calls == {i \in 1..Len(items) : items[i].kind = "call"}
      read(i) == IF dialog.protocol = "chat-completions"
                 THEN WireEntry("tool_use", "assistant", items[i].id, None, items[i].name, items[i].text)
                 ELSE answer[i]
  IN /\ dialog.turn = "model"
     /\ dialog' = [dialog EXCEPT !.history = @ \o answer,
                                 !.turn = IF calls = {} THEN "user" ELSE "send",
                                 !.open = {[call |-> read(i), meant |-> items[i].name] : i \in calls}]
     /\ spoken' = spoken \o [i \in 1..Len(items) |-> Saying(items[i])]
     /\ UNCHANGED decoded

\* A provider that speaks Responses answers in place of the SDK model: its
\* reasoning is opaque.
InferNatively ==
  /\ dialog.turn = "model" /\ dialog.protocol = "responses"
  /\ dialog' = [dialog EXCEPT !.turn = "user",
       !.history = Append(@, [WireEntry("reasoning", "assistant", 0, None, None, <<Number(1)>>)
                                EXCEPT !.encrypted = TRUE])]
  /\ spoken' = Append(spoken, Spoken("assistant", "reasoning", 0, None, <<Number(1)>>))
  /\ UNCHANGED decoded

\* The harness runs a call; a search finds definitions.
Run(open, tools) ==
  /\ open \in dialog.open
  /\ IF open.call.type = "tool_search_call" THEN Len(tools) = 1 ELSE tools = <<>>
  /\ dialog' = [dialog EXCEPT !.open = @ \ {open},
                              !.history = Append(@, Result(open.call, <<Number(1)>>, tools))]
  /\ spoken' = Append(spoken, Spoken("tool", "result", open.call.id, open.meant, <<Number(1)>>))
  /\ UNCHANGED decoded

WireNext ==
  \/ UserSpeaks \/ Send
  \/ /\ dialog.turn = "model" /\ Len(spoken) < MaxSaid
     /\ \E one \in Sayable(Number(1)) : Infer(<<one>>) \/ \E two \in Sayable(Number(2)) : Infer(<<one, two>>)
  \/ InferNatively
  \/ \E open \in dialog.open, tools \in {<<>>} \cup {<<t>> : t \in Found} : Run(open, tools)

-----------------------------------------------------------------------------
(***************************************************************************)
(* Properties                                                              *)
(***************************************************************************)
Of(messages, kinds) == SelectSeq(messages, LAMBDA m : m.kind \in kinds)
TextOf(messages, kind, role) ==
  LET of == SelectSeq(messages, LAMBDA m : m.kind = kind /\ m.role = role)
  IN Concat([i \in 1..Len(of) |-> of[i].text])

(* The gateway keeps no conversation and still every model is given the     *)
(* one that took place: what decodeModelRequest makes of the history a      *)
(* harness sends back is, message by message, what was said, and every      *)
(* result is attributed to the tool the model called.  A Chat Completions   *)
(* message has one content, one reasoning and a list of calls, so there it  *)
(* is the calls and results, the texts and the reasonings that agree.       *)
TranscriptIsConversation ==
  dialog.turn = "model" =>
    /\ Of(decoded.messages, {"call", "result"}) = Of(spoken, {"call", "result"})
    /\ \A role \in {"user", "assistant"} : \A kind \in {"text", "reasoning"} :
         TextOf(decoded.messages, kind, role) = TextOf(spoken, kind, role)
    /\ dialog.protocol # "chat-completions" => decoded.messages = spoken

\* The definitions of the harness a call on the wire may mean.
Meant(call) ==
  LET defs == Definitions(dialog.protocol, dialog.declared, dialog.history)
  IN {defs[i] : i \in {i \in 1..Len(defs) :
        IF call.type = "tool_search_call" THEN defs[i].tool.type = "tool_search"
        ELSE defs[i].namespace = call.namespace /\ defs[i].tool.name = call.name}}
(* A call reaches the tool the model meant: the namespace and name the      *)
(* harness reads on the wire are those of a tool it declared or found, and  *)
(* of no tool that the model knows by another name, although the model is   *)
(* given the two joined (decodeTools refuses the names that would collide). *)
CallsReachTheirTool ==
  \A open \in dialog.open :
    /\ Meant(open.call) # {}
    /\ \A def \in Meant(open.call) : ToolName(def) = open.meant

Conflict(defs) ==
  \E i, j \in 1..Len(defs) :
    /\ i < j /\ ToolName(defs[i]) = ToolName(defs[j])
    /\ ~defs[j].discovered \/ decodeToolDefinition(defs[i]) # decodeToolDefinition(defs[j])
(* A conversation the gateway carried so far goes on: a request is refused  *)
(* only for a kind of tool it does not understand, for two definitions of   *)
(* one name that differ, or for opaque reasoning of another provider, never *)
(* because a search found again a tool that is known.                       *)
RefusedForCause ==
  dialog.turn = "refused" =>
    LET defs == Definitions(dialog.protocol, dialog.declared, dialog.history)
    IN \/ \E i \in 1..Len(defs) : ~Understood(dialog.protocol, defs[i].tool)
       \/ Conflict(defs)
       \/ \E i \in 1..Len(dialog.history) : dialog.protocol = "responses" /\ dialog.history[i].encrypted
(* A harness and a model of different protocols hold one conversation:      *)
(* what is said arrives, calls reach their tool, and it goes on unless      *)
(* there is a cause.                                                        *)
ConversationCarried == TranscriptIsConversation /\ CallsReachTheirTool /\ RefusedForCause
=============================================================================
