-------------------------- MODULE MessagesDialect --------------------------
(***************************************************************************)
(* The Anthropic Messages dialect in both directions, and the event        *)
(* streams it and Chat Completions are carried by.                         *)
(*                                                                         *)
(* providers/sse.rs: the incremental Server-Sent Events decoder and the    *)
(* wire it reads.  The wire is a sequence of bytes.  A byte is a line end, *)
(* or a piece of a line: a record with the field name written before it    *)
(* ("" for the rest of a value) and the text, one of the two halves of a   *)
(* payload.  Pieces are cut between JSON tokens, so a payload is read back *)
(* exactly when its two halves, and nothing else, are in the data of one   *)
(* event.  The event id is kept by the decoder and read by no one, and is  *)
(* left out.                                                               *)
(*                                                                         *)
(* providers/anthropic.rs: requests of Anthropic Messages clients turned   *)
(* into Chat Completions requests, and Chat Completions answers, buffered  *)
(* or streamed, turned back.  Text and tool arguments are sequences of     *)
(* pieces, "" being <<>>; the arguments of a chat call are JSON text, the  *)
(* input of an Anthropic call is a JSON value, {} being <<>>.  A chat       *)
(* message is [role, text, calls, id]; the payload of a streamed chunk has *)
(* one choice.  Tool schemas and sampling parameters are copied and never  *)
(* looked into, and are left out.                                          *)
(*                                                                         *)
(* providers/anthropic_native.rs: Chat Completions requests turned into    *)
(* Anthropic Messages requests for an Anthropic upstream, and its answers  *)
(* turned back.  A translation that returns Err gives Rejected.            *)
(***************************************************************************)
EXTENDS Integers, Sequences, SequencesExt, FiniteSets

CONSTANTS MaxLineBytes,   \* max_line_bytes
          MaxEventBytes   \* max_event_bytes

ASSUME SseLimits == MaxLineBytes \in Nat \ {0} /\ MaxEventBytes \in Nat \ {0}

LF == [f |-> "lf", t |-> <<>>]
CR == [f |-> "cr", t |-> <<>>]
NL == [f |-> "nl", t |-> <<>>]        \* the newline joining two data lines
Comment == [f |-> "comment", t |-> <<>>]
NotUtf8 == [f |-> "invalid", t |-> <<>>]

Named(name) == [f |-> "event", t |-> <<name>>]
Half(p, i, field) == [f |-> field, t |-> <<p, i>>]

(* The bytes of one event as this gateway's frame functions write it: an
   optional event line, one data line, an empty line. *)
sse_frame(name, p) ==
    (IF name = "message" THEN <<>> ELSE <<Named(name), LF>>)
        \o <<Half(p, 1, "data"), Half(p, 2, ""), LF, LF>>

(* What a JSON reader finds in the data of an event. *)
Unreadable == [kind |-> "unreadable"]

Payload(data) ==
    LET text == SelectSeq(data, LAMBDA b : b # NL)
    IN  IF /\ Len(text) = 2
           /\ text[1].f = "" /\ text[2].f = ""
           /\ text[1].t[2] = 1 /\ text[2].t[2] = 2
           /\ text[1].t[1] = text[2].t[1]
        THEN text[1].t[1]
        ELSE Unreadable

-----------------------------------------------------------------------------
(* The decoder: the line being read, and the event type and data of the event
   being read; data_bytes is the length of data. *)
NewDecoder == [line |-> <<>>, event_type |-> "none", data |-> <<>>, has_data |-> FALSE]

(* A decoding step returns the decoder, the events it completed and whether it
   failed; on an error the caller gets no event at all. *)
Decoded(d, events, failed) == [d |-> d, events |-> events, failed |-> failed]

dispatch(r) ==
    [r EXCEPT !.d = [@ EXCEPT !.event_type = "none", !.data = <<>>, !.has_data = FALSE],
              !.events = IF r.d.has_data
                         THEN Append(@, [event |-> IF r.d.event_type = "none"
                                                   THEN "message" ELSE r.d.event_type,
                                         data |-> Payload(r.d.data)])
                         ELSE @]

(* The data line: a newline separates it from the data before it, and the
   event is refused when the sum passes the limit. *)
AddData(r, value) ==
    LET data == r.d.data \o (IF r.d.has_data THEN <<NL>> ELSE <<>>) \o value
    IN  IF Len(data) > MaxEventBytes
        THEN [r EXCEPT !.failed = TRUE]
        ELSE [r EXCEPT !.d = [@ EXCEPT !.data = data, !.has_data = TRUE]]

process_line(r, raw) ==
    CASE raw = <<>> -> dispatch(r)
      [] raw # <<>> /\ \E i \in DOMAIN raw : raw[i] = NotUtf8 -> [r EXCEPT !.failed = TRUE]
      [] OTHER ->
           CASE raw[1].f = "event" -> [r EXCEPT !.d = [@ EXCEPT !.event_type = Head(raw[1].t)]]
             [] raw[1].f = "data"  -> AddData(r, <<[raw[1] EXCEPT !.f = ""]>> \o Tail(raw))
             [] OTHER              -> r

Stripped(line) == IF line # <<>> /\ Last(line) = CR THEN Front(line) ELSE line

TakeLine(r) == process_line([r EXCEPT !.d = [@ EXCEPT !.line = <<>>]], Stripped(r.d.line))

(* One byte of the loop of push; nothing is read after an error. *)
PushByte(r, b) ==
    CASE r.failed -> r
      [] ~r.failed /\ b = LF -> TakeLine(r)
      [] ~r.failed /\ b # LF /\ Len(r.d.line) >= MaxLineBytes -> [r EXCEPT !.failed = TRUE]
      [] OTHER -> [r EXCEPT !.d = [@ EXCEPT !.line = Append(@, b)]]

Lost(r) == IF r.failed THEN [r EXCEPT !.events = <<>>] ELSE r

Push(d, chunk) == Lost(FoldLeft(PushByte, Decoded(d, <<>>, FALSE), chunk))

(* At the end of the stream the unfinished line and event are taken as they are. *)
Finish(d) ==
    LET r == Decoded(d, <<>>, FALSE)
        s == IF d.line # <<>> THEN TakeLine(r) ELSE r
    IN  Lost(IF s.failed THEN s ELSE dispatch(s))

(* The events of a whole wire read at once, and whether it could be read. *)
DecodeAll(wire) ==
    LET r == Push(NewDecoder, wire)
        s == Finish(r.d)
    IN  IF r.failed THEN r ELSE [s EXCEPT !.events = r.events \o @]

-----------------------------------------------------------------------------
(* Messages clients. *)

CONSTANTS MaxToolCalls,   \* max_tool_calls
          MaxToolBytes    \* max_tool_bytes

Null == <<"null">>
NewLine == <<"newline">>

(* The text {"input": x}, a JSON text like any other.  A text is JSON if it is of
   that form or has only pieces of JSON; it may have been cut or be none at all. *)
Wrapped(x) == <<"{input:">> \o x \o <<"}">>
IsWrapped(text) == Len(text) >= 2 /\ Head(text) = "{input:" /\ Last(text) = "}"
Scalar == <<"7">>

IsJson(text) ==
    IsWrapped(text) \/ (text # <<>> /\ Range(text) \cap {"{input:", "}", "junk"} = {})
IsObject(text) == IsJson(text) /\ text # Scalar

(* Writing a JSON value as text, and reading it back: what is no JSON is the
   empty object. *)
to_json(value) == IF value = <<>> THEN <<"{}">> ELSE value
from_json(text) == IF IsJson(text) /\ text # <<"{}">> THEN text ELSE <<>>

JoinText(parts) ==
    FoldLeft(LAMBDA acc, p : IF acc = Null THEN p ELSE acc \o NewLine \o p, Null, parts)

Chat(role, text, calls, id) == [role |-> role, text |-> text, calls |-> calls, id |-> id]

OfType(blocks, type) == SelectSeq(blocks, LAMBDA b : b.type = type)
Each(s, F(_)) == [i \in DOMAIN s |-> F(s[i])]

-----------------------------------------------------------------------------
BUG_translate_message(m) ==
    LET text == JoinText(Each(OfType(m.blocks, "text"), LAMBDA b : b.text))
    IN  (IF text = Null THEN <<>> ELSE <<Chat(m.role, text, <<>>, "")>>)
        \o Each(OfType(m.blocks, "tool_result"), LAMBDA b : Chat("tool", b.text, <<>>, b.id))

(* Requests.  The tool results of a message come first, each a message of its
   own; then its text, with the calls if the message is the assistant's.
   Blocks of other types are dropped. *)
translate_message(m) ==
    LET text    == JoinText(Each(OfType(m.blocks, "text"), LAMBDA b : b.text))
        calls   == Each(OfType(m.blocks, "tool_use"),
                        LAMBDA b : [id |-> b.id, name |-> b.name, args |-> to_json(b.input)])
        results == Each(OfType(m.blocks, "tool_result"),
                        LAMBDA b : Chat("tool", b.text, <<>>, b.id))
        own     == CASE m.role = "assistant" /\ (text # Null \/ calls # <<>>) ->
                          <<Chat("assistant", text, calls, "")>>
                     [] m.role # "assistant" /\ text # Null ->
                          <<Chat(m.role, text, <<>>, "")>>
                     [] OTHER -> <<>>
    IN  results \o own

Choose(type, name) == [type |-> type, name |-> name]
NoChoice == Choose("absent", "")

translate_tool_choice(choice) ==
    CASE choice = NoChoice -> NoChoice
      [] choice.type = "any" -> Choose("required", "")
      [] choice.type = "none" -> Choose("none", "")
      [] choice.type = "tool" /\ choice.name # "" -> Choose("function", choice.name)
      [] OTHER -> Choose("auto", "")

anthropic_to_openai_request(body) ==
    [messages |-> (IF body.system = <<>> THEN <<>>
                   ELSE <<Chat("system", body.system, <<>>, "")>>)
                  \o FlattenSeq(Each(body.messages, translate_message)),
     tools |-> body.tools,
     tool_choice |-> translate_tool_choice(body.tool_choice),
     unsupported |-> FALSE,
     stream |-> body.stream]

-----------------------------------------------------------------------------
(* Buffered answers. *)
stop_reason(reason) ==
    CASE reason = "length" -> "max_tokens"
      [] reason \in {"tool_calls", "function_call"} -> "tool_use"
      [] OTHER -> "end_turn"

TextBlock(text) == [type |-> "text", text |-> text]
ToolBlock(id, name, input) == [type |-> "tool_use", id |-> id, name |-> name, input |-> input]

(* A call without arguments, or with arguments that are no JSON, has the empty
   object for its input. *)
openai_to_anthropic_response(response) ==
    LET content == (IF response.text \in {Null, <<>>} THEN <<>> ELSE <<TextBlock(response.text)>>)
                   \o [i \in DOMAIN response.calls |->
                         ToolBlock(IF response.calls[i].id = "" THEN "toolu_" \o ToString(i - 1)
                                                                ELSE response.calls[i].id,
                                   response.calls[i].name,
                                   IF response.calls[i].args = Null THEN <<>>
                                   ELSE from_json(response.calls[i].args))]
    IN  [content |-> IF content = <<>> THEN <<TextBlock(<<>>)>> ELSE content,
         stop_reason |-> stop_reason(response.reason)]

-----------------------------------------------------------------------------
(* Streamed answers.  Chunk is the payload of a Chat Completions chunk. *)
Chunk(text, calls, reason) ==
    [kind |-> "chunk", text |-> text, calls |-> calls, reason |-> reason]
ErrorPayload == [kind |-> "error"]
Done == [kind |-> "done"]

NewMessages ==
    [dec |-> NewDecoder, started |-> FALSE, terminal |-> FALSE, text_index |-> -1,
     next_index |-> 0, positions |-> <<>>, tools |-> <<>>, tool_bytes |-> 0,
     reason |-> "none", out |-> <<>>, failed |-> FALSE]

Emit(t, frames) == [t EXCEPT !.out = @ \o frames]

start(t) ==
    IF t.started THEN t
    ELSE [Emit(t, <<[frame |-> "message_start"]>>) EXCEPT !.started = TRUE]

BUG_open_text(t) ==
    IF t.text_index # -1 THEN t
    ELSE [Emit(t, <<[frame |-> "block_start", index |-> t.next_index, block |-> "text",
                     id |-> "", name |-> ""]>>) EXCEPT !.text_index = t.next_index]

open_text(t) ==
    IF t.text_index # -1 THEN t
    ELSE [Emit(t, <<[frame |-> "block_start", index |-> t.next_index, block |-> "text",
                     id |-> "", name |-> ""]>>)
             EXCEPT !.text_index = t.next_index, !.next_index = @ + 1]

(* The id and the name of a call replace what was buffered, its arguments are
   added; a call past either limit fails the stream. *)
Bytes(x) == IF x = "" THEN 0 ELSE 1

PositionOf(t, index) ==
    IF \E i \in DOMAIN t.positions : t.positions[i] = index
    THEN CHOOSE i \in DOMAIN t.positions : t.positions[i] = index
    ELSE Len(t.tools) + 1

replace_buffered_bytes(t, old, new) ==
    IF t.tool_bytes - old + new > MaxToolBytes THEN [t EXCEPT !.failed = TRUE]
    ELSE [t EXCEPT !.tool_bytes = @ - old + new]

add_buffered_bytes(t, amount) ==
    IF t.tool_bytes + amount > MaxToolBytes THEN [t EXCEPT !.failed = TRUE]
    ELSE [t EXCEPT !.tool_bytes = @ + amount]

PutField(t, i, field, v) ==
    LET u == replace_buffered_bytes(t, Bytes(t.tools[i][field]), Bytes(v))
    IN  IF t.failed \/ v = "" THEN t
        ELSE IF u.failed THEN u ELSE [u EXCEPT !.tools[i][field] = v]

BUG_PutArgs(t, i, args) ==
    LET u == add_buffered_bytes(t, Len(args))
    IN  IF t.failed \/ u.failed THEN [t EXCEPT !.failed = TRUE]
        ELSE [u EXCEPT !.tools[i].args = args]

PutArgs(t, i, args) ==
    LET u == add_buffered_bytes(t, Len(args))
    IN  IF t.failed \/ u.failed THEN [t EXCEPT !.failed = TRUE]
        ELSE [u EXCEPT !.tools[i].args = @ \o args]

feed_tool_call(t, call) ==
    LET i     == PositionOf(t, call.index)
        known == i <= Len(t.tools)
        u     == IF known THEN t
                 ELSE [t EXCEPT !.tools = Append(@, [id |-> "", name |-> "", args |-> <<>>]),
                                !.positions = Append(@, call.index)]
    IN  CASE t.failed -> t
          [] ~t.failed /\ ~known /\ Len(t.tools) >= MaxToolCalls -> [t EXCEPT !.failed = TRUE]
          [] OTHER -> PutArgs(PutField(PutField(u, i, "id", call.id), i, "name", call.name), i, call.args)

feed_payload(t, p) ==
    LET u == IF p.text = <<>> THEN t
             ELSE LET o == open_text(t)
                  IN  Emit(o, <<[frame |-> "delta", index |-> o.text_index, part |-> p.text]>>)
        v == FoldLeft(feed_tool_call, u, p.calls)
    IN  IF p.reason = "none" \/ v.failed THEN v ELSE [v EXCEPT !.reason = p.reason]

clear_buffered_tools(t) == [t EXCEPT !.positions = <<>>, !.tools = <<>>, !.tool_bytes = 0]

ToolFrames(index, tool) ==
    <<[frame |-> "block_start", index |-> index, block |-> "tool_use",
       id |-> IF tool.id = "" THEN "toolu_" \o ToString(index) ELSE tool.id, name |-> tool.name]>>
    \o (IF tool.args = <<>> THEN <<>>
        ELSE <<[frame |-> "delta", index |-> index, part |-> tool.args]>>)
    \o <<[frame |-> "block_stop", index |-> index]>>

(* The open text block is closed, the buffered calls follow one by one, and an
   answer without any block gets an empty one. *)
finish_message(t) ==
    IF t.terminal THEN t
    ELSE LET closed == IF t.text_index = -1 THEN <<>>
                       ELSE <<[frame |-> "block_stop", index |-> t.text_index]>>
             tools  == FlattenSeq([i \in DOMAIN t.tools |->
                                     ToolFrames(t.next_index + i - 1, t.tools[i])])
             next   == t.next_index + Len(t.tools)
             empty  == IF next > 0 THEN <<>>
                       ELSE <<[frame |-> "block_start", index |-> 0, block |-> "text",
                               id |-> "", name |-> ""],
                              [frame |-> "block_stop", index |-> 0]>>
             last   == <<[frame |-> "message_delta", reason |-> stop_reason(t.reason)],
                         [frame |-> "message_stop"]>>
         IN  clear_buffered_tools(
               [Emit(t, closed \o tools \o empty \o last)
                  EXCEPT !.terminal = TRUE, !.text_index = -1, !.next_index = next])

finish_error(t) ==
    IF t.terminal THEN t
    ELSE clear_buffered_tools(
           [Emit(t, <<[frame |-> "error"]>>) EXCEPT !.terminal = TRUE, !.text_index = -1])

(* One event of process_events.  An unreadable payload is skipped, unless the
   event is named error. *)
ProcessEvent(t, e) ==
    CASE t.terminal \/ t.failed -> t
      [] ~(t.terminal \/ t.failed) /\ e.data.kind = "done" -> finish_message(t)
      [] ~(t.terminal \/ t.failed) /\ e.data = Unreadable ->
           IF e.event = "error" THEN finish_error(t) ELSE t
      [] ~(t.terminal \/ t.failed) /\ (e.event = "error" \/ e.data.kind = "error") ->
           finish_error(t)
      [] OTHER -> feed_payload(t, e.data)

(* push and finish hand the frames over only when they succeed: on an error the
   relay sends an error frame in their place and reads no further. *)
Handed(t, u) ==
    IF u.failed THEN [u EXCEPT !.out = Append(t.out, [frame |-> "error"])] ELSE u

push(t, chunk) ==
    LET s == start(t)
        r == Push(s.dec, chunk)
    IN  IF s.terminal THEN s
        ELSE Handed(t, FoldLeft(ProcessEvent, [s EXCEPT !.dec = r.d, !.failed = r.failed],
                                r.events))

finish(t) ==
    LET s == start(t)
        r == Finish(s.dec)
        u == FoldLeft(ProcessEvent, [s EXCEPT !.dec = r.d, !.failed = r.failed], r.events)
    IN  IF s.terminal THEN s ELSE Handed(t, IF u.failed THEN u ELSE finish_message(u))

-----------------------------------------------------------------------------
(* Anthropic upstreams. *)

CONSTANT MaxNativeTools   \* MAX_TOOL_CALLS

Rejected == [rejected |-> TRUE]
IsRejected(x) == "rejected" \in DOMAIN x

-----------------------------------------------------------------------------
(* Requests.  Consecutive messages of one role become one. *)
push_message(messages, role, blocks) ==
    IF blocks = <<>> THEN messages
    ELSE IF messages # <<>> /\ Last(messages).role = role
         THEN [messages EXCEPT ![Len(messages)].blocks = @ \o blocks]
         ELSE Append(messages, [role |-> role, blocks |-> blocks])

TextBlocks(text) == IF text \in {Null, <<>>} THEN <<>> ELSE <<TextBlock(text)>>

(* Calls carry an id, a name and an object of arguments, or the request fails. *)
translate_assistant_message(m) ==
    IF \/ Len(m.calls) > MaxNativeTools
       \/ \E i \in DOMAIN m.calls : m.calls[i].id = "" \/ m.calls[i].name = "" \/ ~IsObject(m.calls[i].args)
    THEN Rejected
    ELSE [blocks |-> TextBlocks(m.text)
                     \o Each(m.calls, LAMBDA c : ToolBlock(c.id, c.name, from_json(c.args)))]

(* text_content refuses content parts that are not text. *)
NonText == <<"image">>

translate_openai_message(acc, m) ==
    IF IsRejected(acc) \/ m.text = NonText THEN Rejected
    ELSE CASE m.role \in {"system", "developer"} ->
                [acc EXCEPT !.system = @ \o TextBlocks(m.text)]
           [] m.role = "user" ->
                [acc EXCEPT !.messages = push_message(@, "user", TextBlocks(m.text))]
           [] m.role = "assistant" ->
                LET a == translate_assistant_message(m)
                IN  IF IsRejected(a) THEN Rejected
                    ELSE [acc EXCEPT !.messages = push_message(@, "assistant", a.blocks)]
           [] m.role = "tool" /\ m.id # "" ->
                [acc EXCEPT !.messages =
                    push_message(@, "user", <<[type |-> "tool_result", id |-> m.id,
                                               text |-> IF m.text = Null THEN <<>> ELSE m.text]>>)]
           [] OTHER -> Rejected

native_tool_choice(choice) ==
    CASE choice.type = "required" -> Choose("any", "")
      [] choice.type = "function" -> Choose("tool", choice.name)
      [] OTHER -> choice

(* A body with a field that has no Anthropic counterpart is refused. *)
openai_to_anthropic_request(body) ==
    LET acc == FoldLeft(translate_openai_message, [system |-> <<>>, messages |-> <<>>],
                        body.messages)
    IN  IF IsRejected(acc) \/ body.unsupported THEN Rejected
        ELSE IF acc.messages = <<>> \/ Len(body.tools) > MaxNativeTools THEN Rejected
        ELSE [system |-> acc.system, messages |-> acc.messages, tools |-> body.tools,
              tool_choice |-> native_tool_choice(body.tool_choice),
              stream |-> body.stream]

-----------------------------------------------------------------------------
(* Buffered answers: texts are joined with nothing between them. *)
openai_finish_reason(reason) ==
    CASE reason = "max_tokens" -> "length"
      [] reason = "tool_use" -> "tool_calls"
      [] OTHER -> "stop"

anthropic_to_openai_response(message) ==
    IF \E i \in DOMAIN message.content : message.content[i].type \notin {"text", "tool_use"}
    THEN Rejected
    ELSE LET texts == Each(OfType(message.content, "text"), LAMBDA b : b.text)
         IN  [text |-> IF texts = <<>> THEN Null ELSE FlattenSeq(texts),
              calls |-> Each(OfType(message.content, "tool_use"),
                             LAMBDA b : [id |-> b.id, name |-> b.name,
                                         args |-> to_json(b.input)]),
              reason |-> openai_finish_reason(message.stop_reason)]

-----------------------------------------------------------------------------
(* Streamed answers: the blocks being sent, by their index. *)
NewNative ==
    [dec |-> NewDecoder, active |-> <<>>, tool_count |-> 0, finish_sent |-> FALSE,
     terminal |-> FALSE, out |-> <<>>, failed |-> FALSE]

NoReason == "none"
Frame(n, p) == [n EXCEPT !.out = Append(@, p)]
Invalid(n) == [n EXCEPT !.failed = TRUE]
Delta(n, text, calls) == Frame(n, Chunk(text, calls, NoReason))
Arguments(index, args) == <<[index |-> index, id |-> "", name |-> "", args |-> args]>>

Activate(n, index, block) ==
    [n EXCEPT !.active = [i \in DOMAIN @ \cup {index} |-> IF i = index THEN block ELSE @[i]]]
Deactivate(n, index) ==
    [n EXCEPT !.active = [i \in DOMAIN @ \ {index} |-> @[i]]]

content_block_start(n, p) ==
    CASE p.block = "text" -> Activate(n, p.index, [kind |-> "text"])
      [] p.block = "tool_use" /\ n.tool_count < MaxNativeTools ->
           Delta(Activate([n EXCEPT !.tool_count = @ + 1], p.index,
                          [kind |-> "tool", tool |-> n.tool_count, saw |-> FALSE]),
                 <<>>, <<[index |-> n.tool_count, id |-> p.id, name |-> p.name, args |-> <<>>]>>)
      [] OTHER -> Invalid(n)

content_block_delta(n, p) ==
    IF p.index \notin DOMAIN n.active THEN Invalid(n)
    ELSE LET b == n.active[p.index]
         IN  CASE b.kind = "text" /\ p.delta = "text_delta" -> Delta(n, p.part, <<>>)
               [] b.kind = "tool" /\ p.delta = "input_json_delta" ->
                    Delta([n EXCEPT !.active[p.index].saw = TRUE], <<>>,
                          Arguments(b.tool, p.part))
               [] OTHER -> Invalid(n)

(* A call whose arguments never came has the empty object for them. *)
content_block_stop(n, p) ==
    IF p.index \notin DOMAIN n.active THEN Invalid(n)
    ELSE LET b == n.active[p.index]
             u == Deactivate(n, p.index)
         IN  IF b.kind = "tool" /\ ~b.saw THEN Delta(u, <<>>, Arguments(b.tool, <<"{}">>)) ELSE u

message_stop(n) ==
    LET u == IF n.finish_sent THEN n ELSE Frame(n, Chunk(<<>>, <<>>, "stop"))
    IN  IF DOMAIN n.active # {} THEN Invalid(n) ELSE [Frame(u, Done) EXCEPT !.terminal = TRUE]

(* One event of translate_events; an event without a name has its payload's type. *)
TranslateEvent(n, e) ==
    LET type == IF e.event = "message" THEN e.data.kind ELSE e.event
    IN  CASE n.terminal \/ n.failed \/ e.event = "ping" -> n
          [] ~(n.terminal \/ n.failed) /\ e.event # "ping" /\ e.data = Unreadable -> Invalid(n)
          [] OTHER ->
               CASE type = "message_start" -> Delta(n, <<>>, <<>>)
                 [] type = "content_block_start" -> content_block_start(n, e.data)
                 [] type = "content_block_delta" -> content_block_delta(n, e.data)
                 [] type = "content_block_stop" -> content_block_stop(n, e.data)
                 [] type = "message_delta" ->
                      [Frame(n, Chunk(<<>>, <<>>, openai_finish_reason(e.data.reason)))
                         EXCEPT !.finish_sent = TRUE]
                 [] type = "message_stop" -> message_stop(n)
                 [] type = "error" ->
                      [Frame(Frame(n, ErrorPayload), Done) EXCEPT !.terminal = TRUE]
                 [] OTHER -> Invalid(n)

(* push and finish return the frames of this call, or an error and no frame. *)
native_push(n, chunk) ==
    LET r == Push(n.dec, chunk)
    IN  FoldLeft(TranslateEvent, [n EXCEPT !.dec = r.d, !.failed = r.failed, !.out = <<>>],
                 r.events)

native_finish(n) ==
    LET r == Finish(n.dec)
        u == FoldLeft(TranslateEvent, [n EXCEPT !.dec = r.d, !.failed = r.failed, !.out = <<>>],
                      r.events)
    IN  IF u.terminal THEN u ELSE Invalid(u)
=============================================================================
