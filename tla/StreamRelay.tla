---------------------------- MODULE StreamRelay ----------------------------
(***************************************************************************)
(* One request through the dialects: the client's request is translated    *)
(* for the provider (gateway/delivery.rs), and the provider's answer comes *)
(* back through the provider's stream, the chat relay                      *)
(* (streaming_chat_response in gateway/lib.rs) and the translator of the   *)
(* client's dialect.  Every stage is pulled by the one after it, so one    *)
(* item of the provider's transport travels through all of them in a step. *)
(***************************************************************************)
EXTENDS ResponsesDialect, TLC

CONSTANTS Providers,    \* subset of {"openai", "anthropic", "codex"}
          Clients,      \* subset of {"chat", "messages", "responses"}
          Bodies,       \* Bodies[client]: requests of the client
          Answers,      \* Answers[provider]: buffered answers
          Scripts,      \* Scripts[provider]: streams, sequences of [event, data, style]
          MaxChunk      \* longest chunk of the transport, in bytes

VARIABLES provider, client,
          phase,      \* "idle", "sent", "refused", "answered", "streaming", "closed"
          request,    \* the client's body and what the provider is sent; later its tools
          answer,     \* the provider's buffered answer and what the client gets
          script,     \* the provider's stream
          position,   \* bytes of it read
          broken,     \* the transport failed
          native,     \* AnthropicToOpenAiStream
          relay,      \* StreamRelayContext: decoder, completion_chars, open
          wire,       \* history: the bytes the relay has forwarded
          view,       \* the translator of the client's dialect
          receipt     \* outcome in the ring of recent requests

streamVars == <<script, position, broken, native, relay, wire, view, receipt>>
vars == <<provider, client, phase, request, answer, streamVars>>

Nothing == [nothing |-> TRUE]

-----------------------------------------------------------------------------
(* Requests.  Codex takes text only and no field beyond model, messages and
   stream; the other providers take what their translation accepts. *)
codex_chat_request(body) ==
    IF \/ body.unsupported \/ body.tools # <<>> \/ body.tool_choice # NoChoice
       \/ body.messages = <<>>
       \/ \E i \in DOMAIN body.messages :
             \/ body.messages[i].role \notin {"system", "developer", "user", "assistant"}
             \/ body.messages[i].calls # <<>>
             \/ body.messages[i].text \in {Null, NonText}
    THEN Rejected ELSE body

client_request(c, body) ==
    CASE c = "chat" -> body
      [] c = "messages" -> anthropic_to_openai_request(body)
      [] c = "responses" -> validate_and_translate(body)

provider_request(p, body) ==
    CASE p = "openai" -> body
      [] p = "anthropic" -> openai_to_anthropic_request(body)
      [] p = "codex" -> codex_chat_request(body)

Translated(body) ==
    LET chat == client_request(client, body)
    IN  IF IsRejected(chat) THEN Rejected ELSE provider_request(provider, chat)

Request(body) ==
    /\ phase = "idle"
    /\ phase' = IF IsRejected(Translated(body)) THEN "refused" ELSE "sent"
    /\ request' = [body |-> body, sent |-> Translated(body)]
    /\ UNCHANGED <<provider, client, answer, streamVars>>

-----------------------------------------------------------------------------
(* A buffered answer. *)
provider_answer(p, message) ==
    IF p = "anthropic" THEN anthropic_to_openai_response(message) ELSE message

(* The tool metadata that a Responses handler keeps. *)
ToolMetadata == IF client = "responses" THEN translate_tools(request.body.tools).tools ELSE <<>>

(* History: the tools a Responses client declared and their names on the wire. *)
Declared ==
    IF client = "responses" THEN [tools |-> Expanded(request.body.tools), wires |-> request.sent.tools]
    ELSE Nothing

client_answer(c, response, tools) ==
    CASE c = "chat" -> response
      [] c = "messages" -> openai_to_anthropic_response(response)
      [] c = "responses" -> responses_buffered(response, tools)

BufferedAnswer(p, c, message, tools) ==
    LET response == provider_answer(p, message)
    IN  IF IsRejected(response) THEN Rejected ELSE client_answer(c, response, tools)

Respond(message) ==
    /\ phase = "sent" /\ ~request.body.stream
    /\ phase' = "answered"
    /\ answer' = [message |-> message,
                  given |-> BufferedAnswer(provider, client, message, ToolMetadata)]
    /\ request' = Declared
    /\ UNCHANGED <<provider, client, streamVars>>

-----------------------------------------------------------------------------
(* Streams.  The bytes of a script: each event in one of the ways a provider
   may write it. *)
EventBytes(e) ==
    LET p == e.data
        h == IF e.event = "message" THEN <<>> ELSE <<Named(e.event), LF>>
    IN  CASE e.style = "plain"   -> sse_frame(e.event, p)
          [] e.style = "crlf"    -> h \o <<Half(p, 1, "data"), Half(p, 2, ""), CR, LF, CR, LF>>
          [] e.style = "lines"   -> h \o <<Half(p, 1, "data"), LF, Half(p, 2, "data"), LF, LF>>
          [] e.style = "comment" -> <<Comment, LF>> \o sse_frame(e.event, p)
          [] e.style = "long"    -> h \o <<Half(p, 1, "data"), Half(p, 2, "")>>
                                      \o [i \in 1..MaxLineBytes |-> Comment] \o <<LF, LF>>
          [] e.style = "tail"    -> h \o <<Half(p, 1, "data"), Half(p, 2, "")>>
          [] e.style = "text"    -> h \o <<Half(p, 1, "data"), LF, LF>>
          [] e.style = "invalid" -> <<NotUtf8, LF, LF>>

Bytes_of(s) == FlattenSeq(Each(s, EventBytes))

NewView(c) ==
    CASE c = "messages" -> start(NewMessages)
      [] c = "responses" -> NewRelay(ToolMetadata)
      [] c = "chat" -> Nothing

Open(s) ==
    /\ phase = "sent" /\ request.body.stream
    /\ phase' = "streaming"
    /\ script' = s
    /\ native' = NewNative
    /\ relay' = [dec |-> NewDecoder, chars |-> 0, open |-> TRUE]
    /\ view' = NewView(client)
    /\ receipt' = "streaming"
    /\ request' = Declared
    /\ UNCHANGED <<provider, client, answer, position, broken, wire>>

(* The dialect's relay reads the bytes forwarded to it; a Messages relay stops
   at an error of its translator, a Responses relay when it has completed or
   failed, and then drops the chat relay. *)
ViewPush(v, bytes) ==
    CASE client = "messages" -> IF v.failed THEN v ELSE push(v, bytes)
      [] client = "responses" -> relay_push(v, bytes)
      [] client = "chat" -> v

ViewFinish(v) ==
    CASE client = "messages" -> IF v.failed THEN v ELSE finish(v)
      [] client = "responses" -> relay_finish(v)
      [] client = "chat" -> v

ViewDropped(v) ==
    CASE client = "messages" -> v.failed
      [] client = "responses" -> v.terminal
      [] client = "chat" -> FALSE

ContentChars(e) == IF e.data.kind = "chunk" THEN Len(e.data.text) ELSE 0

observe_stream_events(chars, events) ==
    FoldLeft(LAMBDA n, e : n + ContentChars(e), chars, events)

stream_failure_chunk == sse_frame("message", ErrorPayload) \o sse_frame("message", Done)

(* The state of the pipeline while items pass through it.  The chat relay
   closes with a failure chunk, and forwards an item only if it can read it. *)
Fail(st) ==
    IF ~st.relay.open THEN st
    ELSE [relay |-> [st.relay EXCEPT !.open = FALSE],
          view |-> ViewFinish(ViewPush(st.view, stream_failure_chunk)),
          wire |-> st.wire \o stream_failure_chunk, receipt |-> "failed"]

Drop(st) ==
    IF st.relay.open /\ ViewDropped(st.view)
    THEN [st EXCEPT !.relay.open = FALSE, !.receipt = "cancelled"] ELSE st

RelayItem(st, bytes) ==
    LET r == Push(st.relay.dec, bytes)
    IN  CASE ~st.relay.open -> st
          [] st.relay.open /\ r.failed -> Fail(st)
          [] OTHER -> Drop([st EXCEPT !.relay.dec = r.d,
                                      !.relay.chars = observe_stream_events(@, r.events),
                                      !.view = ViewPush(@, bytes),
                                      !.wire = @ \o bytes])

(* The provider's stream ended: what is left in the decoder is read, and the
   request has succeeded. *)
finish_stream_success(st) ==
    LET r == Finish(st.relay.dec)
    IN  CASE ~st.relay.open -> st
          [] st.relay.open /\ r.failed -> Fail(st)
          [] OTHER -> [st EXCEPT !.relay.chars = observe_stream_events(@, r.events),
                                 !.relay.open = FALSE,
                                 !.view = ViewFinish(@),
                                 !.receipt = "succeeded"]

Pipeline == [relay |-> relay, view |-> view, wire |-> wire, receipt |-> receipt]
Frames(n) == Each(n.out, LAMBDA p : sse_frame("message", p))

Settle(st) ==
    /\ relay' = st.relay /\ view' = st.view /\ wire' = st.wire /\ receipt' = st.receipt
    /\ phase' = IF st.relay.open THEN "streaming" ELSE "closed"
    /\ UNCHANGED <<provider, client, request, answer, script>>

(* A chunk of the transport.  Codex writes whole frames; an Anthropic stream is
   translated and its error ends the stream. *)
Take(k) ==
    LET bytes == SubSeq(Bytes_of(script), position + 1, position + k)
        n     == native_push(native, bytes)
    IN  /\ native' = IF provider = "anthropic" THEN [n EXCEPT !.out = <<>>] ELSE native
        /\ Settle(CASE provider # "anthropic" -> RelayItem(Pipeline, bytes)
                    [] provider = "anthropic" /\ n.failed -> Fail(Pipeline)
                    [] OTHER -> FoldLeft(RelayItem, Pipeline, Frames(n)))

FrameEnd(i) == i = 0 \/ \E j \in DOMAIN script : i = Len(Bytes_of(SubSeq(script, 1, j)))

Chunk_(k) ==
    /\ phase = "streaming" /\ ~broken
    /\ position + k <= Len(Bytes_of(script))
    /\ provider = "codex" => FrameEnd(position + k)
    /\ position' = position + k
    /\ Take(k)
    /\ UNCHANGED broken

Break ==
    /\ phase = "streaming"
    /\ provider = "codex" => FrameEnd(position)
    /\ broken' = TRUE
    /\ Settle(Fail(Pipeline))
    /\ UNCHANGED <<position, native>>

End ==
    LET n == native_finish(native)
    IN  /\ phase = "streaming"
        /\ position = Len(Bytes_of(script))
        /\ native' = IF provider = "anthropic" THEN [n EXCEPT !.out = <<>>] ELSE native
        /\ Settle(IF provider = "anthropic"
                  THEN IF n.failed THEN Fail(Pipeline)
                       ELSE finish_stream_success(FoldLeft(RelayItem, Pipeline, Frames(n)))
                  ELSE finish_stream_success(Pipeline))
        /\ UNCHANGED <<position, broken>>

(* The client goes away: the relay is dropped with the body. *)
Disconnect ==
    /\ phase = "streaming"
    /\ phase' = "closed"
    /\ relay' = [relay EXCEPT !.open = FALSE]
    /\ receipt' = "cancelled"
    /\ UNCHANGED <<provider, client, request, answer, script, position, broken, native, wire, view>>

-----------------------------------------------------------------------------
Init ==
    /\ provider \in Providers /\ client \in Clients
    /\ phase = "idle" /\ request = Nothing /\ answer = Nothing
    /\ script = <<>> /\ position = 0 /\ broken = FALSE
    /\ native = NewNative /\ relay = [dec |-> NewDecoder, chars |-> 0, open |-> FALSE]
    /\ wire = <<>> /\ view = Nothing /\ receipt = "none"

Next ==
    \/ \E body \in Bodies[client] : Request(body)
    \/ \E message \in Answers[provider] : Respond(message)
    \/ \E s \in Scripts[provider] : Open(s)
    \/ \E k \in 1..MaxChunk : Chunk_(k)
    \/ Break \/ End \/ Disconnect

Spec == Init /\ [][Next]_vars

-----------------------------------------------------------------------------
(* What a stream says, read off the script itself: the text, and the name and
   arguments of every call, up to the event which ends it. *)
NoArgs(args) == IF args = <<"{}">> THEN <<>> ELSE args
Readable(e) == e.style \notin {"text", "invalid", "long"}
Ends(e) == Readable(e) /\ e.data.kind \in {"done", "message_stop", "error"}

BeforeEnd(s) ==
    SelectSeq(SubSeq(s, 1, IF \E i \in DOMAIN s : Ends(s[i])
                           THEN (CHOOSE i \in DOMAIN s : Ends(s[i]) /\ \A j \in 1..i-1 : ~Ends(s[j])) - 1
                           ELSE Len(s)),
              Readable)

Cat(parts) == FlattenSeq(parts)

ChatMeaning(payloads) ==
    LET calls == FlattenSeq(Each(payloads, LAMBDA p : p.calls))
        of(i) == SelectSeq(calls, LAMBDA c : c.index = i)
        name(i) == SelectSeq(of(i), LAMBDA c : c.name # "")
    IN  [text |-> Cat(Each(payloads, LAMBDA p : p.text)),
         calls |-> {[name |-> IF name(i) = <<>> THEN "" ELSE name(i)[1].name,
                     args |-> NoArgs(Cat(Each(of(i), LAMBDA c : c.args)))] :
                    i \in {calls[j].index : j \in DOMAIN calls}}]

NativeMeaning(payloads) ==
    LET starts == SelectSeq(payloads, LAMBDA p : p.kind = "content_block_start" /\ p.block = "tool_use")
        deltas(i, k) == SelectSeq(payloads, LAMBDA p : /\ p.kind = "content_block_delta"
                                                      /\ p.delta = k /\ i \in {-1, p.index})
    IN  [text |-> Cat(Each(deltas(-1, "text_delta"), LAMBDA p : p.part)),
         calls |-> {[name |-> starts[j].name,
                     args |-> NoArgs(Cat(Each(deltas(starts[j].index, "input_json_delta"),
                                              LAMBDA p : p.part)))] : j \in DOMAIN starts}]

Meaning(p, s) ==
    LET payloads == Each(BeforeEnd(s), LAMBDA e : e.data)
    IN  IF p = "anthropic" THEN NativeMeaning(payloads)
        ELSE ChatMeaning(SelectSeq(payloads, LAMBDA x : x.kind = "chunk"))

(* A call as a Responses client should see it: of the tool it declared at the
   place of the called name in the list that the provider was sent, and with the
   input of a custom tool that came in its object. *)
AsDeclared(call) ==
    LET at    == {i \in DOMAIN request.wires : request.wires[i] = call.name}
        tool  == request.tools[CHOOSE i \in at : TRUE]
        custom == tool.type = "custom"
    IN  IF at = {} THEN [name |-> call.name, namespace |-> "", custom |-> FALSE, args |-> call.args]
        ELSE [name |-> tool.name, namespace |-> tool.namespace, custom |-> custom,
              args |-> IF custom /\ IsWrapped(call.args)
                       THEN SubSeq(call.args, 2, Len(call.args) - 1) ELSE call.args]

SeenBy(c, meaning) ==
    IF c = "responses" THEN [meaning EXCEPT !.calls = {AsDeclared(call) : call \in @}] ELSE meaning

(* No two tools of a Responses request share a name on the wire. *)
WireNamesDistinct ==
    client = "responses" /\ request # Nothing /\ "wires" \in DOMAIN request =>
        Cardinality(Range(request.wires)) = Len(request.wires)

(* What the client was given. *)
WireEvents(bytes) == DecodeAll(bytes).events
WirePayloads(bytes) == Each(WireEvents(bytes), LAMBDA e : e.data)

Complete(c, v, bytes) ==
    CASE c = "messages" -> v.out # <<>> /\ Last(v.out).frame = "message_stop"
      [] c = "responses" -> Last(v.out).frame = "completed"
      [] c = "chat" -> LET p == WirePayloads(bytes)
                       IN  \E i \in DOMAIN p : /\ p[i].kind = "done"
                                               /\ \A j \in 1..i : p[j].kind # "error"

Errored(c, v, bytes) ==
    CASE c = "messages" -> v.out # <<>> /\ Last(v.out).frame = "error"
      [] c = "responses" -> Last(v.out).frame = "failed"
      [] c = "chat" -> \E i \in DOMAIN WirePayloads(bytes) : WirePayloads(bytes)[i].kind = "error"

MessagesContent(out) ==
    LET starts == SelectSeq(out, LAMBDA f : f.frame = "block_start")
        parts(i) == Cat(Each(SelectSeq(out, LAMBDA f : f.frame = "delta" /\ f.index = i),
                             LAMBDA f : f.part))
        of(kind) == SelectSeq(starts, LAMBDA f : f.block = kind)
    IN  [text |-> Cat(Each(of("text"), LAMBDA f : parts(f.index))),
         calls |-> {[name |-> of("tool_use")[j].name, args |-> NoArgs(parts(of("tool_use")[j].index))] :
                    j \in DOMAIN of("tool_use")}]

ItemsContent(items) ==
    [text |-> Cat(Each(SelectSeq(items, LAMBDA i : i.type = "message"), LAMBDA i : i.text)),
     calls |-> {[name |-> items[j].name, namespace |-> items[j].namespace,
                 custom |-> items[j].custom, args |-> NoArgs(items[j].args)] :
                j \in {k \in DOMAIN items : items[k].type = "call"}}]

Content(c, v, bytes) ==
    CASE c = "messages" -> MessagesContent(v.out)
      [] c = "responses" -> ItemsContent(Last(v.out).output)
      [] c = "chat" -> ChatMeaning(Each(BeforeEnd(Each(WireEvents(bytes),
                                          LAMBDA e : [event |-> e.event, data |-> e.data,
                                                      style |-> IF e.data = Unreadable THEN "text" ELSE "plain"])),
                                        LAMBDA e : e.data))

(* However the transport cuts the provider's stream into chunks, and through
   up to three translators, a client that is told its answer is complete has
   been given the text and the calls of that stream and nothing else, each call
   as the client's own tool.  Nothing is said of a stream that the relay records as
   failed (FailureSurfaces speaks of it), nor of tools that share a wire name. *)
ContentPreserved ==
    phase \in {"streaming", "closed"} /\ receipt # "failed" /\ WireNamesDistinct =>
        (Complete(client, view, wire) =>
            Content(client, view, wire) = SeenBy(client, Meaning(provider, script)))

(* A Messages client sees message_start, then blocks opened and closed one at a
   time with indexes counting from zero, then one message_delta and
   message_stop, or one error at any point, and nothing after either.  A
   Responses client sees one terminal event, the last. *)
Blocks(out) == SelectSeq(out, LAMBDA f : f.frame \in {"block_start", "delta", "block_stop"})

OneAtATime(b) ==
    \A i \in DOMAIN b :
        LET opened == Cardinality({j \in 1..i : b[j].frame = "block_start"})
            closed == Cardinality({j \in 1..i : b[j].frame = "block_stop"})
        IN  /\ b[i].index = opened - 1
            /\ closed = IF b[i].frame = "block_stop" THEN opened ELSE opened - 1

FramesInOrder ==
    /\ client = "messages" /\ phase \in {"streaming", "closed"} =>
          LET out == view.out
          IN  /\ out[1].frame = "message_start"
              /\ OneAtATime(Blocks(out))
              /\ \A i \in 2..Len(out) : out[i].frame # "message_start"
              /\ \A i \in DOMAIN out :
                    /\ out[i].frame \in {"message_stop", "error"} => i = Len(out)
                    /\ out[i].frame = "message_delta" => i = Len(out) - 1
              /\ Complete(client, view, wire) =>
                    Last(Blocks(out)).frame = "block_stop"
    /\ client = "responses" /\ phase \in {"streaming", "closed"} =>
          \A i \in DOMAIN view.out :
             view.out[i].frame \in {"completed", "failed"} => i = Len(view.out)

(* A stream which fails after the client has begun to read it ends in an error
   the client's dialect can read, provided the bytes forwarded so far end
   between two events (they do unless the provider's own bytes are relayed). *)
AtBoundary(bytes) == Push(NewDecoder, bytes).d = NewDecoder
BeforeFailure == SubSeq(wire, 1, Len(wire) - Len(stream_failure_chunk))

FailureSurfaces ==
    receipt = "failed" /\ ~Complete("chat", Nothing, BeforeFailure) /\ AtBoundary(BeforeFailure) =>
        Errored(client, view, wire)

(* What a client reads is a stream of its dialect to the end, also when it
   fails on the way. *)
StreamEndsReadably == FramesInOrder /\ FailureSurfaces

(* The same without the proviso. *)
FailureAlwaysSurfaces ==
    receipt = "failed" /\ ~Complete("chat", Nothing, BeforeFailure) => Errored(client, view, wire)

(* A Responses stream whose completion was handed over is not recorded as
   cancelled by the gateway's own doing. *)
CompletionIsNotCancelled ==
    [][receipt' = "cancelled" /\ view' # view => ~Complete(client, view', wire')]_vars

-----------------------------------------------------------------------------
(* An Anthropic conversation: roles alternate, the calls of a message are
   answered in the next one, whose results come first and answer nothing else. *)
Ids(m, type) == {m.blocks[i].id : i \in {j \in DOMAIN m.blocks : m.blocks[j].type = type}}

ValidConversation(ms) ==
    \A i \in DOMAIN ms :
        /\ i > 1 => ms[i].role # ms[i-1].role
        /\ Ids(ms[i], "tool_use") # {} =>
              ms[i].role = "assistant" /\ i < Len(ms)
              /\ Ids(ms[i], "tool_use") \subseteq Ids(ms[i+1], "tool_result")
        /\ Ids(ms[i], "tool_result") # {} =>
              ms[i].role = "user" /\ i > 1
              /\ Ids(ms[i], "tool_result") \subseteq Ids(ms[i-1], "tool_use")
        /\ \A j, k \in DOMAIN ms[i].blocks :
              ms[i].blocks[j].type = "text" /\ ms[i].blocks[k].type = "tool_result" => k < j

(* The same of the input items of a Responses request: a call and its output
   are separated by calls and outputs only. *)
ValidItems(items) ==
    LET call(i) == items[i].type \in {"function_call", "custom_tool_call"}
        output(i) == items[i].type \in {"function_call_output", "custom_tool_call_output"}
        answers(j, i) == i < j /\ items[i].id = items[j].id
                         /\ \A k \in i..j : call(k) \/ output(k)
    IN  /\ \A i \in DOMAIN items : call(i) => \E j \in DOMAIN items : output(j) /\ answers(j, i)
        /\ \A j \in DOMAIN items : output(j) => \E i \in DOMAIN items : call(i) /\ answers(j, i)
        /\ \A i, j \in DOMAIN items : i < j /\ output(i) /\ call(j) =>
              \A k \in i..j : call(k) \/ output(k)
              => \A m \in 1..i : call(m) => \E n \in 1..j : output(n) /\ items[n].id = items[m].id

WellFormedBody(c, body) ==
    CASE c = "messages" -> \E order \in {"results first", "as sent"} :
                             ValidConversation(Each(body.messages, LAMBDA m :
                               [m EXCEPT !.blocks = IF order = "as sent" THEN @
                                  ELSE OfType(@, "tool_result") \o OfType(@, "text") \o OfType(@, "tool_use")]))
      [] c = "responses" -> ValidItems(body.items)
      [] c = "chat" -> FALSE

(* A well-formed conversation of a Messages or a Responses client reaches an
   Anthropic upstream as one, through the Chat Completions form in between. *)
ConversationStaysValid ==
    phase = "sent" /\ provider = "anthropic" /\ WellFormedBody(client, request.body) =>
        ValidConversation(request.sent.messages)

(* The stream an upstream would have sent in place of a buffered answer. *)
Event(name, data) == [event |-> name, data |-> data, style |-> "plain"]

NativeStream(message) ==
    <<Event("message_start", [kind |-> "message_start"])>>
    \o FlattenSeq([i \in DOMAIN message.content |->
         LET b == message.content[i]
             tool == b.type = "tool_use"
             part == IF tool THEN b.input ELSE b.text
         IN  <<Event("content_block_start",
                     [kind |-> "content_block_start", index |-> i, block |-> b.type,
                      id |-> IF tool THEN b.id ELSE "", name |-> IF tool THEN b.name ELSE ""])>>
             \o (IF part = <<>> THEN <<>>
                 ELSE <<Event("content_block_delta",
                              [kind |-> "content_block_delta", index |-> i, part |-> part,
                               delta |-> IF tool THEN "input_json_delta" ELSE "text_delta"])>>)
             \o <<Event("content_block_stop", [kind |-> "content_block_stop", index |-> i])>>])
    \o <<Event("message_delta", [kind |-> "message_delta", reason |-> message.stop_reason]),
         Event("message_stop", [kind |-> "message_stop"])>>

ChatStream(response) ==
    (IF response.text \in {Null, <<>>} THEN <<>>
     ELSE <<Event("message", Chunk(response.text, <<>>, "none"))>>)
    \o [i \in DOMAIN response.calls |->
          Event("message", Chunk(<<>>, <<[index |-> i - 1, id |-> response.calls[i].id,
                                          name |-> response.calls[i].name,
                                          args |-> IF response.calls[i].args = Null THEN <<>>
                                                  ELSE response.calls[i].args]>>, "none"))]
    \o <<Event("message", Chunk(<<>>, <<>>, response.reason)), Event("message", Done)>>

ChatBytes(p, message) ==
    IF p = "anthropic"
    THEN Cat(Frames(native_push(NewNative, Bytes_of(NativeStream(message)))))
    ELSE Bytes_of(ChatStream(message))

StreamedAnswer(p, c, message) ==
    LET bytes == ChatBytes(p, message)
        v     == IF c = "messages" THEN push(NewMessages, bytes) 
                 ELSE relay_push(NewRelay([i \in DOMAIN request.tools |->
                                   [wire |-> request.wires[i], identity |-> request.tools[i]]]), bytes)
    IN  CASE Errored(c, v, bytes) -> Rejected
          [] c = "messages" /\ ~Errored(c, v, bytes) -> MessagesContent(v.out)
          [] OTHER -> ItemsContent(Last(v.out).output)

GivenContent(c, given) ==
    IF c = "responses" THEN ItemsContent(given.output)
    ELSE [text |-> Cat(Each(OfType(given.content, "text"), LAMBDA b : b.text)),
          calls |-> LET tools == OfType(given.content, "tool_use")
                    IN  {[name |-> tools[i].name, args |-> NoArgs(tools[i].input)] : i \in DOMAIN tools}]

(* What a buffered answer keeps of a streamed one: a Messages client loses
   arguments that are no JSON, a Responses client calls without a name. *)
Kept(c, content) ==
    IF c = "messages" THEN [content EXCEPT !.calls = {[k EXCEPT !.args = from_json(@)] : k \in @}]
    ELSE [content EXCEPT !.calls = {k \in @ : k.name # ""}]

(* A client gets the same text and calls whether it asks for the answer
   buffered or streamed, but for what only the stream keeps, unless the answer is
   past a limit of the stream. *)
BufferedMatchesStreamed ==
    phase = "answered" /\ client # "chat" /\ ~IsRejected(answer.given) =>
        LET streamed == StreamedAnswer(provider, client, answer.message)
        IN  IsRejected(streamed) \/ GivenContent(client, answer.given) = Kept(client, streamed)

(* The same without the exception. *)
BufferedLosesNothing ==
    phase = "answered" /\ client # "chat" /\ ~IsRejected(answer.given) =>
        StreamedAnswer(provider, client, answer.message)
            \in {Rejected, GivenContent(client, answer.given)}

(* A client has the provider's answer, whichever way it asked for it and
   however it travelled: the whole of it streamed, unless the relay reports a
   failure, and buffered all but calls without a name (Responses) and arguments
   that are no JSON (Messages, which gets {} for them). *)
AnswerPreserved == ContentPreserved /\ BufferedMatchesStreamed
=============================================================================
