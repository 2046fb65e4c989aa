--------------------------- MODULE MCStreamRelay ---------------------------
(* The dialects and relays of one request, on short conversations and streams. *)
EXTENDS StreamRelay

-----------------------------------------------------------------------------
(* Conversations: one to three messages of these shapes. *)
T(x) == [type |-> "text", text |-> x]
Use(i) == [type |-> "tool_use", id |-> i, name |-> "f", input |-> <<"x">>]
Res(i) == [type |-> "tool_result", id |-> i, text |-> <<"r">>]
Other == [type |-> "image"]

Shapes ==
    {[role |-> "user", blocks |-> b] :
        b \in {<<T(<<"a">>)>>, <<Res("A")>>, <<T(<<"b">>), Res("A")>>, <<Res("A"), Res("B")>>, <<Other>>}}
    \cup {[role |-> "assistant", blocks |-> b] :
        b \in {<<T(<<"c">>), T(<<"d">>)>>, <<Use("A")>>, <<T(<<"c">>), Use("A"), Use("B")>>, <<T(<<>>)>>}}

ToolChoices == {NoChoice, Choose("any", ""), Choose("tool", "f"), Choose("none", "")}

MessagesBodies ==
    {[system |-> s, messages |-> ms, tools |-> <<"f">>, tool_choice |-> NoChoice, stream |-> FALSE] :
        s \in {<<"s">>}, ms \in UNION {[1..n -> Shapes] : n \in 1..3}}
    \cup {[system |-> <<>>, messages |-> <<[role |-> "user", blocks |-> <<T(<<"a">>)>>]>>,
           tools |-> <<"f">>, tool_choice |-> c, stream |-> c = NoChoice] : c \in ToolChoices}

It(type, role, id) ==
    [type |-> type, role |-> role, id |-> id, name |-> "f", namespace |-> "",
     input |-> <<"x">>, text |-> <<"t">>, valid |-> TRUE]
ItemSet ==
    {It("message", "user", ""), It("message", "assistant", ""), It("function_call", "", "A"),
     It("function_call", "", "B"), It("function_call_output", "", "A"),
     It("function_call_output", "", "B"), It("reasoning", "", "")}

ToolItems ==
    {It("message", "user", ""), [It("custom_tool_call", "", "A") EXCEPT !.name = "c."],
     It("custom_tool_call_output", "", "A"), [It("function_call", "", "A") EXCEPT !.namespace = "n"],
     [It("function_call", "", "A") EXCEPT !.input = <<"junk">>]}

FTool == [type |-> "function", name |-> "f", suffix |-> "f", namespace |-> "", valid |-> TRUE]
NTool == [FTool EXCEPT !.namespace = "n"]
CTool == [FTool EXCEPT !.type = "custom", !.name = "c.", !.suffix = "c"]
Namespace(tools) == [type |-> "namespace", tools |-> tools]
Tools == {<<>>, <<FTool>>, <<FTool, Namespace(<<NTool, FTool>>)>>}

(* On the wire: f, wf_1_f and wf_2_c. *)
ThreeTools == <<FTool, Namespace(<<NTool>>), CTool>>
Colliding == <<[FTool EXCEPT !.name = "wf_1_f", !.suffix = "wf_1_f"], Namespace(<<NTool>>)>>

ResponsesBody(items, tools, choice) ==
    [items |-> items, tools |-> tools, tool_choice |-> choice, instructions |-> <<>>,
     valid |-> TRUE, store |-> FALSE, service_tier |-> "", stream |-> FALSE]

ResponsesBodies ==
    {ResponsesBody(items, <<FTool>>, Choose("auto", "")) :
        items \in UNION {[1..n -> ItemSet] : n \in 1..4}}
    \cup {ResponsesBody(<<It("message", "user", "")>>, tools, choice) :
            tools \in Tools, choice \in {Choose("auto", ""), Choose("function", "f")}}
    \cup {ResponsesBody(items, ThreeTools, Choose("auto", "")) :
            items \in UNION {[1..n -> ToolItems] : n \in 1..3}}
    \cup {[ResponsesBody(<<It("message", "user", "")>>, tools, Choose("auto", ""))
             EXCEPT !.stream = tools = ThreeTools] : tools \in {ThreeTools, Colliding}}
    \cup {[ResponsesBody(<<It("message", "user", "")>>, <<>>, Choose("auto", ""))
             EXCEPT !.service_tier = t, !.store = s, !.stream = TRUE] : t \in {"", "flex"}, s \in BOOLEAN}

ChatBodies ==
    {[messages |-> <<Chat("user", t, <<>>, "")>>, tools |-> <<>>, tool_choice |-> NoChoice,
      unsupported |-> u, stream |-> b] : t \in {<<"a">>, NonText}, u \in BOOLEAN, b \in BOOLEAN}

MCBodies == [c \in {"chat", "messages", "responses"} |->
               CASE c = "chat" -> ChatBodies [] c = "messages" -> MessagesBodies
                 [] OTHER -> ResponsesBodies]

-----------------------------------------------------------------------------
(* Buffered answers. *)
ContentBlocks == {T(<<"a">>), T(<<"b">>), ToolBlock("A", "f", <<"x">>), ToolBlock("B", "g", <<>>),
                  ToolBlock("C", "wf_2_c", Wrapped(<<"x">>))}
NativeAnswers ==
    {[content |-> c, stop_reason |-> r] :
        c \in UNION {[1..n -> ContentBlocks] : n \in 0..3}, r \in {"end_turn", "tool_use"}}
    \cup {[content |-> <<Other>>, stop_reason |-> "end_turn"]}
Call1 == [id |-> "A", name |-> "f", args |-> <<"x">>]
Call2 == [id |-> "", name |-> "g", args |-> <<>>]
(* Calls of a renamed and of a custom tool, and calls that lack something. *)
OddCalls ==
    {<<[id |-> "A", name |-> name, args |-> args]>> :
        name \in {"", "f", "wf_1_f", "wf_2_c"},
        args \in {Null, <<"x">>, <<"junk">>, Scalar, Wrapped(<<"x">>), Wrapped(<<"junk">>)}}
    \cup {<<[Call1 EXCEPT !.name = ""], Call1>>}
ChatAnswers ==
    {[text |-> t, calls |-> c, reason |-> r] :
        t \in {Null, <<"a">>}, c \in {<<>>, <<Call1>>, <<Call1, Call2>>, <<Call2>>} \cup OddCalls,
        r \in {"stop", "tool_calls"}}

MCAnswers == [p \in {"openai", "anthropic", "codex"} |->
                IF p = "anthropic" THEN NativeAnswers
                ELSE IF p = "codex" THEN {a \in ChatAnswers : a.calls = <<>> /\ a.text # Null}
                ELSE ChatAnswers]

-----------------------------------------------------------------------------
(* Streams.  Events of an OpenAI-compatible provider: *)
Ev(data, style) == [event |-> "message", data |-> data, style |-> style]
Say(x) == Chunk(<<x>>, <<>>, "none")
Ask(i, id, name, args) == Chunk(<<>>, <<[index |-> i, id |-> id, name |-> name, args |-> args]>>, "none")

ChatEvents ==
    {Ev(Say("a"), "plain"), Ev(Say("b"), "crlf"), Ev(Ask(0, "A", "f", <<>>), "plain"),
     Ev(Ask(1, "", "g", <<"y">>), "lines"), Ev(Ask(0, "", "", <<"x">>), "comment"),
     Ev(Chunk(<<>>, <<>>, "tool_calls"), "plain"), Ev(Done, "plain"), Ev(ErrorPayload, "plain"),
     [Ev(Say("a"), "text") EXCEPT !.event = "error"], Ev(Say("c"), "text"), Ev(Say("c"), "long"),
     Ev(Say("c"), "invalid")}

(* A provider sends the id and the name of a call once. *)
NamedOnce(s) ==
    \A i, j \in DOMAIN s :
        i # j /\ s[i].data.kind = "chunk" /\ s[j].data.kind = "chunk" =>
            \A c \in Range(s[i].data.calls), d \in Range(s[j].data.calls) :
                c.index = d.index => c.name = "" \/ d.name = ""

AnyChatScripts ==
    UNION {[1..n -> ChatEvents] : n \in 0..2}
    \cup {s \o <<Ev(Say("b"), "tail")>> : s \in [1..1 -> ChatEvents]}
    \cup {s \o <<Ev(Done, "plain")>> : s \in [1..2 -> {e \in ChatEvents : Readable(e)}]}
    \cup {<<Ev(Ask(1, "B", "g", <<"y">>), "plain"), Ev(Ask(0, "A", "f", <<"x">>), "plain"),
            Ev(Ask(1, "", "", <<"y">>), "plain"), Ev(Say("a"), "plain"), Ev(Done, "plain")>>}
    \cup {<<Ev(Ask(0, "A", name, Front(args)), "plain"), Ev(Ask(0, "", "", <<Last(args)>>), "plain"),
            Ev(Done, "plain")>> :
            name \in {"wf_1_f", "wf_2_c"}, args \in {Wrapped(<<"x">>), <<"x", "junk">>}}

ChatScripts == {s \in AnyChatScripts : NamedOnce(s)}

CodexScripts ==
    {s \o <<Ev(Chunk(<<>>, <<>>, "stop"), "plain"), Ev(Done, "plain")>> :
        s \in UNION {[1..n -> {Ev(Say("a"), "plain"), Ev(Say("b"), "plain")}] : n \in 0..2}}

(* Events of an Anthropic provider: whole messages, and short sequences of
   events in any order. *)
NEv(kind) == Event(kind, [kind |-> kind])
NStart(i, b) == Event("content_block_start", [kind |-> "content_block_start", index |-> i,
                      block |-> b, id |-> IF b = "tool_use" THEN "A" ELSE "", name |-> "f"])
NDelta(i, d) == Event("content_block_delta", [kind |-> "content_block_delta", index |-> i,
                      part |-> <<"x">>, delta |-> d])
NStop(i) == Event("content_block_stop", [kind |-> "content_block_stop", index |-> i])
NativeEvents ==
    {NEv("message_start"), NStart(0, "text"), NStart(0, "tool_use"), NStart(0, "thinking"),
     NDelta(0, "text_delta"), NDelta(0, "input_json_delta"), NStop(0), NEv("message_stop"),
     NEv("ping"), NEv("error"),
     [NEv("message_stop") EXCEPT !.event = "message"], [NEv("message_start") EXCEPT !.style = "text"],
     Event("message_delta", [kind |-> "message_delta", reason |-> "max_tokens"])}

Interleaved ==
    <<NEv("message_start"), NStart(0, "text"), NStart(1, "tool_use"), NDelta(0, "text_delta"),
      NDelta(1, "input_json_delta"), NStop(0), NDelta(1, "input_json_delta"), NStop(1),
      NEv("message_stop")>>

NativeScripts ==
    UNION {[1..n -> NativeEvents] : n \in 0..2}
    \cup {<<NStart(0, b)>> \o s \o <<NEv("message_stop")>> :
            b \in {"text", "tool_use"}, s \in [1..2 -> NativeEvents]}
    \cup {NativeStream(a) : a \in {b \in NativeAnswers : Len(b.content) = 2 /\ Other \notin Range(b.content)}}
    \cup {Interleaved}

MCScripts == [p \in {"openai", "anthropic", "codex"} |->
                CASE p = "openai" -> ChatScripts [] p = "anthropic" -> NativeScripts
                  [] OTHER -> CodexScripts]
=============================================================================
