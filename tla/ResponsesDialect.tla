-------------------------- MODULE ResponsesDialect --------------------------
(***************************************************************************)
(* gateway/responses.rs: the Responses API over Chat Completions.  A       *)
(* request is translated strictly: what has no translation is refused.     *)
(* An answer, buffered or streamed, becomes output items.                  *)
(***************************************************************************)
EXTENDS MessagesDialect

CONSTANTS MaxInputItems,    \* MAX_INPUT_ITEMS
          MaxTools,         \* MAX_TOOLS
          MaxInputChars,    \* MAX_INPUT_CHARS
          MaxOutputChars,   \* MAX_OUTPUT_CHARS
          MaxStreamEvents   \* MAX_STREAM_EVENTS

-----------------------------------------------------------------------------
(* Tools.  A tool keeps its name on the wire when it has no namespace, its name
   is fit for the wire and no earlier tool has it; otherwise it gets one made of
   its position and the fit part of its name, suffix. *)
chat_tool_name(tool, translated) ==
    IF /\ tool.namespace = "" /\ tool.suffix = tool.name
       /\ \A i \in DOMAIN translated : translated[i].wire # tool.name
    THEN tool.name
    ELSE "wf_" \o ToString(Len(translated)) \o "_" \o tool.suffix

translate_one_tool(acc, tool) ==
    IF IsRejected(acc) THEN acc
    ELSE IF Len(acc.tools) >= MaxTools \/ tool.name = "" \/ ~tool.valid THEN Rejected
    ELSE [acc EXCEPT !.tools = Append(@, [wire |-> chat_tool_name(tool, acc.tools),
                                          identity |-> tool])]

(* A namespace stands for the tools nested in it. *)
Expanded(tools) ==
    FlattenSeq(Each(tools, LAMBDA t : IF t.type = "namespace" THEN t.tools ELSE <<t>>))

translate_tools(tools) ==
    IF Len(tools) > MaxTools THEN Rejected
    ELSE FoldLeft(translate_one_tool, [tools |-> <<>>], Expanded(tools))

(* The identities are kept by wire name: a later tool replaces an earlier one. *)
Known(tools) == {i \in DOMAIN tools : \A j \in i + 1..Len(tools) : tools[j].wire # tools[i].wire}

identity(tools, wire) ==
    IF \E i \in Known(tools) : tools[i].wire = wire
    THEN LET tool == tools[CHOOSE i \in Known(tools) : tools[i].wire = wire].identity
         IN  [name |-> tool.name, namespace |-> tool.namespace, custom |-> tool.type = "custom"]
    ELSE [name |-> wire, namespace |-> "", custom |-> FALSE]

wire_name(tools, name, namespace, custom) ==
    LET same == {i \in Known(tools) : /\ tools[i].identity.name = name
                                      /\ tools[i].identity.namespace = namespace
                                      /\ (tools[i].identity.type = "custom") = custom}
    IN  IF same = {} THEN name ELSE tools[CHOOSE i \in same : TRUE].wire

responses_tool_choice(choice, tools) ==
    IF choice.type \in {"auto", "none", "required"} THEN Choose(choice.type, "")
    ELSE LET same == {i \in Known(tools) : /\ tools[i].identity.name = choice.name
                                           /\ tools[i].identity.type = choice.type}
         IN  IF same = {} THEN Rejected ELSE Choose("function", tools[CHOOSE i \in same : TRUE].wire)

-----------------------------------------------------------------------------
(* Input items.  Calls are held back and become one assistant message when
   something other than a call follows. *)
flush_tool_calls(acc) ==
    IF acc.pending = <<>> THEN acc
    ELSE [acc EXCEPT !.messages = Append(@, Chat("assistant", Null, acc.pending, "")),
                     !.pending = <<>>]

AddMessage(acc, m) ==
    LET u == flush_tool_calls(acc)
    IN  [u EXCEPT !.messages = Append(@, m), !.chars = @ + Len(m.text)]

(* The input of a custom tool travels as the one field of an object. *)
AddCall(acc, item, tools, custom) ==
    [acc EXCEPT !.pending = Append(@, [id |-> item.id,
                                       args |-> IF custom THEN Wrapped(item.input) ELSE item.input,
                                       name |-> wire_name(tools, item.name, item.namespace, custom)]),
                !.chars = @ + Len(item.input)]

translate_input_item(acc, item, tools) ==
    IF IsRejected(acc) \/ ~item.valid THEN Rejected
    ELSE CASE item.type = "message" /\ item.role \in {"system", "developer", "user", "assistant"} ->
                AddMessage(acc, Chat(item.role, item.text, <<>>, ""))
           [] item.type \in {"function_call", "custom_tool_call"}
                /\ item.id # "" /\ item.name # "" /\ item.input # <<>> ->
                AddCall(acc, item, tools, item.type = "custom_tool_call")
           [] item.type \in {"function_call_output", "custom_tool_call_output"} /\ item.id # "" ->
                AddMessage(acc, Chat("tool", item.text, <<>>, item.id))
           [] OTHER -> Rejected

(* The controls that are only checked: limits, sampling, store, include, text
   format, reasoning; request.valid says that they pass. *)
validate_controls(request) ==
    /\ request.valid
    /\ ~request.store
    /\ Len(request.instructions) <= MaxInputChars

validate_and_translate(request) ==
    LET tools  == translate_tools(request.tools)
        first  == IF request.instructions = <<>> THEN <<>>
                  ELSE <<Chat("system", request.instructions, <<>>, "")>>
        acc    == FoldLeft(LAMBDA a, i : translate_input_item(a, i, tools.tools),
                           [messages |-> first, pending |-> <<>>,
                            chars |-> Len(request.instructions)], request.items)
        choice == responses_tool_choice(request.tool_choice, tools.tools)
    IN  IF ~validate_controls(request) \/ IsRejected(tools) THEN Rejected
        ELSE IF IsRejected(choice) \/ request.items = <<>> \/ Len(request.items) > MaxInputItems
             THEN Rejected
        ELSE IF IsRejected(acc) THEN Rejected
        ELSE IF acc.chars > MaxInputChars THEN Rejected
        ELSE [messages |-> flush_tool_calls(acc).messages,
              tools |-> Each(tools.tools, LAMBDA t : t.wire),
              tool_choice |-> IF tools.tools = <<>> THEN NoChoice ELSE choice,
              unsupported |-> request.service_tier # "",
              stream |-> request.stream]

-----------------------------------------------------------------------------
(* Answers as output items: the text, if any, then the calls in order.  A call
   without an id gets one made of its position.  The tool has the name that the
   client knows it by, and the input of a custom tool is taken out of its object,
   if it is in one. *)
Item(index, call, tools) ==
    LET tool == identity(tools, call.name)
    IN  [type |-> "call", name |-> tool.name, namespace |-> tool.namespace, custom |-> tool.custom,
         args |-> IF tool.custom /\ IsWrapped(call.args) THEN Tail(Front(call.args)) ELSE call.args,
         id |-> IF call.id = "" THEN "call_" \o ToString(index) ELSE call.id]
Items(text, calls, tools) ==
    (IF text \in {Null, <<>>} THEN <<>> ELSE <<[type |-> "message", text |-> text]>>)
        \o [i \in DOMAIN calls |-> Item(i - 1, calls[i], tools)]

CallChars(c) == Len(c.args) + (IF c.id = "" THEN 0 ELSE 1) + (IF c.name = "" THEN 0 ELSE 1)
CallsChars(calls) == FoldLeft(LAMBDA n, c : n + CallChars(c), 0, calls)
TextChars(text) == IF text = Null THEN 0 ELSE Len(text)

(* Calls without a name are left out, and absent arguments are the empty object. *)
extract_buffered_tool_calls(calls) ==
    Each(SelectSeq(calls, LAMBDA c : c.name # ""),
         LAMBDA c : IF c.args = Null THEN [c EXCEPT !.args = to_json(<<>>)] ELSE c)

responses_buffered(response, tools) ==
    LET calls == extract_buffered_tool_calls(response.calls)
    IN  IF \/ TextChars(response.text) + CallsChars(calls) > MaxOutputChars
           \/ Len(calls) > MaxTools
        THEN Rejected
        ELSE [output |-> Items(response.text, calls, tools), status |-> "completed"]

-----------------------------------------------------------------------------
(* The streaming relay.  calls is a function from upstream indexes. *)
NewRelay(tools) ==
    [dec |-> NewDecoder, tool_metadata |-> tools, output |-> <<>>, calls |-> <<>>, tool_chars |-> 0,
     terminal |-> FALSE, event_count |-> 0,
     out |-> <<[frame |-> "created"]>>]

Indexes(r) == SetToSortSeq(DOMAIN r.calls, <)

(* The final object numbers the calls by position, the frames before it by
   their upstream index. *)
Answer(r) == Items(r.output, Each(Indexes(r), LAMBDA i : r.calls[i]), r.tool_metadata)
DoneItems(r) ==
    Items(r.output, <<>>, <<>>)
        \o Each(Indexes(r), LAMBDA i : Item(i, r.calls[i], r.tool_metadata))

complete(r) ==
    IF r.terminal THEN r
    ELSE [r EXCEPT !.terminal = TRUE,
                   !.out = @ \o Each(DoneItems(r), LAMBDA i : [frame |-> "item_done", item |-> i])
                             \o <<[frame |-> "completed", output |-> Answer(r)]>>]

fail(r) ==
    IF r.terminal THEN r
    ELSE [r EXCEPT !.terminal = TRUE, !.out = Append(@, [frame |-> "failed"])]

NoCall == [id |-> "", name |-> "", args |-> <<>>]

(* Ids, names and arguments of a call are all appended to what came before. *)
accumulate_tool_calls(r, call) ==
    LET old == IF call.index \in DOMAIN r.calls THEN r.calls[call.index] ELSE NoCall
        new == [id |-> old.id \o call.id, name |-> old.name \o call.name,
                args |-> old.args \o call.args]
        u   == [r EXCEPT !.calls = [i \in DOMAIN @ \cup {call.index} |->
                                      IF i = call.index THEN new ELSE @[i]],
                         !.tool_chars = @ + CallChars(call)]
    IN  IF r.terminal THEN r
        ELSE IF \/ call.index \notin DOMAIN r.calls /\ Cardinality(DOMAIN r.calls) >= MaxTools
                \/ Len(r.output) + u.tool_chars > MaxOutputChars
             THEN fail(r)
        ELSE u

AddText(r, text) ==
    IF r.terminal \/ text = <<>> THEN r
    ELSE IF Len(r.output) + r.tool_chars + Len(text) > MaxOutputChars THEN fail(r)
    ELSE [r EXCEPT !.output = @ \o text, !.out = Append(@, [frame |-> "delta", part |-> text])]

RelayEvent(r, e) ==
    LET u == [r EXCEPT !.event_count = @ + 1]
    IN  IF r.terminal THEN r
        ELSE IF u.event_count > MaxStreamEvents THEN fail(u)
        ELSE CASE e.data.kind = "done" -> complete(u)
               [] e.data.kind \in {"unreadable", "error"} -> fail(u)
               [] e.data.kind = "chunk" ->
                    AddText(FoldLeft(accumulate_tool_calls, u, e.data.calls), e.data.text)
               [] OTHER -> u

relay_push(r, chunk) ==
    LET s == Push(r.dec, chunk)
    IN  IF s.failed THEN fail([r EXCEPT !.dec = s.d])
        ELSE FoldLeft(RelayEvent, [r EXCEPT !.dec = s.d], s.events)

relay_finish(r) ==
    LET s == Finish(r.dec)
    IN  complete(IF s.failed THEN fail([r EXCEPT !.dec = s.d])
                 ELSE FoldLeft(RelayEvent, [r EXCEPT !.dec = s.d], s.events))
=============================================================================
