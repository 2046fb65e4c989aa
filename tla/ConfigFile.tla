----------------------------- MODULE ConfigFile -----------------------------
(***************************************************************************)
(* wayfinder-router.toml as a file: the operator edits it, the desktop app  *)
(* replaces its routing part with `config apply-routing` (wayfinder-cli/    *)
(* src/config_command.rs over apply_supported_routing_fragment), and the    *)
(* gateway loads it.                                                        *)
(*                                                                          *)
(* The text is a sequence of blocks, a header line and the lines below it.  *)
(* TOML reads every header; the line editor only sees a header when the     *)
(* line ends with "]", so one with a trailing comment ("noted") belongs,    *)
(* for it, to the block before.                                             *)
(***************************************************************************)
EXTENDS GatewayConfig

CONSTANTS Starts,           \* a file to start from and its environment: the
                            \* threshold variable, and whether a path is named
          Fragments,        \* what the desktop app may send
          Offers(_, _),     \* Offers(n, block): the edits offered as the n-th
          MaxEdits, MaxApplies

VARIABLES file,      \* the text at the selected path
          entry,     \* what the path is: "file", "missing", "unreadable"
          env,       \* the environment the gateway was started in
          running,   \* the configuration of the running gateway, or NotLoaded
          apply,     \* an apply-routing command between its read and its rename
          edits,     \* how many edits the operator has made
          applies,   \* how many apply-routing commands have read the file
          applied    \* history: the routing last renamed into place, until an edit

vars == <<file, entry, env, running, apply, edits, applies, applied>>

NotLoaded == [loaded |-> FALSE]
NoApply == [pc |-> "none"]

----------------------------------------------------------------------------
(* The text as TOML reads it                                                *)

IsRouting(block) == block.path[1] = "routing"
\* Only the tiers may be repeated: [[routing.tiers]].
TomlOk(text) ==
    \A i, j \in DOMAIN text :
        i # j /\ text[i].path = text[j].path => text[i].path = <<"routing", "tiers">>

TheBlock(text, p) == text[CHOOSE i \in DOMAIN text : text[i].path = p].t
HasBlock(text, p) == \E i \in DOMAIN text : text[i].path = p

GatewayDoc(text) ==
    [p \in Tables |->
        IF HasBlock(text, p) THEN TheBlock(text, p)
        ELSE IF \E i \in DOMAIN text :
                    /\ ~IsRouting(text[i])
                    /\ p = <<"gateway">> \/ IsStrictPrefix(p, text[i].path)
             THEN [Nothing(Kind(p)) EXCEPT !.at = "table"]
             ELSE Nothing(Kind(p))]

RoutingText(text) ==
    LET tiers == SelectSeq(text, LAMBDA b : b.path = <<"routing", "tiers">>)
    IN [p \in RoutingTables |->
           IF Len(p) = 3 THEN IF p[3] <= Len(tiers) THEN tiers[p[3]].t ELSE NoTable(p)
           ELSE IF HasBlock(text, p) THEN TheBlock(text, p) ELSE NoTable(p)]

IfToml(text, parsed) == [parsed EXCEPT !.ok = @ /\ TomlOk(text)]
ReadRouting(text, threshold) ==
    IfToml(text, routing_config_from_toml(Whole(RoutingText(text)), threshold, TRUE))
ReadGateway(text) == IfToml(text, gateway_config_from_toml(Whole(GatewayDoc(text))))

----------------------------------------------------------------------------
(* The line editor                                                          *)

\* A mutant: the scan does not leave the routing family at the next header.
BUG_in_routing(text, i) == \E j \in 1..i : ~text[j].noted /\ IsRouting(text[j])
\* Whether the line scan is inside the routing family at block i.
in_routing(text, i) ==
    \E j \in 1..i : /\ ~text[j].noted
                    /\ \A k \in (j + 1)..i : text[k].noted
                    /\ IsRouting(text[j])

replace_routing_family(text, fragment) ==
    LET kept == SelectSeq([i \in DOMAIN text |-> <<i, text[i]>>],
                          LAMBDA b : ~in_routing(text, b[1]))
    IN [i \in DOMAIN kept |-> kept[i][2]] \o fragment

validate_routing_fragment_shape(fragment) ==
    /\ TomlOk(fragment)
    /\ fragment # <<>>
    /\ \A i \in DOMAIN fragment :
          /\ fragment[i].path \in {<<"routing">>, <<"routing", "tiers">>}
          /\ fragment[i].path = <<"routing">> => fragment[i].t.f["unknown"] = "absent"

ensure_existing_routing_is_supported(text) ==
    /\ TomlOk(text)
    /\ \A i \in DOMAIN text : IsRouting(text[i]) =>
          CASE text[i].path = <<"routing">> -> text[i].t.f["unknown"] = "absent"
            [] text[i].path = <<"routing", "tiers">> -> text[i].t.f["cost"] = "absent"
            [] OTHER -> FALSE

Applied(text, fragment, updated, desired, actual) ==
    [ok |-> /\ validate_routing_fragment_shape(fragment)
            /\ ensure_existing_routing_is_supported(text)
            /\ desired.ok /\ actual.ok
            /\ actual.val = desired.val,
     text |-> updated, want |-> desired.val]
ReadBack(text, fragment, updated) ==
    Applied(text, fragment, updated, ReadRouting(fragment, "absent"), ReadRouting(updated, "absent"))
apply_supported_routing_fragment(text, fragment) ==
    ReadBack(text, fragment, replace_routing_family(text, fragment))

----------------------------------------------------------------------------
(* Steps                                                                    *)

Init ==
    /\ \E start \in Starts : file = start.file /\ env = start.env
    /\ entry = "file"
    /\ running = NotLoaded
    /\ apply = NoApply
    /\ edits = 0
    /\ applies = 0
    /\ applied = NoApply

\* The operator changes one thing in the file with an editor.
Edit(i, t) ==
    /\ edits < MaxEdits
    /\ t \in Offers(edits, file[i])
    /\ file' = [file EXCEPT ![i] = t]
    /\ edits' = edits + 1
    /\ applied' = NoApply
    /\ UNCHANGED <<entry, env, running, apply, applies>>

RemoveBlock(i) ==
    /\ edits < MaxEdits
    /\ edits' = edits + 1
    /\ file' = RemoveAt(file, i)
    /\ applied' = NoApply
    /\ UNCHANGED <<entry, env, running, apply, applies>>

\* The file is moved away, or its permissions change.
Replace(kind) ==
    /\ edits < MaxEdits
    /\ entry # kind
    /\ entry' = kind
    /\ edits' = edits + 1
    /\ applied' = NoApply
    /\ UNCHANGED <<file, env, running, apply, applies>>

\* apply_routing: read the file, compute the new text and check it ...
ApplyRead(fragment) ==
    /\ apply = NoApply
    /\ applies < MaxApplies
    /\ entry = "file"
    /\ \E updated \in {apply_supported_routing_fragment(file, fragment)} :
         /\ updated.ok
         /\ ReadGateway(updated.text).ok
         /\ apply' = [pc |-> "stage", read |-> file, text |-> updated.text, since |-> edits,
                       result |-> [want |-> updated.want,
                                   tiered |-> HasBlock(fragment, <<"routing", "tiers">>)]]
    /\ applies' = applies + 1
    /\ UNCHANGED <<file, entry, env, running, edits, applied>>

\* ... atomic_replace: write a new file beside it and rename it over the path,
\* which must still be a regular file; the stage file is removed on failure.
ApplyStage ==
    /\ apply.pc = "stage"
    /\ apply' = IF entry = "file" THEN [apply EXCEPT !.pc = "rename"] ELSE NoApply
    /\ UNCHANGED <<file, entry, env, running, edits, applies, applied>>

ApplyRename ==
    /\ apply.pc = "rename"
    /\ \/ file' = apply.text /\ entry' = "file" /\ applied' = apply.result
       \/ UNCHANGED <<file, entry, applied>>    \* the rename fails
    /\ apply' = NoApply
    /\ UNCHANGED <<env, running, edits, applies>>

\* find_config_file and read_config_source: a path that was named explicitly
\* must be there; without one, a directory tree without the file means an empty
\* document.  An entry that cannot be read is an error, never skipped.
read_config_source ==
    [ok |-> entry = "file" \/ (entry = "missing" /\ ~env.explicit),
     text |-> IF entry = "file" THEN file ELSE <<>>]

\* build_serve_state: read, parse, build; anything refused leaves the running
\* gateway as it is.  Profiles are written into policy documents, the routing
\* itself among them.
Load ==
    /\ read_config_source.ok
    /\ \E routing \in {ReadRouting(read_config_source.text, env.threshold)},
          gateway \in {ReadGateway(read_config_source.text)} :
         /\ routing.ok
         /\ gateway.ok
         /\ Of(gateway.cfg, "profiles") # {} => PolicyProfile(routing.val)
         /\ \E generation \in {cache_generation(gateway.cfg)} :
              /\ build_serve_state(gateway.cfg, generation)
              /\ running' = [loaded |-> TRUE, routing |-> routing.val, cfg |-> gateway.cfg,
                             generation |-> generation.text,
                             scope |-> from_gateway_config(gateway.cfg).scope]
    /\ UNCHANGED <<file, entry, env, apply, edits, applies, applied>>

Next ==
    \/ \E i \in DOMAIN file : (\E t \in Offers(edits, file[i]) : Edit(i, t)) \/ RemoveBlock(i)
    \/ \E kind \in {"file", "missing", "unreadable"} : Replace(kind)
    \/ \E fragment \in Fragments : ApplyRead(fragment)
    \/ ApplyStage
    \/ ApplyRename
    \/ Load

Spec == Init /\ [][Next]_vars

----------------------------------------------------------------------------
(* Properties                                                               *)

\* The numbers of a configuration at six decimals.
Rounded(cfg) ==
    [p \in Tables |->
        [cfg[p] EXCEPT !.f = [x \in DOMAIN @ |->
            IF Kind(p) \notin Containers /\ Fields(Kind(p))[x].num
            THEN format_number(@[x]) ELSE @[x]]]]

\* Writing the configuration of the running gateway and reading it back gives
\* the same configuration, to six decimals, for every section, default and
\* reference (dump_gateway_toml and gateway_config_from_toml are inverse), and
\* a routing that was accepted in a profile is written canonically.
RoundTrip ==
    running.loaded =>
        \E again \in {gateway_config_from_toml(render_gateway_toml(running.cfg))} :
            again.ok /\ again.cfg = Rounded(running.cfg)

\* Every name in the running configuration resolves, a key reaches only models
\* its workspace has, a key of a restricted workspace is never unrestricted
\* (an empty scope means every model), and a canary can send its requests.
RunningIsClosed ==
    running.loaded =>
        LET cfg == running.cfg
            models == Configured(cfg, "models")
        IN /\ \A p \in Of(cfg, "routes") : cfg[p].refs # <<>> /\ ToSet(cfg[p].refs) \subseteq models
           /\ \A p \in DOMAIN running.scope :
                 /\ running.scope[p] \subseteq models
                 /\ cfg[p].f["workspace"] # "none" =>
                       LET w == cfg[<<"workspaces", cfg[p].f["workspace"]>>]
                       IN w.set /\ w.refs # <<>> =>
                             running.scope[p] # {} /\ running.scope[p] \subseteq ToSet(w.refs)
           /\ cfg[<<"canary">>].f["enabled"] = "true" =>
                 /\ cfg[<<"canary">>].f["candidate_route"] \in Configured(cfg, "routes")
                 /\ cfg[<<"state">>].f["url"] # "none"

\* What the gateway runs is a configuration whose names resolve and whose text
\* can be written and read back.
RunningIsSound == RunningIsClosed /\ RoundTrip

Rest(text) == SelectSeq(text, LAMBDA b : ~IsRouting(b))
Renamed == apply.pc = "rename" /\ file' = apply.text
PlainHeaders(text) == \A i \in DOMAIN text : ~text[i].noted

\* A routing as the environment alters it: its variable is the threshold unless
\* there are tiers.
InEnvironment(result, threshold) ==
    IF result.tiered \/ threshold = "absent" THEN result.want
    ELSE [result.want EXCEPT !.tiers = binary_tiers(threshold)]

\* What `config apply-routing` said it applied is what every later start or
\* reload runs until the file is edited again, whatever else happened between the
\* read and the rename, but for the threshold that the gateway's environment may
\* override.  And a file whose headers are plain lines loses nothing else that it
\* holds when it is replaced, unless it was edited since it was read.
AppliedRoutingRuns ==
    [][/\ applied # NoApply /\ running' # running =>
             running'.routing = InEnvironment(applied, env.threshold)
       /\ Renamed /\ PlainHeaders(apply.read) /\ edits = apply.since =>
             entry = "file" /\ Rest(file') = Rest(file)]_vars

\* "preserving every non-routing byte from the existing document" (the comment
\* on apply_supported_routing_fragment), whatever the headers look like, or
\* whenever the document was edited.
ApplyKeepsEverything == [][Renamed => Rest(file') = Rest(apply.read)]_vars
ApplyKeepsEdits == [][Renamed /\ PlainHeaders(apply.read) /\ PlainHeaders(file) => Rest(file') = Rest(file)]_vars

\* "routing edit did not take effect" is refused (apply_supported_routing_fragment):
\* what is applied runs, whatever the environment says.
AppliedThresholdRuns ==
    [][applied # NoApply /\ running' # running => running'.routing = applied.want]_vars
=============================================================================
