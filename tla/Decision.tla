------------------------------ MODULE Decision ------------------------------
(***************************************************************************)
(* The decision a chat request gets before any shared state is touched:    *)
(* what text is scored (gateway/src/decision_policy.rs), which model the   *)
(* body, a slash directive, a threshold header or the score selects, the   *)
(* hard eligibility of a destination, the key's clamp and the ordered      *)
(* delivery plan (the pure parts of chat_completions, gateway/src/lib.rs). *)
(*                                                                         *)
(* A world w is one gateway configuration; a request r is one HTTP call.   *)
(* A header is "absent", "bad" or its parsed value (-1 and -2 for numbers).*)
(* A message holds its role, its text, the token of a leading slash        *)
(* directive ("" without one) and how its content is shaped.               *)
(***************************************************************************)
EXTENDS Routing, Functions, TLC

MAX_LEXICON_TERMS == 2000

Absent == -1
Bad == -2

FirstOf(S) == CHOOSE i \in S : \A j \in S : i <= j
LastOf(S) == CHOOSE i \in S : \A j \in S : j <= i

\* The elements of s at the positions `at`, in their order.
ElementsAt(s, at) ==
  [k \in 1 .. Cardinality(at) |->
     s[CHOOSE i \in at : Cardinality({j \in at : j <= i}) = k]]

\* `map` with the entries of `more` added or replaced.
Overridden(map, more) ==
  [x \in DOMAIN map \cup DOMAIN more |-> IF x \in DOMAIN more THEN more[x] ELSE map[x]]

(***************************************************************************)
(* What is scored.                                                         *)
(***************************************************************************)

\* An unresolved slash directive is one more word of the message.
SlashLine == [kind |-> "text", depth |-> 0, words |-> 1, links |-> 0,
              tokens |-> <<>>, math |-> 0, questions |-> 0]

\* Content that is neither a string nor a list with text has no text.
message_text(m) ==
  IF m.content = "none" THEN <<>>
  ELSE (IF m.slash = "" THEN <<>> ELSE <<SlashLine>>) \o m.text

OfRole(messages, role) == {i \in 1 .. Len(messages) : messages[i].role = role}

extract_prompt(messages, routeOn) ==
  LET users == OfRole(messages, "user")
      lastUser == IF users = {} THEN {} ELSE {LastOf(users)}
      chosen == CASE routeOn = "all" -> 1 .. Len(messages)
                  [] routeOn = "user" -> users
                  [] routeOn = "last_user" -> lastUser
                  [] routeOn = "turn" -> OfRole(messages, "system")
      picked == [i \in 1 .. Len(messages) |->
                   IF i \in chosen THEN message_text(messages[i]) ELSE <<>>]
      turnUser == IF routeOn = "turn" /\ lastUser # {}
                  THEN message_text(messages[LastOf(users)]) ELSE <<>>
      nothing == chosen = {} /\ (routeOn # "turn" \/ lastUser = {})
  IN IF nothing /\ messages # <<>> /\ routeOn # "all"
     THEN message_text(messages[Len(messages)])
     ELSE FlattenSeq(picked) \o turnUser

\* Four characters to a token; a word stands for one token here.
estimate_tokens(text) ==
  LET words == Total(LAMBDA l : l.words, text)
  IN IF text = <<>> THEN 0 ELSE IF words = 0 THEN 1 ELSE words

(***************************************************************************)
(* Per-request overrides.                                                  *)
(***************************************************************************)

BadTuning(t) ==
  /\ t.given
  /\ \/ ~(DOMAIN t.weights \subseteq FeatureNames)
     \/ \E f \in DOMAIN t.weights : t.weights[f] < 0
     \/ \E l \in DOMAIN t.terms : Cardinality(t.terms[l]) > MAX_LEXICON_TERMS

\* Named weights are replaced, a given term list replaces the configured one.
apply_scoring_overrides(routing, t) ==
  IF ~t.given THEN routing
  ELSE [routing EXCEPT !.weights = Overridden(@, t.weights), !.lexicon = Overridden(@, t.terms)]

threshold_tiers(routing, threshold) ==
  <<[min_score |-> 0, model |-> routing.tiers[1].model],
    [min_score |-> threshold, model |-> routing.tiers[2].model]>>

BinaryTiers(routing) == ~HasClassifier(routing) /\ Len(routing.tiers) = 2

resolve_sticky(header, default) == IF header = "absent" THEN default ELSE header = "on"

resolve_sticky_cooldown(header, default) == IF header = Absent THEN default ELSE header

parse_privacy_posture(header, offline) ==
  IF offline THEN "on-device-only"
  ELSE IF header = "absent" THEN "hosted-allowed" ELSE header

(***************************************************************************)
(* Directives.  A directive resolves against the routing that is passed:   *)
(* the caller's profile for a slash, the default routing for the body.     *)
(***************************************************************************)

supports_tier_directives(routing) == ~HasClassifier(routing) /\ routing.tiers # <<>>

DirectiveModel(w, routing, token) ==
  CASE supports_tier_directives(routing) /\ token = "prefer-low" -> routing.tiers[1].model
    [] supports_tier_directives(routing) /\ token = "prefer-high" ->
         routing.tiers[Len(routing.tiers)].model
    [] OTHER -> IF token \in DOMAIN w.models THEN token ELSE ""

\* Only the last user message with string content is looked at, and only a
\* known token is consumed; "auto" is consumed and pins nothing.
resolve_slash_directive_for_names(w, routing, messages) ==
  LET strings == {i \in OfRole(messages, "user") : messages[i].content = "string"}
      at == LastOf(strings)
      token == messages[at].slash
      pin == DirectiveModel(w, routing, token)
  IN IF strings = {} THEN [found |-> FALSE, pin |-> "", messages |-> messages]
     ELSE IF token = "" \/ (token # "auto" /\ pin = "")
     THEN [found |-> FALSE, pin |-> "", messages |-> messages]
     ELSE [found |-> TRUE, pin |-> IF token = "auto" THEN "" ELSE pin,
           messages |-> [messages EXCEPT ![at].slash = ""]]

\* The model field: nothing, a preset (perhaps unknown) or one model.
resolve_request_selection(w, field) ==
  CASE field.kind = "preset" ->
         [kind |-> IF field.name \in DOMAIN w.routes THEN "preset" ELSE "unknown",
          name |-> field.name]
    [] field.kind = "model" /\ DirectiveModel(w, w.routing, field.name) # "" ->
         [kind |-> "model", name |-> DirectiveModel(w, w.routing, field.name)]
    [] OTHER -> [kind |-> "none", name |-> ""]

(***************************************************************************)
(* The sticky conversation floor.                                          *)
(***************************************************************************)

tier_rank(model, tiers) ==
  LET at == {i \in 1 .. Len(tiers) : tiers[i].model = model}
  IN IF at = {} THEN 1 ELSE FirstOf(at)

\* The rank of each user turn, scored with the system messages.
TurnRanks(messages, routing, tiers) ==
  LET systems == SelectSeq(messages, LAMBDA m : m.role = "system")
      users == SelectSeq(messages, LAMBDA m : m.role = "user")
      Rank(m) == tier_rank(
        recommend_tier(score_complexity(extract_prompt(Append(systems, m), "turn"),
                                        routing).score, tiers), tiers)
  IN [i \in 1 .. Len(users) |-> Rank(users[i])]

\* A mutant: no cooldown means no waiting.
BUG_Latch(state, rank, cooldown) ==
  IF rank >= state.latched \/ state.calm + 1 >= cooldown THEN [latched |-> rank, calm |-> 0]
  ELSE [state EXCEPT !.calm = @ + 1]

\* One turn of the latch: a rank at or above it is taken at once, a lower
\* one only after `cooldown` calm turns in a row, and never when it is 0.
Latch(state, rank, cooldown) ==
  IF rank >= state.latched THEN [latched |-> rank, calm |-> 0]
  ELSE IF cooldown # 0 /\ state.calm + 1 >= cooldown THEN [latched |-> rank, calm |-> 0]
  ELSE [state EXCEPT !.calm = @ + 1]

conversation_high_water(messages, routing, tiers, cooldown) ==
  FoldLeft(LAMBDA state, rank : Latch(state, rank, cooldown),
           [latched |-> 1, calm |-> 0],
           TurnRanks(messages, routing, tiers)).latched

(***************************************************************************)
(* Destinations.                                                           *)
(***************************************************************************)

\* Only a loopback OpenAI-compatible endpoint or the local Apple model is
\* known to stay on the device.
model_is_proven_local(m) ==
  \/ m.provider = "apple" /\ m.tier = "local"
  \/ m.provider = "openai-compatible" /\ m.endpoint = "loopback"

model_execution_boundary(m) ==
  IF model_is_proven_local(m) THEN "on-device"
  ELSE IF m.provider = "openai-compatible" /\ m.endpoint = "private"
  THEN "local-network" ELSE "hosted"

\* No adapter takes images; only the HTTP adapters take tools.  Every one
\* of them serves text, streams, and may be chosen automatically.
destination_snapshot(m) ==
  [boundary |-> model_execution_boundary(m), ready |-> m.ready, window |-> m.window,
   image |-> FALSE, tools |-> m.provider \in {"openai-compatible", "anthropic"}]

\* An unknown context window never excludes a configured model.
assess_model(request, m) ==
  assess_destination(request, destination_snapshot(m)) \ {"context-window-unknown"}

precheck_ok(estimate, window) == window = 0 \/ estimate <= window

CanTake(request, offline, estimate, target) ==
  /\ assess_model(request, target) = {}
  /\ offline => model_is_proven_local(target)
  /\ precheck_ok(estimate, target.window)

\* A pool's members, or the model itself when it has no pool.
configured_deployment_targets(m) == IF Len(m.deployments) > 1 THEN ToSet(m.deployments) ELSE {m}

has_eligible_deployment_target(m, request, offline, estimate) ==
  \E target \in configured_deployment_targets(m) : CanTake(request, offline, estimate, target)

\* A destination the request may be sent to, whatever selected it.
Acceptable(w, name, d) ==
  /\ name \in DOMAIN w.models
  /\ CanTake(d.request, d.offline, d.estimate, w.models[name])
  /\ has_eligible_deployment_target(w.models[name], d.request, d.offline, d.estimate)
  /\ d.allowed = <<>> \/ name \in ToSet(d.allowed)

(***************************************************************************)
(* Selection.                                                              *)
(***************************************************************************)

request_requirements(r, messages, estimate, posture) ==
  [posture |-> posture, tools |-> r.tools, image |-> r.image,
   context |-> IF r.output > 0 THEN estimate + r.output ELSE 0]

\* The routing of the policy profile bound to the key, or the default one.
BaseRouting(w, grant) == IF grant \in DOMAIN w.profiles THEN w.profiles[grant] ELSE w.routing

\* Everything the handler works out before it selects.
Facts(w, r, grant, allowed) ==
  LET routing == apply_scoring_overrides(BaseRouting(w, grant), r.tuning)
      slash == IF w.slash
               THEN resolve_slash_directive_for_names(w, routing, r.messages)
               ELSE [found |-> FALSE, pin |-> "", messages |-> r.messages]
      routeOn == IF r.routeOn = "absent" THEN w.routeOn ELSE r.routeOn
      offline == w.offline \/ r.offline
      estimate == estimate_tokens(extract_prompt(slash.messages, "all"))
      posture == parse_privacy_posture(r.posture, offline)
  IN [routing |-> routing, messages |-> slash.messages, slashPin |-> slash.pin,
      offline |-> offline, posture |-> posture, estimate |-> estimate,
      request |-> request_requirements(r, slash.messages, estimate, posture),
      scored |-> score_complexity(extract_prompt(slash.messages, routeOn), routing),
      selection |-> resolve_request_selection(w, r.model),
      allowed |-> allowed]

BadOverride(w, r) ==
  \/ BadTuning(r.tuning)
  \/ r.routeOn = "bad" \/ r.sticky = "bad" \/ r.cooldown = Bad
  \/ r.posture = "bad" /\ ~(w.offline \/ r.offline)

\* The threshold header is read only when nothing pins the request.
BadThreshold(r, d) ==
  /\ d.selection.kind = "none" /\ d.slashPin = ""
  /\ r.threshold = Bad \/ (r.threshold # Absent /\ ~BinaryTiers(d.routing))

\* The score, raised to the conversation's floor when it is sticky.
ScoredChoice(w, r, d) ==
  LET override == r.threshold # Absent
      tiers == IF override THEN threshold_tiers(d.routing, r.threshold) ELSE d.routing.tiers
      model == IF override THEN recommend_tier(d.scored.score, tiers)
               ELSE d.scored.recommendation
      sticky == resolve_sticky(r.sticky, w.sticky) /\ ~HasClassifier(d.routing)
                /\ Len(tiers) >= 2 /\ OfRole(d.messages, "user") # {}
      floor == conversation_high_water(d.messages, d.routing, tiers,
                 resolve_sticky_cooldown(r.cooldown, w.cooldown))
  IN IF sticky /\ floor > tier_rank(model, tiers)
     THEN [model |-> tiers[floor].model, mode |-> "sticky"]
     ELSE [model |-> model, mode |-> IF override THEN "threshold-override" ELSE "scored"]

\* A preset keeps the models the key and the request leave it.
PresetModels(w, d) ==
  LET route == w.routes[d.selection.name]
  IN ElementsAt(route, {i \in 1 .. Len(route) :
       /\ d.allowed = <<>> \/ route[i] \in ToSet(d.allowed)
       /\ w.dryRun \/ (route[i] \in DOMAIN w.models
                       /\ assess_model(d.request, w.models[route[i]]) = {})})

FirstOfPreset(models) ==
  [model |-> IF models = <<>> THEN "" ELSE models[1], mode |-> "preset", preset |-> models]

Chosen(w, r, d) ==
  CASE d.selection.kind = "preset" -> FirstOfPreset(PresetModels(w, d))
    [] d.selection.kind = "model" ->
         [model |-> d.selection.name, mode |-> "pinned", preset |-> <<>>]
    [] d.selection.kind = "none" /\ d.slashPin # "" ->
         [model |-> d.slashPin, mode |-> "slash-pinned", preset |-> <<>>]
    [] OTHER -> LET c == ScoredChoice(w, r, d)
                IN [model |-> c.model, mode |-> c.mode, preset |-> <<>>]

Pinned(mode) == mode \in {"pinned", "slash-pinned"}

destination_ineligible_response(offline, exclusions) ==
  IF offline /\ exclusions = {"privacy-boundary-denied"}
  THEN "offline_unavailable" ELSE "destination_ineligible"

\* The first refusal of the selection stage, "" when there is none.
SelectionRefusal(w, r, d, c) ==
  LET exclusions == IF c.model \in DOMAIN w.models
                    THEN assess_model(d.request, w.models[c.model]) ELSE {}
  IN IF c.mode = "preset" /\ c.preset = <<>> THEN "destination_ineligible"
     ELSE IF ~w.dryRun /\ Pinned(c.mode) /\ exclusions # {}
     THEN destination_ineligible_response(d.offline, exclusions)
     ELSE ""

Checked(w, r, d, c) == [choice |-> c, refusal |-> SelectionRefusal(w, r, d, c)]
Refused(reason) ==
  [choice |-> [model |-> "", mode |-> "", preset |-> <<>>], refusal |-> reason]

\* The choice, or why there is none.
Selected(w, r, d) ==
  IF d.selection.kind = "unknown" THEN Refused("unknown_route")
  ELSE IF BadThreshold(r, d) THEN Refused("bad_override")
  ELSE Checked(w, r, d, Chosen(w, r, d))

(***************************************************************************)
(* Corrections to the choice, and the plan.                                *)
(***************************************************************************)

\* The tier with the smallest threshold; "" when a classifier routes.
Cheapest(tiers) == IF tiers = <<>> THEN "" ELSE tiers[1].model

\* An exhausted soft budget sends the request to the cheapest tier.
Degraded(c, d) ==
  IF d.offline \/ Cheapest(d.scored.tiers) \in {"", c.model} THEN c
  ELSE [model |-> Cheapest(d.scored.tiers), mode |-> "budget-degraded", preset |-> <<>>]

\* The nearest allowed tier at or below the choice, else the lowest allowed
\* tier, else the first allowed name in the order of `names`.
clamp_to_allowed(chosen, ladder, allowed, names) ==
  LET inside == {i \in 1 .. Len(ladder) : ladder[i] \in ToSet(allowed)}
      at == {i \in 1 .. Len(ladder) : ladder[i] = chosen}
      below == {i \in inside : at # {} /\ i <= FirstOf(at)}
  IN IF allowed = <<>> \/ chosen \in ToSet(allowed) THEN chosen
     ELSE IF inside = {} THEN names[FirstOf({i \in 1 .. Len(names) : names[i] \in ToSet(allowed)})]
     ELSE IF below # {} THEN ladder[LastOf(below)]
     ELSE ladder[FirstOf(inside)]

Ladder(d) == [i \in 1 .. Len(d.scored.tiers) |-> d.scored.tiers[i].model]

Clamped(c, d, names) ==
  LET model == clamp_to_allowed(c.model, Ladder(d), d.allowed, names)
  IN IF model = c.model THEN c ELSE [c EXCEPT !.model = model, !.mode = "key-scoped"]

\* Offline, anything not asked for by name goes to the lowest tier.
DeliveryName(c, d) ==
  IF d.offline /\ ~Pinned(c.mode) /\ c.preset = <<>> /\ Cheapest(d.scored.tiers) # ""
  THEN Cheapest(d.scored.tiers) ELSE c.model

failover_candidates(chosen, ladder, policy) ==
  LET at == {i \in 1 .. Len(ladder) : ladder[i] = chosen}
  IN IF at = {} \/ policy = "same-tier" THEN <<>>
     ELSE IF policy = "degrade" THEN Reverse(SubSeq(ladder, 1, FirstOf(at) - 1))
     ELSE SubSeq(ladder, FirstOf(at) + 1, Len(ladder))

Candidates(w, r, c, d) ==
  LET name == DeliveryName(c, d)
      failover == IF r.failover = "absent" THEN w.failover ELSE r.failover
  IN IF Pinned(c.mode) THEN <<>>
     ELSE IF c.preset # <<>>
     THEN ElementsAt(c.preset, {i \in 1 .. Len(c.preset) : c.preset[i] # name})
     ELSE w.models[name].fallbacks
          \o (IF ~d.offline \/ Ladder(d) = <<>>
              THEN failover_candidates(c.model, Ladder(d), failover) ELSE <<>>)

\* Each candidate once, in order, when its circuit lets it through and the
\* request may go there.
delivery_plan(w, r, c, d, open) ==
  LET names == <<DeliveryName(c, d)>> \o Candidates(w, r, c, d)
  IN ElementsAt(names, {i \in 1 .. Len(names) :
       /\ \A j \in 1 .. i - 1 : names[j] # names[i]
       /\ names[i] \notin open /\ Acceptable(w, names[i], d)})

\* What the handler answers when the plan is empty.
EmptyPlanRefusal(w, c, d) ==
  LET m == w.models[c.model]
  IN IF c.model \notin DOMAIN w.models THEN "circuit_open"
     ELSE IF assess_model(d.request, m) # {}
     THEN destination_ineligible_response(d.offline, assess_model(d.request, m))
     ELSE IF ~has_eligible_deployment_target(m, d.request, d.offline, d.estimate)
     THEN "destination_ineligible" ELSE "circuit_open"
=============================================================================
