--------------------------- MODULE GatewayConfig ---------------------------
(***************************************************************************)
(* The gateway configuration: wayfinder-config/src/gateway.rs reads the     *)
(* [gateway] tables of wayfinder-router.toml, validates them, and writes    *)
(* them back as canonical text; wayfinder-gateway turns what was read into  *)
(* an access policy, a cache generation and a canary, or refuses to.        *)
(*                                                                          *)
(* A document is a function from the path of a table to the table: whether  *)
(* it is there ("bad" is a value that is not a table), its scalar fields    *)
(* and its one list of names.  A scalar is a class of values: "absent",     *)
(* "bad" (of the wrong type or not an allowed word), "" (the empty string), *)
(* a word, or a number: "0", "tiny" (positive, zero at six decimals),       *)
(* "half", "7", "over" (above every maximum) and "dflt" (the default).      *)
(* Which message an invalid document gets is left out; only that it is      *)
(* refused matters, so the checks are a conjunction.                        *)
(***************************************************************************)
EXTENDS Integers, Sequences, FiniteSets, SequencesExt, TLC

CONSTANTS Tables,       \* the paths a document may have: sequences of strings
          MaxDeployments, MaxRouteModels,  \* stand for 32 and 32
          MaxTiers      \* bound: tiers in a routing section

\* The function f; TLC computes all of it at once instead of at each use.
Whole(f) == f @@ <<>>

----------------------------------------------------------------------------
(* Fields: a default, the classes accepted, whether an unusable value is    *)
(* taken for the default, and whether the value is written by format_number *)

Field(d, ok) == [dflt |-> d, ok |-> ok, lenient |-> FALSE, num |-> FALSE]
Number(d, ok) == [dflt |-> d, ok |-> ok \cup {d}, lenient |-> FALSE, num |-> TRUE]
optional_bool == Field("false", {"true", "false"})
optional_allowed_string(d, allowed) == Field(d, allowed)
optional_non_negative_integer(d) == Field(d, {"0", "7", "over", d})
optional_positive_integer(d) == Field(d, {"7", "over", d})
positive_integer == Field("none", {"7", "over"})
optional_non_negative_number(d) == Number(d, {"0", "tiny", "half", "7", "over"})
optional_positive_number(d) == Number(d, {"tiny", "half", "7", "over"})
optional_non_negative_finite_number ==
    [Number("none", {"0", "tiny", "half", "7", "over"}) EXCEPT !.ok = @ \ {"none"}]
required_positive_number ==
    [Number("missing", {"tiny", "half", "7", "over"}) EXCEPT !.ok = @ \ {"missing"}]
required_non_empty_string == Field("missing", {"name", "system-default"})
optional_non_empty_string == Field("none", {"name"})
\* A name with a default; "ugly" is one that holds a control character.
named(d) == Field(d, {"name", "ugly", d})
valid_policy_id(v) == v \notin {"", "ugly"}

GatewayFields ==
    "route_on" :> optional_allowed_string("turn", {"turn", "last_user", "user", "all"}) @@
    "sticky" :> optional_bool @@
    "sticky_cooldown" :> optional_non_negative_integer("0") @@
    "slash_directives" :> optional_bool @@
    "offline" :> optional_bool @@
    "retries" :> optional_non_negative_integer("dflt") @@
    "breaker_threshold" :> optional_positive_integer("dflt") @@
    "breaker_cooldown" :> optional_non_negative_number("dflt") @@
    "failover" :> optional_allowed_string("same-tier", {"same-tier", "degrade", "escalate"})

BudgetFields ==
    "limit" :> required_positive_number @@
    "window" :> optional_allowed_string("day", {"day", "month", "all"}) @@
    "on_breach" :> optional_allowed_string("degrade", {"degrade", "block"})

CacheFields ==
    "backend" :> optional_allowed_string("memory", {"memory", "redis"}) @@
    "enabled" :> optional_bool @@
    "ttl" :> optional_non_negative_number("dflt") @@
    "max_entries" :> optional_positive_integer("dflt") @@
    "max_bytes" :> optional_positive_integer("dflt")

RateLimitFields ==
    "rpm" :> positive_integer @@
    "tpm" :> positive_integer @@
    "window" :> optional_positive_number("dflt")

ConcurrencyFields ==
    "max_in_flight" :> optional_positive_integer("dflt") @@
    "max_queued" :> optional_non_negative_integer("dflt") @@
    "queue_timeout" :> optional_positive_number("dflt")

StateFields ==
    "backend" :> optional_allowed_string("memory", {"memory", "redis"}) @@
    "url" :> optional_non_empty_string @@
    "namespace" :> named("wayfinder")

AuthFields ==
    "mode" :> optional_allowed_string("vkeys", {"vkeys", "oidc", "both"}) @@
    "issuer" :> optional_non_empty_string @@
    "audience" :> optional_non_empty_string @@
    "jwks_url" :> optional_non_empty_string @@
    "admin_claim" :> named("admin")

ShadowFields ==
    "enabled" :> optional_bool @@
    "sample_rate" :> optional_non_negative_number("0") @@
    "max_in_flight" :> optional_positive_integer("dflt") @@
    "max_records" :> optional_positive_integer("dflt") @@
    "provider_comparisons" :> optional_bool @@
    "provider_sample_rate" :> optional_non_negative_number("0") @@
    "provider_max_requests" :> optional_non_negative_integer("0") @@
    "provider_window" :> optional_positive_number("dflt")

\* rollout_id and candidate_route of another type than a string count as absent.
CanaryFields ==
    "enabled" :> optional_bool @@
    "rollout_id" :> [named("default") EXCEPT !.lenient = TRUE, !.ok = @ \cup {""}] @@
    "candidate_route" :> [Field("", {"r1", "ghost", ""}) EXCEPT !.lenient = TRUE] @@
    "fraction" :> optional_non_negative_number("0") @@
    "scope" :> optional_allowed_string("request", {"request", "workspace", "key", "cohort"}) @@
    "cohort" :> optional_non_empty_string @@
    "max_requests" :> optional_positive_integer("dflt") @@
    "window" :> optional_positive_number("dflt") @@
    "min_samples" :> optional_positive_integer("dflt") @@
    "max_error_rate" :> optional_non_negative_number("dflt") @@
    "max_latency_ms" :> optional_positive_number("dflt") @@
    "max_cost_multiplier" :> optional_positive_number("dflt") @@
    "max_quality_loss" :> optional_non_negative_number("dflt") @@
    "rollback_hold" :> optional_positive_number("dflt")

\* "id" stands for the name of the entry, which is part of the path in TOML.
WorkspaceFields ==
    "id" :> named("own") @@ "profile" :> Field("none", {"p1", "ghost"})
ProfileFields ==
    "id" :> [named("own") EXCEPT !.ok = @ \cup {"default"}] @@
    "routing_toml" :> Field("missing", {"routing", "zero", "big", "broken"}) @@
    "unknown" :> Field("none", {})
KeyFields ==
    "id" :> Field("own", {"own", "name", "ugly"}) @@
    "hash" :> Field("missing", {"hex", "HEX"}) @@
    "tags" :> optional_non_empty_string @@
    "workspace" :> Field("none", {"w1", "ghost"})
RouteFields == "id" :> named("own")

ModelFields ==
    "provider" :> optional_allowed_string("openai-compatible",
        {"openai-compatible", "anthropic", "apple-foundation-models", "codex-app-server"}) @@
    "tier" :> Field("none", {"local"}) @@
    "base_url" :> optional_non_empty_string @@
    "model" :> required_non_empty_string @@
    "api_key_env" :> optional_non_empty_string @@
    "api_key_cmd" :> optional_non_empty_string @@
    "cost_per_1k" :> optional_non_negative_finite_number @@
    "context_window" :> positive_integer

DeploymentFields ==
    "id" :> Field("missing", {"d1", "d2", "default", "ugly"}) @@
    "base_url" :> required_non_empty_string @@
    "model" :> required_non_empty_string @@
    "api_key_env" :> optional_non_empty_string @@
    "weight" :> optional_positive_integer("dflt") @@
    "cost_per_1k" :> optional_non_negative_finite_number

SelectionFields ==
    "strategy" :> optional_allowed_string("weighted",
        {"weighted", "latency", "throughput", "availability", "cost", "capacity"}) @@
    "max_cost_per_1k" :> optional_non_negative_finite_number @@
    "observation_ttl" :> optional_positive_number("dflt")

----------------------------------------------------------------------------
(* Reading one table                                                        *)

\* What kind of table is at a path.
Kind(p) ==
    CASE Len(p) = 1 -> p[1]
      [] Len(p) = 2 -> "one of " \o p[1]
      [] Len(p) = 3 -> p[3]
      [] OTHER -> "deployment"
Containers == {"workspaces", "profiles", "keys", "models", "routes", "deployments"}
Entries == {"one of " \o c : c \in Containers}

Schema ==
    "gateway" :> GatewayFields @@ "budget" :> BudgetFields @@ "cache" :> CacheFields @@
    "rate_limit" :> RateLimitFields @@ "concurrency" :> ConcurrencyFields @@
    "state" :> StateFields @@ "auth" :> AuthFields @@ "shadow" :> ShadowFields @@
    "canary" :> CanaryFields @@ "one of workspaces" :> WorkspaceFields @@
    "one of profiles" :> ProfileFields @@ "one of keys" :> KeyFields @@
    "one of routes" :> RouteFields @@ "one of models" :> ModelFields @@
    "deployment" :> DeploymentFields @@ "deployment_selection" :> SelectionFields
Fields(kind) == IF kind \in Containers THEN [x \in {} |-> Field("none", {})] ELSE Schema[kind]

\* Some tables are optional in the parsed value; the others have a default.
Optional(kind) == kind \in {"budget", "cache", "rate_limit", "deployment"} \cup Entries

Blank(kind) == [x \in DOMAIN Fields(kind) |-> "absent"]
Nothing(kind) == [at |-> "absent", f |-> Blank(kind), refs |-> <<>>]

Readable(field, raw) ==
    \/ raw \in field.ok
    \/ raw = "absent" /\ field.dflt # "missing"
    \/ field.lenient

\* Digests are lowered.
Lowered(raw) == IF raw = "HEX" THEN "hex" ELSE raw
Read(field, raw) == IF raw \in field.ok THEN Lowered(raw) ELSE field.dflt

ReadAll(t, fields) ==
    Whole([x \in DOMAIN fields |->
              IF t.at = "table" THEN Read(fields[x], t.f[x]) ELSE fields[x].dflt])
Values(t, kind) == ReadAll(t, Fields(kind))

\* optional_non_empty_string_list: a list of non-empty strings.
optional_non_empty_string_list(refs) == \A i \in DOMAIN refs : refs[i] # ""

\* The outcome of parsing table t with these fields and values: whether it is
\* accepted and its value.
Outcome(t, fields, optional, v, Checks(_)) ==
    [ok |-> \/ t.at = "absent"
            \/ /\ t.at = "table"
               /\ \A x \in DOMAIN fields : Readable(fields[x], t.f[x])
               /\ optional_non_empty_string_list(t.refs)
               /\ Checks(v),
     val |-> [set |-> optional /\ t.at = "table", f |-> v,
              refs |-> IF t.at = "table" THEN t.refs ELSE <<>>]]
OfFields(t, fields, optional, Checks(_)) ==
    Outcome(t, fields, optional, ReadAll(t, fields), Checks)
Parsed(t, kind, Checks(_)) == OfFields(t, Fields(kind), Optional(kind), Checks)
Unchecked(v) == TRUE

\* The names of the entries of a container in a document.
Names(doc, c) == {p[2] : p \in {q \in Tables : Len(q) = 2 /\ q[1] = c /\ doc[q].at # "absent"}}

parse_budget(t) == Parsed(t, "budget", Unchecked)
parse_cache(t) == Parsed(t, "cache", Unchecked)
parse_rate_limit(t) ==
    Parsed(t, "rate_limit", LAMBDA v : v["rpm"] # "none" \/ v["tpm"] # "none")
parse_concurrency(t) == Parsed(t, "concurrency", Unchecked)

parse_state(t) ==
    Parsed(t, "state", LAMBDA v :
        /\ valid_policy_id(v["namespace"])
        /\ (v["backend"] = "redis") = (v["url"] # "none"))

parse_auth(t) ==
    Parsed(t, "auth", LAMBDA v :
        /\ valid_policy_id(v["admin_claim"])
        /\ v["mode"] \in {"oidc", "both"} =>
              "none" \notin {v["issuer"], v["audience"], v["jwks_url"]})

parse_workspaces(t) ==
    Parsed(t, "one of workspaces", LAMBDA v : valid_policy_id(v["id"]))

parse_profiles(t) ==
    Parsed(t, "one of profiles", LAMBDA v :
        /\ valid_policy_id(v["id"])
        /\ v["id"] # "default"
        /\ t.f["unknown"] = "absent"
        /\ v["routing_toml"] \notin {"big", "broken"})

parse_keys(t) == Parsed(t, "one of keys", Unchecked)

parse_routes(t) ==
    Parsed(t, "one of routes", LAMBDA v :
        /\ valid_policy_id(v["id"])
        /\ Len(t.refs) \in 1..MaxRouteModels
        /\ IsInjective(t.refs))

AboveOne == {"7", "over"}

parse_shadow(t, routes) ==
    Parsed(t, "shadow", LAMBDA v :
        /\ v["sample_rate"] \notin AboveOne
        /\ v["provider_sample_rate"] \notin AboveOne
        /\ v["provider_window"] # "over"
        /\ Len(t.refs) <= MaxRouteModels
        /\ IsInjective(t.refs)
        /\ ToSet(t.refs) \subseteq routes
        /\ v["enabled"] = "true" => t.refs # <<>>
        /\ v["provider_comparisons"] = "true" =>
              v["provider_sample_rate"] # "0" /\ v["provider_max_requests"] # "0")

parse_canary(t, routes) ==
    Parsed(t, "canary", LAMBDA v :
        /\ v["fraction"] \notin AboveOne
        /\ valid_policy_id(v["rollout_id"])
        /\ v["candidate_route"] # "" => v["candidate_route"] \in routes
        /\ v["enabled"] = "true" => v["candidate_route"] # ""
        /\ v["scope"] = "cohort" => v["cohort"] # "none"
        /\ v["window"] # "over"
        /\ {v["max_error_rate"], v["max_quality_loss"]} \cap AboveOne = {})

\* What each provider kind requires and refuses.
ProviderRules(v) ==
    CASE v["provider"] = "openai-compatible" -> v["base_url"] # "none" /\ v["tier"] = "none"
      [] v["provider"] = "anthropic" ->
            v["base_url"] # "none" /\ v["api_key_env"] # "none" /\ v["tier"] = "none"
      [] v["provider"] = "apple-foundation-models" ->
            /\ {v["base_url"], v["api_key_env"], v["api_key_cmd"]} = {"none"}
            /\ v["model"] = "system-default"
            /\ v["tier"] = "local"
      [] v["provider"] = "codex-app-server" ->
            {v["base_url"], v["api_key_env"], v["api_key_cmd"], v["tier"]} = {"none"}

parse_models(t) ==
    Parsed(t, "one of models", LAMBDA v :
        /\ v["api_key_cmd"] # "none" => v["api_key_env"] # "none"
        /\ ProviderRules(v))

\* The deployments of a model: only for the default provider, bounded, with
\* distinct identifiers.  others: the tables of the array before this one.
parse_deployments(t, provider, others) ==
    Parsed(t, "deployment", LAMBDA v :
        /\ provider = "openai-compatible"
        /\ Cardinality(others) < MaxDeployments
        /\ v["id"] # "default" /\ valid_policy_id(v["id"])
        /\ \A o \in others : o.f["id"] # v["id"]
        /\ v["weight"] # "over")

parse_deployment_selection(t, provider) ==
    Parsed(t, "deployment_selection", LAMBDA v :
        /\ provider = "openai-compatible"
        /\ v["observation_ttl"] # "over")

----------------------------------------------------------------------------
(* Reading a document                                                       *)

\* A table below one that is absent is not there; an entry below a value that
\* is not a table disappears with it.
Visible(doc) ==
    [p \in Tables |->
        IF /\ p # <<"gateway">> => doc[<<"gateway">>].at = "table"
           /\ \A n \in 1..(Len(p) - 1) : doc[SubSeq(p, 1, n)].at = "table"
        THEN doc[p] ELSE Nothing(Kind(p))]

Provider(doc, p) == Values(doc[<<p[1], p[2]>>], "one of models")["provider"]
EarlierDeployments(doc, p) ==
    {doc[q] : q \in {r \in Tables : Len(r) = 4 /\ Front(r) = Front(p)
                                    /\ r[4] < p[4] /\ doc[r].at = "table"}}

\* A container must be a table, or an array for deployments, which only the
\* default provider may have.  Python's falsy values stand for no models.
parse_container(doc, p) ==
    [ok |-> CASE Kind(p) = "deployments" ->
                    \/ doc[p].at = "absent"
                    \/ doc[p].at = "table" /\ Provider(doc, p) = "openai-compatible"
              [] Kind(p) = "models" -> doc[p].at # "bad"
              [] OTHER -> doc[p].at \in {"absent", "table"},
     val |-> [set |-> FALSE, f |-> <<>>, refs |-> <<>>]]

parse_table(doc, p) ==
    LET t == doc[p]
        kind == Kind(p)
        routes == Names(doc, "routes")
    IN CASE kind = "gateway" -> Parsed(t, "gateway", Unchecked)
         [] kind = "budget" -> parse_budget(t)
         [] kind = "cache" -> parse_cache(t)
         [] kind = "rate_limit" -> parse_rate_limit(t)
         [] kind = "concurrency" -> parse_concurrency(t)
         [] kind = "state" -> parse_state(t)
         [] kind = "auth" -> parse_auth(t)
         [] kind = "shadow" -> parse_shadow(t, routes)
         [] kind = "canary" -> parse_canary(t, routes)
         [] kind = "one of workspaces" -> parse_workspaces(t)
         [] kind = "one of profiles" -> parse_profiles(t)
         [] kind = "one of keys" -> parse_keys(t)
         [] kind = "one of routes" -> parse_routes(t)
         [] kind = "one of models" -> parse_models(t)
         [] kind = "deployment" ->
               parse_deployments(t, Provider(doc, p), EarlierDeployments(doc, p))
         [] kind = "deployment_selection" ->
               parse_deployment_selection(t, Provider(doc, p))
         [] OTHER -> parse_container(doc, p)

\* A configuration: the value of every table.
Of(cfg, c) == {p \in Tables : Len(p) = 2 /\ p[1] = c /\ cfg[p].set}
Configured(cfg, c) == {p[2] : p \in Of(cfg, c)}

validate_model_fallbacks(cfg) ==
    \A p \in Of(cfg, "models") :
        ToSet(cfg[p].refs) \subseteq Configured(cfg, "models") \ {p[2]}
validate_workspace_models(cfg) ==
    \A p \in Of(cfg, "workspaces") : ToSet(cfg[p].refs) \subseteq Configured(cfg, "models")
validate_workspace_profiles(cfg) ==
    \A p \in Of(cfg, "workspaces") :
        cfg[p].f["profile"] # "none" => cfg[p].f["profile"] \in Configured(cfg, "profiles")
validate_route_presets(cfg) ==
    \A p \in Of(cfg, "routes") : ToSet(cfg[p].refs) \subseteq Configured(cfg, "models")

\* A key may narrow the models of its workspace but not add to them.
validate_keys(cfg) ==
    \A p \in Of(cfg, "keys") :
        LET w == <<"workspaces", cfg[p].f["workspace"]>>
            policy == IF cfg[p].f["workspace"] = "none" THEN <<>> ELSE cfg[w].refs
        IN /\ cfg[p].f["workspace"] # "none" => w \in Of(cfg, "workspaces")
           /\ ToSet(cfg[p].refs) \subseteq Configured(cfg, "models")
           /\ policy # <<>> => ToSet(cfg[p].refs) \subseteq ToSet(policy)

\* The tables are read one by one, then what they say of each other is checked.
CrossChecked(parsed, cfg) ==
    [ok |-> /\ \A p \in Tables : parsed[p].ok
            /\ cfg[<<"cache">>].f["backend"] = "redis" =>
                  cfg[<<"state">>].f["backend"] = "redis"
            /\ validate_model_fallbacks(cfg)
            /\ validate_workspace_models(cfg)
            /\ validate_workspace_profiles(cfg)
            /\ validate_route_presets(cfg)
            /\ validate_keys(cfg),
     cfg |-> cfg]
Assembled(parsed) == CrossChecked(parsed, Whole([p \in Tables |-> parsed[p].val]))
ParseTables(doc) == Assembled(Whole([p \in Tables |-> parse_table(doc, p)]))
gateway_config_from_toml(document) == ParseTables(Whole(Visible(document)))

----------------------------------------------------------------------------
(* Writing a configuration                                                  *)

\* format_number keeps six decimals.
format_number(v) == IF v = "tiny" THEN "0" ELSE v

\* A scalar is left out when it has its default, unless it is always written.
Written(val, fields, always) ==
    LET Text(x) == IF fields[x].num THEN format_number(val.f[x]) ELSE val.f[x]
    IN Whole([x \in DOMAIN fields |->
                 IF val.f[x] = "none" \/ (val.f[x] = fields[x].dflt /\ x \notin always)
                 THEN "absent" ELSE Text(x)])

DefaultOf(fields) ==
    [set |-> FALSE, f |-> [x \in DOMAIN fields |-> fields[x].dflt], refs |-> <<>>]
Default(kind) == DefaultOf(Fields(kind))

\* The block of a table: none for an optional table that is not set and for
\* one that has its default.
BlockOf(val, fields, optional, always) ==
    IF IF optional THEN val.set ELSE val # DefaultOf(fields)
    THEN [at |-> "table", f |-> Written(val, fields, always), refs |-> val.refs]
    ELSE [at |-> "absent", f |-> [x \in DOMAIN fields |-> "absent"], refs |-> <<>>]
Block(val, kind, always) == BlockOf(val, Fields(kind), Optional(kind), always)

render_budget(val) == Block(val, "budget", {"limit"})
render_cache(val) == Block(val, "cache", {"enabled"})
render_rate_limit(val) == Block(val, "rate_limit", {})
render_concurrency(val) == Block(val, "concurrency", {})
render_state(val) == Block(val, "state", {})
render_auth(val) == Block(val, "auth", {})
render_shadow(val) == Block(val, "shadow", {})
render_canary(val) == Block(val, "canary", {})
render_workspaces(val) == Block(val, "one of workspaces", {})
\* The routing of a profile is written by dump_routing_toml; that of the
\* threshold 0.0 ("zero") has two tiers at 0.0, which is not read again.
render_profiles(val) ==
    LET block == Block(val, "one of profiles", {"routing_toml"})
    IN [block EXCEPT !.f["routing_toml"] = IF @ = "zero" THEN "broken" ELSE @]
render_keys(val) == Block(val, "one of keys", {"hash"})
render_models(val) == Block(val, "one of models", {"model"})
render_routes(val) == Block(val, "one of routes", {})
render_deployments(val) == Block(val, "deployment", {"id", "base_url", "model"})
render_deployment_selection(val) == Block(val, "deployment_selection", {"strategy"})

render_table(cfg, p) ==
    LET val == cfg[p]
        kind == Kind(p)
    IN CASE kind = "gateway" -> Block(val, "gateway", {})
         [] kind = "budget" -> render_budget(val)
         [] kind = "cache" -> render_cache(val)
         [] kind = "rate_limit" -> render_rate_limit(val)
         [] kind = "concurrency" -> render_concurrency(val)
         [] kind = "state" -> render_state(val)
         [] kind = "auth" -> render_auth(val)
         [] kind = "shadow" -> render_shadow(val)
         [] kind = "canary" -> render_canary(val)
         [] kind = "one of workspaces" -> render_workspaces(val)
         [] kind = "one of profiles" -> render_profiles(val)
         [] kind = "one of keys" -> render_keys(val)
         [] kind = "one of models" -> render_models(val)
         [] kind = "one of routes" -> render_routes(val)
         [] kind = "deployment" -> render_deployments(val)
         [] kind = "deployment_selection" -> render_deployment_selection(val)
         [] OTHER -> Nothing(kind)

\* A header [gateway.models.m] makes the tables above it exist.
WithParents(block) ==
    LET Implied(p) == \E q \in Tables : /\ block[q].at = "table"
                                        /\ p = <<"gateway">> \/ IsStrictPrefix(p, q)
    IN Whole([p \in Tables |-> [block[p] EXCEPT !.at = IF Implied(p) THEN "table" ELSE @]])
render_gateway_toml(cfg) == WithParents(Whole([p \in Tables |-> render_table(cfg, p)]))

\* The text is parsed again before it is returned.
Reparsed(text) == [ok |-> gateway_config_from_toml(text).ok, text |-> text]
dump_gateway_toml(cfg) == Reparsed(render_gateway_toml(cfg))

----------------------------------------------------------------------------
(* Building the gateway from a configuration                                *)

\* The digest of the written configuration keys the response cache.
cache_generation(cfg) == dump_gateway_toml(cfg)

\* A mutant: a key without models does not take those of its workspace.
BUG_allowed_models(cfg, p) == ToSet(cfg[p].refs)
\* AccessPolicy::from_gateway_config_with_clock: a key without models has the
\* models of its workspace; no models at all means every model.
allowed_models(cfg, p) ==
    LET w == <<"workspaces", cfg[p].f["workspace"]>>
    IN IF cfg[p].refs # <<>> THEN ToSet(cfg[p].refs)
       ELSE IF cfg[p].f["workspace"] = "none" THEN {} ELSE ToSet(cfg[w].refs)
valid_key_id(v) == v # "ugly"
from_gateway_config(cfg) ==
    [ok |-> \A p \in Of(cfg, "keys") : valid_key_id(cfg[p].f["id"]),
     scope |-> [p \in Of(cfg, "keys") |-> allowed_models(cfg, p)]]

\* A canary needs a shared backend and something to send.
with_gateway_canary(cfg) ==
    cfg[<<"canary">>].f["enabled"] = "true" =>
        /\ cfg[<<"state">>].f["backend"] = "redis"
        /\ cfg[<<"canary">>].f["fraction"] # "0"
        /\ cfg[<<"canary">>].f["candidate_route"] # ""

with_gateway_cache(cfg, generation) ==
    /\ generation.ok
    /\ cfg[<<"cache">>].set /\ cfg[<<"cache">>].f["backend"] = "redis" =>
          cfg[<<"state">>].f["backend"] = "redis"

build_serve_state(cfg, generation) ==
    from_gateway_config(cfg).ok /\ with_gateway_canary(cfg) /\ with_gateway_cache(cfg, generation)
----------------------------------------------------------------------------
(* The routing section (wayfinder-config/src/lib.rs): [routing] is read     *)
(* into weights, a lexicon and either tiers or a classifier, and such a     *)
(* value is written back as a fragment.  Tiers are the tables               *)
(* <<"routing", "tiers", n>>.  Scores are the classes "0" < "3" < "3+" <    *)
(* "6" of numbers in 0.0-1.0, where "3+" is "3" at six decimals, and "over".*)

RoutingTables == {<<"routing">>, <<"routing", "lexicon">>, <<"routing", "classifier">>}
                 \cup {<<"routing", "tiers", n>> : n \in 1..MaxTiers}

Scores == {"0", "3", "3+", "6"}
Rank(score) == CASE score = "0" -> 0 [] score = "3" -> 3 [] score = "3+" -> 4 [] score = "6" -> 6
RoundedScore(score) == IF score = "3+" THEN "3" ELSE score
DefaultThreshold == "3"

\* parse_threshold and parse_environment_threshold: the environment's value,
\* when there is one, must be a number and wins.
parse_threshold(raw) == [ok |-> raw \in Scores \cup {"absent"},
                         val |-> IF raw = "absent" THEN DefaultThreshold ELSE raw]
parse_environment_threshold(env, configured) ==
    [ok |-> env \in Scores \cup {"absent", ""},
     val |-> IF env \in {"absent", ""} THEN configured ELSE env]

\* Weights: "w" and "w+" are tables of known features that agree at six decimals.
parse_weights(raw) == [ok |-> raw \in {"absent", "dflt", "w", "w+"},
                       val |-> IF raw = "absent" THEN "dflt" ELSE raw]

\* Terms are trimmed and lowered: " Prove " is read as "prove".
parse_term_list(raw) == [ok |-> raw \in {"absent", "dflt", "prove", " Prove "},
                         val |-> CASE raw = "absent" -> "dflt"
                                   [] raw = " Prove " -> "prove"
                                   [] OTHER -> raw]
parse_lexicon(t) ==
    [ok |-> /\ parse_term_list(t.f["reasoning_terms"]).ok
            /\ parse_term_list(t.f["constraint_terms"]).ok
            /\ t.f["unknown"] = "absent",
     val |-> <<parse_term_list(t.f["reasoning_terms"]).val,
               parse_term_list(t.f["constraint_terms"]).val>>]

binary_tiers(threshold) ==
    <<[min_score |-> "0", model |-> "local", cost |-> "absent"],
      [min_score |-> threshold, model |-> "cloud", cost |-> "absent"]>>

\* Strict input: the first tier starts at zero and the scores ascend.
\* CompatibilitySort sorts them first.
Ascending(tiers) ==
    /\ tiers[1].min_score = "0"
    /\ \A i \in 2..Len(tiers) : Rank(tiers[i - 1].min_score) < Rank(tiers[i].min_score)
parse_tiers(tables, strict) ==
    LET tiers == [i \in DOMAIN tables |->
                     [min_score |-> tables[i].f["min_score"], model |-> tables[i].f["model"],
                      cost |-> tables[i].f["cost"]]]
        ok == \A i \in DOMAIN tiers :
                  /\ tiers[i].min_score \in Scores
                  /\ tiers[i].model \notin {"absent", "bad", ""}
                  /\ tiers[i].cost \in {"absent", "7"}
        sorted == IF strict \/ ~ok THEN tiers
                  ELSE SortSeq(tiers, LAMBDA a, b : Rank(a.min_score) < Rank(b.min_score))
    IN [ok |-> ok /\ Ascending(sorted), val |-> sorted]

\* Two or more distinct models, one intercept and one weight vector for each.
parse_number_vector(raw, models) == raw = models
parse_classifier(t) ==
    [ok |-> /\ t.f["models"] \in {"two", "three"}
            /\ parse_number_vector(t.f["intercepts"], t.f["models"])
            /\ t.f["weights"] \in {t.f["models"], "none"},
     val |-> t.f["models"]]

NoClassifier == "none"
TierTables(text) ==
    LET present == {n \in 1..MaxTiers : text[<<"routing", "tiers", n>>].at = "table"}
    IN [i \in 1..Cardinality(present) |->
           text[<<"routing", "tiers", CHOOSE n \in present : Cardinality({m \in present : m < n}) = i - 1>>]]

\* A classifier wins over tiers, tiers over the threshold; only the threshold
\* is open to the environment.  text: the tables of the document.
routing_config_from_toml(text, env, strict) ==
    LET root == text[<<"routing">>]
        weights == parse_weights(root.f["weights"])
        lexicon == IF text[<<"routing", "lexicon">>].at = "table"
                   THEN parse_lexicon(text[<<"routing", "lexicon">>])
                   ELSE [ok |-> TRUE, val |-> <<"dflt", "dflt">>]
        classifier == parse_classifier(text[<<"routing", "classifier">>])
        tiers == parse_tiers(TierTables(text), strict)
        configured == parse_threshold(root.f["threshold"])
        threshold == parse_environment_threshold(env, configured.val)
        Routing(ts, c) == [weights |-> weights.val, lexicon |-> lexicon.val,
                           tiers |-> ts, classifier |-> c]
        Result(ok, ts, c) == [ok |-> weights.ok /\ lexicon.ok /\ ok, val |-> Routing(ts, c)]
    IN IF text[<<"routing", "classifier">>].at = "table"
       THEN Result(classifier.ok, binary_tiers(DefaultThreshold), classifier.val)
       ELSE IF TierTables(text) # <<>>
       THEN Result(tiers.ok, tiers.val, NoClassifier)
       ELSE Result(configured.ok /\ threshold.ok, binary_tiers(threshold.val), NoClassifier)

RoutingFields(p) ==
    CASE p = <<"routing">> -> {"threshold", "weights", "unknown"}
      [] p = <<"routing", "lexicon">> -> {"reasoning_terms", "constraint_terms", "unknown"}
      [] p = <<"routing", "classifier">> -> {"models", "intercepts", "weights"}
      [] OTHER -> {"min_score", "model", "cost"}
NoTable(p) == [at |-> "absent", f |-> [x \in RoutingFields(p) |-> "absent"], refs |-> <<>>]
Table(p, f) == [at |-> "table", f |-> f @@ NoTable(p).f, refs |-> <<>>]

Unless(value, default) == IF value = default THEN "absent" ELSE value

\* What is written: weights and lexicon where they differ from the defaults,
\* then the classifier, or the tiers (two of them for a threshold).
dump_routing_toml(routing) ==
    [p \in RoutingTables |->
        CASE p = <<"routing">> ->
                IF routing.weights = "dflt" THEN NoTable(p)
                ELSE Table(p, "weights" :> "w")
          [] p = <<"routing", "lexicon">> ->
                IF routing.lexicon = <<"dflt", "dflt">> THEN NoTable(p)
                ELSE Table(p, "reasoning_terms" :> Unless(routing.lexicon[1], "dflt") @@
                              "constraint_terms" :> Unless(routing.lexicon[2], "dflt"))
          [] p = <<"routing", "classifier">> ->
                IF routing.classifier = NoClassifier THEN NoTable(p)
                ELSE Table(p, [x \in RoutingFields(p) |-> routing.classifier])
          [] OTHER ->
                IF routing.classifier # NoClassifier \/ p[3] > Len(routing.tiers) THEN NoTable(p)
                ELSE Table(p, "min_score" :> RoundedScore(routing.tiers[p[3]].min_score) @@
                              "model" :> routing.tiers[p[3]].model @@
                              "cost" :> routing.tiers[p[3]].cost)]

\* PolicyProfile::new: a profile keeps the written routing, which must be
\* readable and written the same again.
PolicyProfile(routing) ==
    LET text == dump_routing_toml(routing)
        again == routing_config_from_toml(text, "absent", TRUE)
    IN again.ok /\ dump_routing_toml(again.val) = text
=============================================================================
