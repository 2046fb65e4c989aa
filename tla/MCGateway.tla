------------------------------ MODULE MCGateway ------------------------------
(* Small worlds for Gateway: one process alone with its cache, keys and    *)
(* workspaces, a fleet on Redis with budgets and a canary, an offline and  *)
(* a dry-run gateway; single requests of every kind, and a few together.   *)
EXTENDS Gateway

-----------------------------------------------------------------------------
(* Texts and requests. *)

Line(kind, depth, words, links) ==
  [kind |-> kind, depth |-> depth, words |-> words, links |-> links, tokens |-> <<>>,
   math |-> 0, questions |-> 0]
Easy == <<Line("text", 0, 4, 0)>>
Middling == <<Line("text", 0, 200, 0)>>
Hard == <<Line("heading", 4, 400, 10)>>

Says(role, text) == [role |-> role, content |-> "string", slash |-> "", text |-> text]
User(text) == Says("user", text)
Slashed(text, token) == [User(text) EXCEPT !.slash = token]

NoTuning == [given |-> FALSE, weights |-> NoMap, terms |-> NoMap]

Call(messages) ==
  [body |-> "text", model |-> [kind |-> "none", name |-> ""], messages |-> messages,
   tuning |-> NoTuning, routeOn |-> "absent", sticky |-> "absent", cooldown |-> Absent,
   threshold |-> Absent, posture |-> "absent", offline |-> FALSE, failover |-> "absent",
   tools |-> FALSE, image |-> FALSE, output |-> 0,
   authorization |-> [scheme |-> "absent", token |-> ""], identity |-> "", cohort |-> "",
   id |-> "r", stream |-> FALSE, debug |-> FALSE, cacheable |-> TRUE, n |-> 1, bytes |-> 2]

EasyCall == Call(<<User(Easy)>>)
HardCall == Call(<<User(Hard)>>)
Named(kind, name) == [HardCall EXCEPT !.model = [kind |-> kind, name |-> name]]
As(r, token) == [r EXCEPT !.authorization = [scheme |-> "bearer", token |-> token]]
Conversation(r, first, second) ==
  [r EXCEPT !.messages = <<User(first), Says("assistant", Easy), User(second)>>,
            !.sticky = "on"]

\* One request of every kind the decision tells apart.
Variety ==
  {EasyCall, HardCall, [HardCall EXCEPT !.stream = TRUE], [HardCall EXCEPT !.debug = TRUE]}
  \cup {[HardCall EXCEPT !.body = b] : b \in {"invalid", "other_modality"}}
  \cup {Named("model", m) : m \in {"small", "large", "codex", "ghost", "prefer-low", "prefer-high"}}
  \cup {Named("preset", p) : p \in {"private", "nowhere"}}
  \cup {[Named("model", "small") EXCEPT !.messages = <<User(Easy)>>],
        [Named("model", "large") EXCEPT !.posture = "on-device-only"],
        [Named("preset", "private") EXCEPT !.posture = "on-device-only"]}
  \cup {[HardCall EXCEPT !.posture = p] : p \in {"bad", "local-devices", "on-device-only"}}
  \cup {[EasyCall EXCEPT !.offline = o, !.messages = <<Slashed(Easy, t)>>] :
          o \in BOOLEAN, t \in {"auto", "large", "prefer-high", "unknown"}}
  \cup {[HardCall EXCEPT !.threshold = t] : t \in {Bad, 0, 90}}
  \cup {[HardCall EXCEPT !.failover = f] : f \in {"same-tier", "degrade", "escalate"}}
  \cup {[EasyCall EXCEPT !.tools = TRUE], [EasyCall EXCEPT !.image = TRUE],
        [EasyCall EXCEPT !.output = 50], [EasyCall EXCEPT !.output = 500],
        [HardCall EXCEPT !.routeOn = "bad"],
        [HardCall EXCEPT !.tuning = [given |-> TRUE, weights |-> [word_count |-> -1], terms |-> NoMap]],
        [HardCall EXCEPT !.tuning = [given |-> TRUE, weights |-> [word_count |-> 0], terms |-> NoMap]]}
  \cup {Conversation([EasyCall EXCEPT !.routeOn = on, !.cooldown = c], first, second) :
          on \in {"turn", "last_user"}, c \in {0, 1, 2},
          first \in {Easy, Hard}, second \in {Easy, Middling}}

-----------------------------------------------------------------------------
(* Configurations. *)

Model(provider, endpoint, window, name, fallbacks, cost) ==
  [cost |-> cost, provider |-> provider, endpoint |-> endpoint, tier |-> "local", ready |-> TRUE,
   window |-> window, fallbacks |-> fallbacks, deployments |-> <<>>, provider_model |-> name]

Models ==
  [small |-> Model("openai-compatible", "loopback", 300, "llama", <<>>, 0),
   mid |-> Model("openai-compatible", "private", 0, "llama", <<"small">>, 1),
   large |-> Model("anthropic", "public", 0, "claude", <<"mid">>, 3),
   codex |-> Model("codex", "public", 0, "gpt", <<>>, UnknownPrice)]

Ladder4 == <<"small", "mid", "large", "codex">>
NoClassifier == [models |-> <<>>, intercepts |-> <<>>, weights |-> NoMap]
Tier(min, model) == [min_score |-> min, model |-> model, cost |-> UnknownPrice]
DefaultRouting ==
  [tiers |-> <<Tier(0, "small"), Tier(10, "mid"), Tier(40, "large")>>,
   weights |-> DefaultWeights, lexicon |-> [reasoning |-> {}, constraint |-> {}],
   classifier |-> NoClassifier]

NoAccess == [active |-> FALSE, open |-> TRUE, limit |-> Unlimited, workspaces |-> NoMap, keys |-> <<>>]
NoBudgets == [active |-> FALSE, global |-> NoMap, by_workspace |-> NoMap, by_key |-> NoMap]
NoCanary ==
  [enabled |-> FALSE, scope |-> "request", cohort |-> "", inside |-> {}, candidate |-> "private",
   window |-> 2, max_requests |-> 1, min_samples |-> 1, max_error_rate |-> 40, max_latency |-> 1,
   max_cost |-> 150, hold |-> 5, latencies |-> {0}]

Alone ==
  [models |-> Models, routes |-> [private |-> <<"small", "mid">>], routing |-> DefaultRouting,
   profiles |-> NoMap, slash |-> TRUE, routeOn |-> "turn", sticky |-> FALSE, cooldown |-> 0,
   offline |-> FALSE, dryRun |-> FALSE, failover |-> "degrade",
   access |-> NoAccess, budgets |-> NoBudgets,
   prices |-> configured_price_table(DefaultRouting, Models, Ladder4),
   names |-> Ladder4, redis |-> FALSE, canary |-> NoCanary,
   caching |-> TRUE, capacity |-> 1, maxInFlight |-> 1, minOutput |-> 1, mishaps |-> 1, ticks |-> 0,
   labels |-> {"success"},
   usages |-> {Unreported, [prompt |-> 1, completion |-> 2, total |-> -1],
               [prompt |-> -1, completion |-> -1, total |-> 4]},
   completion |-> 1, openable |-> {"large"}, today |-> 20000, max_days |-> 30]

Binary ==
  [Alone EXCEPT !.routing.tiers = <<Tier(0, "mid"), Tier(40, "large")>>, !.sticky = TRUE]
Classified ==
  [Alone EXCEPT !.routing.classifier =
     [models |-> <<"mid", "large">>, intercepts |-> <<1, 0>>,
      weights |-> [f \in FeatureNames |-> IF f = "word_count" THEN <<0, 2>> ELSE <<0, 0>>]]]
Offline == [Alone EXCEPT !.offline = TRUE]
DryRun == [Alone EXCEPT !.dryRun = TRUE]

\* Nothing has a price: costs are relative to the ladder.
FreeModels == [m \in DOMAIN Models |-> [Models[m] EXCEPT !.cost = UnknownPrice]]
Unpriced ==
  [Alone EXCEPT !.models = FreeModels,
                !.prices = configured_price_table(DefaultRouting, FreeModels, Ladder4)]
\* Only a tier has one.
TierPriced == [Unpriced EXCEPT !.routing.tiers[3].cost = 2]

\* Two keys of one workspace: the first may use every model of it, the
\* second the small one only.  A third key is nobody's.
Key(id, ws, models, limit) ==
  [id |-> id, secret |-> id, workspace |-> ws, models |-> models, limit |-> limit]
Keys(limit) ==
  [active |-> TRUE, open |-> FALSE, limit |-> [rpm |-> 2, tpm |-> 0],
   workspaces |-> [team |-> [models |-> <<"mid", "small">>, limit |-> [rpm |-> 1, tpm |-> 0]]],
   keys |-> <<Key("k1", "team", <<>>, limit), Key("k2", "team", <<"small">>, Unlimited),
              Key("k3", "", <<>>, Unlimited)>>]
Cap(limit, breach) == [limit |-> limit, window |-> "day", on_breach |-> breach]

Keyed ==
  [Alone EXCEPT !.access = Keys([rpm |-> 0, tpm |-> 10]), !.maxInFlight = 2, !.capacity = 2,
                !.profiles = [team |-> [DefaultRouting EXCEPT !.tiers[2].min_score = 5]],
                !.budgets = [NoBudgets EXCEPT !.active = TRUE, !.by_key = [k3 |-> Cap(1, "degrade")],
                                              !.by_workspace = [team |-> Cap(1, "block")]]]

Fleet ==
  [Keyed EXCEPT !.redis = TRUE, !.caching = FALSE, !.maxInFlight = 1,
                !.usages = {Unreported, [prompt |-> 1, completion |-> 2, total |-> -1]},
                !.openable = {},
                !.budgets = [@ EXCEPT !.by_workspace = [team |-> Cap(1300, "block")]]]

\* A workspace with a local tier below a hosted one, and good and bad labels.
Learning ==
  [Keyed EXCEPT !.models["large"].tier = "hosted", !.budgets = NoBudgets, !.profiles = NoMap,
                !.routing.tiers = <<Tier(0, "mid"), Tier(40, "large")>>, !.mishaps = 0,
                !.labels = {"success", "failure"},
                !.usages = {Unreported}, !.openable = {}, !.caching = FALSE,
                !.access = [Keys(Unlimited) EXCEPT !.workspaces["team"] =
                              [models |-> <<"mid", "large">>, limit |-> Unlimited]]]

\* One rate window for the whole gateway, and none for the workspace.
Shared(w) ==
  [w EXCEPT !.access = [@ EXCEPT !.limit.rpm = 1, !.workspaces["team"].limit = Unlimited]]
Roomy(w) ==
  [w EXCEPT !.access = [@ EXCEPT !.workspaces["team"].limit = [rpm |-> 0, tpm |-> 900]]]

Exposed ==
  [Alone EXCEPT !.redis = TRUE, !.caching = FALSE, !.openable = {}, !.maxInFlight = 2,
                !.failover = "same-tier", !.capacity = 2, !.ticks = 2,
                !.usages = {[prompt |-> 1, completion |-> 2, total |-> -1]},
                !.canary = [NoCanary EXCEPT !.enabled = TRUE, !.inside = {"r"}, !.max_requests = 2,
                                            !.window = 1, !.hold = 3]]
Steady(w) == [w EXCEPT !.mishaps = 0]
Frozen(w) == [w EXCEPT !.ticks = 0]

-----------------------------------------------------------------------------
(* Bursts. *)

Burst(w, calls_) == [world |-> w, calls |-> calls_]
Hard1 == [As(HardCall, "k1") EXCEPT !.output = 5]
Streamed(r) == [r EXCEPT !.stream = TRUE]

MiddlingCall == [Call(<<User(Middling)>>) EXCEPT !.failover = "escalate"]

MCBursts ==
  {Burst(w, <<r>>) : w \in {Alone, Binary, Classified, Offline, DryRun}, r \in Variety}
  \cup {Burst(w, <<[r EXCEPT !.debug = TRUE]>>) :
          w \in {Unpriced, TierPriced, DryRun}, r \in {EasyCall, HardCall, Streamed(HardCall)}}
  \cup {Burst(Keyed, <<As(r, k)>>) : k \in {"k1", "k2", "k3", "k9"}, r \in Variety}
  \cup {Burst(Alone, <<HardCall, r>>) :
          r \in {HardCall, Streamed(HardCall), [HardCall EXCEPT !.posture = "local-devices"]}}
  \cup {Burst(Learning, <<As(MiddlingCall, "k1"), As(r, "k1")>>) :
          r \in {EasyCall, HardCall}}
  \cup {Burst(Keyed, <<As(HardCall, "k3"), r>>) : r \in {As(HardCall, "k3"), Hard1}}
  \cup {Burst(Roomy(Keyed), <<Hard1, r>>) : r \in {Hard1, As(EasyCall, "k2")}}
  \cup {Burst(Shared(Keyed), <<EasyCall, As(EasyCall, "k1")>>)}
  \cup {Burst(Roomy(Fleet), <<Hard1, Hard1>>), Burst(Shared(Fleet), <<Hard1, Hard1>>),
        Burst(Fleet, <<As(Streamed(HardCall), "k3"), As(HardCall, "k3")>>)}
  \cup {Burst(Steady(Exposed), <<HardCall, HardCall>>),
        Burst(Exposed, <<Streamed(HardCall)>>), Burst(Frozen(Exposed), <<HardCall, HardCall>>),
        Burst(Frozen(Exposed), <<Streamed(HardCall), [HardCall EXCEPT !.id = "other"]>>)}
==============================================================================
