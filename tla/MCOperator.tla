----------------------------- MODULE MCOperator -----------------------------
(***************************************************************************)
(* The operator's side of the system on small instances, one part at a     *)
(* time: the configuration file, the operator login, shadow evidence, the   *)
(* guided setup, calibration, and the files a start reads.  Only one part   *)
(* moves; the login, the evidence and the calibration share the cells.      *)
(***************************************************************************)
EXTENDS ConfigFile, GuidedSetup, HostFiles

VARIABLES part, c1, c2, c3, c4, c5, c6, c7, c8, c9, c10, c11

(* Configuration: two files, a full one, with every section set, and a short *)
(* one whose routing comes before the gateway.  The first edit is any change *)
(* of one field, list or header; a second one would change the fields that   *)
(* other sections depend on.                                                *)

GatewayTables ==
    {<<"gateway">>, <<"budget">>, <<"cache">>, <<"rate_limit">>, <<"concurrency">>, <<"state">>,
     <<"auth">>, <<"shadow">>, <<"canary">>, <<"models">>, <<"routes">>, <<"workspaces">>,
     <<"profiles">>, <<"keys">>, <<"models", "m1">>, <<"models", "m2">>, <<"routes", "r1">>,
     <<"workspaces", "w1">>, <<"workspaces", "w1", "budget">>, <<"profiles", "p1">>,
     <<"keys", "k1">>, <<"keys", "k1", "rate_limit">>, <<"models", "m1", "deployment_selection">>,
     <<"models", "m1", "deployments">>, <<"models", "m1", "deployments", 1>>,
     <<"models", "m1", "deployments", 2>>}

Gateway(p, f, refs) ==
    [path |-> p, noted |-> FALSE,
     t |-> [at |-> "table", f |-> f @@ Blank(Kind(p)), refs |-> refs]]
Routing(p, f) ==
    [path |-> p, noted |-> FALSE,
     t |-> Table(IF p = <<"routing", "tiers">> THEN <<"routing", "tiers", 1>> ELSE p, f)]
Tier(score, model) == Routing(<<"routing", "tiers">>, "min_score" :> score @@ "model" :> model)
NoFields == [x \in {} |-> ""]

Model(p) == Gateway(p, "base_url" :> "name" @@ "model" :> "name", <<>>)
Full == <<
    Gateway(<<"gateway">>, "sticky" :> "true" @@ "retries" :> "7", <<>>),
    Gateway(<<"budget">>, "limit" :> "7" @@ "on_breach" :> "block", <<>>),
    Gateway(<<"cache">>, "backend" :> "redis" @@ "enabled" :> "true", <<>>),
    Gateway(<<"state">>, "backend" :> "redis" @@ "url" :> "name", <<>>),
    Gateway(<<"auth">>, "mode" :> "oidc" @@ "issuer" :> "name" @@ "audience" :> "name"
                        @@ "jwks_url" :> "name", <<>>),
    Gateway(<<"concurrency">>, "max_in_flight" :> "7", <<>>),
    Gateway(<<"shadow">>, "enabled" :> "true" @@ "provider_comparisons" :> "true"
                          @@ "provider_sample_rate" :> "half" @@ "provider_max_requests" :> "7",
            <<"r1">>),
    Gateway(<<"canary">>, "enabled" :> "true" @@ "candidate_route" :> "r1" @@ "fraction" :> "half",
            <<>>),
    Gateway(<<"workspaces", "w1">>, "profile" :> "p1", <<"m1">>),
    Gateway(<<"workspaces", "w1", "budget">>, "limit" :> "half", <<>>),
    Gateway(<<"profiles", "p1">>, "routing_toml" :> "routing", <<>>),
    Gateway(<<"keys", "k1">>, "hash" :> "HEX" @@ "workspace" :> "w1", <<"m1">>),
    Gateway(<<"keys", "k1", "rate_limit">>, "rpm" :> "7", <<>>),
    [Model(<<"models", "m1">>) EXCEPT !.t.refs = <<"m2">>],
    Gateway(<<"models", "m1", "deployments", 1>>,
            "id" :> "d1" @@ "base_url" :> "name" @@ "model" :> "name", <<>>),
    Gateway(<<"models", "m1", "deployments", 2>>,
            "id" :> "d2" @@ "base_url" :> "name" @@ "model" :> "name", <<>>),
    Gateway(<<"models", "m1", "deployment_selection">>, "strategy" :> "cost", <<>>),
    [Model(<<"models", "m2">>) EXCEPT !.t.f["provider"] = "anthropic", !.t.f["api_key_env"] = "name"],
    Gateway(<<"routes", "r1">>, NoFields, <<"m1", "m2">>),
    Routing(<<"routing">>, "weights" :> "w"),
    Tier("0", "m1"), Tier("3", "m2") >>
Short == << Routing(<<"routing">>, "threshold" :> "6"),
            Gateway(<<"gateway">>, NoFields, <<>>), Model(<<"models", "m1">>) >>
MCFragments == { <<Routing(<<"routing">>, "threshold" :> "3")>>,
                 <<Routing(<<"routing">>, "weights" :> "w"), Tier("0", "m1")>>,
                 <<Routing(<<"routing">>, "unknown" :> "3")>> }
Discovered == [threshold |-> "absent", explicit |-> FALSE]
Named == [threshold |-> "6", explicit |-> TRUE]
MCStarts == {[file |-> Full, env |-> Named], [file |-> Short, env |-> Discovered],
             [file |-> Short, env |-> Named]}

\* What an editor may put in a field.
Words(block) ==
    IF IsRouting(block)
    THEN [x \in DOMAIN block.t.f |->
             CASE x = "threshold" -> {"0", "over", "6"}
               [] x = "weights" -> {"w+", "bad"}
               [] x = "unknown" -> {"7"}
               [] x = "min_score" -> {"3+", "0", "over", "6"}
               [] x = "model" -> {"", "m2"}
               [] OTHER -> {"7", "bad"}]
    ELSE [x \in DOMAIN block.t.f |->
             LET field == Fields(Kind(block.path))[x] IN
             field.ok \cup {"absent", "bad", ""} \cup (IF field.num THEN {"0"} ELSE {})]
Lists == { <<>>, <<"m1">>, <<"m2">>, <<"m1", "m1">>, <<"m2", "m1">>, <<"r1">>, <<"">>, <<"ghost">> }
Linked == {"backend", "url", "enabled", "provider", "workspace", "profile", "candidate_route",
           "fraction", "api_key_env", "threshold"}

Edited(n, block, x) ==
    IF n > 0 /\ x \notin Linked THEN {} ELSE {[block EXCEPT !.t.f[x] = w] : w \in Words(block)[x]}
MCOffers(n, block) ==
    UNION {Edited(n, block, x) : x \in DOMAIN block.t.f}
    \cup (IF IsRouting(block) THEN {} ELSE {[block EXCEPT !.t.refs = l] : l \in Lists})
    \cup {[block EXCEPT !.noted = TRUE]}
    \cup (IF n = 0 THEN {[block EXCEPT !.t.at = "bad"]} ELSE {})

-----------------------------------------------------------------------------
(* Operator login: one signing key that the issuer may withdraw, tokens that *)
(* are good, about to expire, without the role, or beside a virtual key.     *)

k1 == [kid |-> "k", n |-> 1, usable |-> TRUE]
Instant(n) == [kind |-> "number", n |-> n]
Token ==
  [form |-> "jwt", alg |-> "RS256", kid |-> "k", key |-> k1, iss |-> "issuer",
   aud |-> {"audience", "other"}, exp |-> Instant(9), nbf |-> Instant(1), sub |-> "s",
   admin |-> "admin"]
Bearer(token) == [vkey |-> FALSE, scheme |-> "bearer", token |-> token]
Logins ==
  {Bearer(Token), [Bearer(Token) EXCEPT !.vkey = TRUE],
   Bearer([Token EXCEPT !.exp = Instant(2)]), Bearer([Token EXCEPT !.admin = "false"])}
AuthSections ==
  {[mode |-> m, issuer |-> "i", audience |-> "a", url |-> "https"] : m \in {"oidc", "both", "vkeys"}}

O == INSTANCE OperatorAuth WITH
  Requests <- {"r1", "r2"}, AuthConfigs <- AuthSections, Credentials <- Logins, Keys <- {k1},
  CacheTTL <- 2, RefreshCooldown <- 2, FetchTimeout <- 1, Skew <- 1, MaxNow <- 4,
  auth <- c1, now <- c2, published <- c3, last <- c4, cache <- c5, attempted <- c6,
  holder <- c7, reqs <- c8, answers <- c9

-----------------------------------------------------------------------------
(* Shadow evidence: two requests, a reload that turns shadowing off and one  *)
(* that changes the routing and stops provider comparisons.                  *)

ShadowOn ==
  [enabled |-> TRUE, routing |-> "a", routes |-> <<"r1", "r2">>, rate |-> {"q1", "q2"},
   slots |-> 1, compare |-> TRUE, budget |-> 1, window |-> 1,
   presets |-> [r1 |-> <<"m1", "m2">>, r2 |-> <<"m1">>], eligible |-> {"m2"}]
ShadowSections ==
  {ShadowOn, [ShadowOn EXCEPT !.enabled = FALSE],
   [ShadowOn EXCEPT !.routing = "b", !.presets = [r1 |-> <<"m2">>], !.compare = FALSE]}
Judgements(routes, evaluators, value) ==
  [request: {"q1", "q2"}, route: routes, evaluator: evaluators, value: {value}]
LabelBatches ==
  {Judgements({"r1", "r2"}, {"human", "auto"}, "win"), Judgements({"r1"}, {"human"}, "loss"),
   {[request |-> "q1", route |-> "r2", evaluator |-> "", value |-> "win"]}}

S == INSTANCE Shadow WITH
  Requests <- {"q1", "q2"}, Configs <- ShadowSections, Batches <- LabelBatches,
  MaxRecords <- 3, MaxLabels <- 8, MinSamples <- 4, MaxNow <- 2, MaxReloads <- 2,
  config <- c1, slots <- c2, active <- c3, records <- c4, counters <- c5, window <- c6,
  jobs <- c7, labels <- c8, answer <- c9, now <- c10, reloads <- c11

\* Nothing reads the answer to an operator: a call that changes nothing else is
\* made only as the first.
OnlyFirstReport == c9' # c9 /\ c8' = c8 => c9 = "none"

-----------------------------------------------------------------------------
(* Calibration: every dataset of three short, middling and long prompts, and *)
(* some of eight whose long prompts share words.                             *)

C == INSTANCE Routing

Prompt(words, tokens, label) ==
  [label |-> label,
   text |-> <<[kind |-> "text", depth |-> 0, words |-> words, links |-> 0, tokens |-> tokens,
               math |-> 0, questions |-> 0]>>]
Rows == {Prompt(w, <<>>, l) : w \in {4, 200, 400}, l \in {"local", "cloud"}}
Spoken(w, also) ==
  <<Prompt(w, <<1, 2>>, "cloud"), Prompt(4, <<1, 3>>, "cloud"), Prompt(4, <<2>>, "cloud"),
    Prompt(400, <<2, 3>>, "cloud"), Prompt(4, <<4>>, "local"), Prompt(4, also, "local"),
    Prompt(w, <<4>>, "local"), Prompt(200, <<>>, "local")>>
Plain == [tiers |-> C!binary_tiers(50), weights |-> C!DefaultWeights,
          lexicon |-> [reasoning |-> {}, constraint |-> {}],
          classifier |-> [models |-> <<>>]]
Study(prompts, low, high, penalty, distill) ==
  [prompts |-> prompts, costs |-> [local |-> low, cloud |-> high], penalty |-> penalty,
   distill |-> distill, routing |-> Plain]
Studies ==
  {Study(p, 1, 3, penalty, FALSE) : p \in [1 .. 3 -> Rows], penalty \in {-1, 0, 1, 9}}
  \cup {Study(Spoken(w, also), low, 3, -1, TRUE) :
          w \in {4, 400}, also \in {<<>>, <<2>>, <<1, 2>>}, low \in {1, 3}}

-----------------------------------------------------------------------------

Unused == "unused"
NoConfiguration ==
  /\ file = <<>> /\ entry = "file" /\ env = Named /\ running = NotLoaded
  /\ apply = NoApply /\ edits = 0 /\ applies = 0
  /\ applied = NoApply

cells == <<c1, c2, c3, c4, c5, c6, c7, c8, c9, c10, c11>>
allVars == <<part, vars, setupVars, fileVars, storeVars, cells>>

\* What the parts that do not move look like.
SetupIdle == SetupInit /\ unit
HostIdle == FilesInit /\ StoreInit

MCInit ==
  \/ /\ part = "config" /\ Init /\ SetupIdle /\ HostIdle
     /\ c1 = Unused /\ c2 = Unused /\ c3 = Unused /\ c4 = Unused /\ c5 = Unused
     /\ c6 = Unused /\ c7 = Unused /\ c8 = Unused /\ c9 = Unused /\ c10 = Unused /\ c11 = Unused
  \/ /\ part = "login" /\ NoConfiguration /\ SetupIdle /\ HostIdle
     /\ O!Init /\ c10 = Unused /\ c11 = Unused
  \/ part = "shadow" /\ NoConfiguration /\ SetupIdle /\ HostIdle /\ S!Init
  \/ /\ part = "calibration" /\ NoConfiguration /\ SetupIdle /\ HostIdle /\ c1 \in Studies
     /\ c2 = Unused /\ c3 = Unused /\ c4 = Unused /\ c5 = Unused
     /\ c6 = Unused /\ c7 = Unused /\ c8 = Unused /\ c9 = Unused /\ c10 = Unused /\ c11 = Unused
  \/ /\ \/ part = "setup" /\ SetupInit /\ HostIdle
        \/ part \in {"ledger", "projects", "store"} /\ SetupIdle /\ HostIdle
     /\ NoConfiguration
     /\ c1 = Unused /\ c2 = Unused /\ c3 = Unused /\ c4 = Unused /\ c5 = Unused
     /\ c6 = Unused /\ c7 = Unused /\ c8 = Unused /\ c9 = Unused /\ c10 = Unused /\ c11 = Unused

MCNext ==
  /\ UNCHANGED part
  /\ \/ part = "config" /\ Next /\ UNCHANGED <<setupVars, fileVars, storeVars, cells>>
     \/ /\ part = "login" /\ O!Next
        /\ UNCHANGED <<vars, setupVars, fileVars, storeVars, c10, c11>>
     \/ /\ part = "shadow" /\ S!Next /\ OnlyFirstReport
        /\ UNCHANGED <<vars, setupVars, fileVars, storeVars>>
     \/ /\ part = "calibration" /\ c3 = Unused /\ c3' = "written" /\ c2' = C!run_calibrate(c1)
        /\ UNCHANGED <<vars, setupVars, fileVars, storeVars, c1, c4, c5, c6, c7, c8, c9, c10, c11>>
     \/ part = "setup" /\ SetupNext /\ UNCHANGED <<vars, fileVars, storeVars, cells>>
     \/ /\ part = "ledger" /\ ((LedgerStep /\ UNCHANGED <<projectVars, crashes>>) \/ CrashGateway)
        /\ UNCHANGED <<vars, setupVars, storeVars, cells>>
     \/ /\ part = "projects" /\ FilesNext /\ ledger' = 0 /\ reloads' = 0
        /\ UNCHANGED <<vars, setupVars, storeVars, cells>>
     \/ part = "store" /\ StoreNext /\ UNCHANGED <<vars, setupVars, ledgerVars, projectVars, cells>>

MCSpec == MCInit /\ [][MCNext]_allVars

\* A withdrawn signing key stops opening the operator routes.
RevokedKeyExpires == [][part = "login" => O!AcceptsRecentKey]_allVars

\* What is recommended from evidence has earned it: the shadow report says
\* "enforce" only on evidence of one configuration, and a calibrated
\* threshold is the best one for its prompts.
EvidenceIsEarned ==
  /\ part = "shadow" => S!EvidenceIsEarned
  /\ part = "calibration" /\ c3 = "written" => C!CalibrationIsBest(c1, c2)
=============================================================================
