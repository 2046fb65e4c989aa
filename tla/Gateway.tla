------------------------------- MODULE Gateway -------------------------------
(***************************************************************************)
(* One chat request from its preflight to its receipt, its charge and the  *)
(* release of everything it held (chat_completions and what it awaits,     *)
(* gateway/src/lib.rs), for several concurrent requests of one process     *)
(* that shares Redis with a fleet.                                         *)
(*                                                                         *)
(* An action ends where the handler awaits.  A call to Redis succeeds, or  *)
(* fails before or after it took effect; a client may go away at an await, *)
(* and then the pending call may or may not land.  What a dropped guard    *)
(* spawns is a task.  Upstream attempts, stream relay, admission queues,   *)
(* rate windows, reservations that expire and the caches are modelled in   *)
(* detail in Delivery, StreamRelay, Admission, TokenLimit, SharedBudget    *)
(* and ResponseCache; here each of them is one step with every answer.     *)
(***************************************************************************)
EXTENDS Decision, Ledger, Canary, Access

CONSTANTS
  Slots,      \* the requests of a behaviour, in arrival order of their ids
  Bursts      \* [world, calls]: a configuration and what is sent to it.
              \* A world also bounds what befalls it: `mishaps` failing
              \* Redis calls and leaving clients, `ticks` of Redis time

\* A configuration as its validation leaves it: lists are lists, the ledger
\* keeps at least today (400 days, load_savings_ledger), the times of the
\* canary are positive, and the ids of virtual keys are distinct.  The cache
\* files the answers of callers without a key under "local"; where such
\* callers are let in beside the keys, no key has that id.
IsWorld(w) ==
  /\ w.maxInFlight \in Nat
  /\ w.today \in Nat /\ w.max_days \in Nat \ {0}
  /\ w.canary.window \in Nat \ {0} /\ w.canary.hold \in Nat \ {0}
  /\ \A m \in DOMAIN w.models : w.models[m].fallbacks \in Seq(STRING)
  /\ \A n \in DOMAIN w.routes : w.routes[n] \in Seq(STRING)
  /\ \A routing \in {w.routing} \cup {w.profiles[p] : p \in DOMAIN w.profiles} :
       {"tiers", "weights", "lexicon", "classifier"} \subseteq DOMAIN routing
       /\ Len(routing.tiers) \in Nat
  /\ Len(w.access.keys) \in Nat
  /\ \A i, j \in 1 .. Len(w.access.keys) :
       w.access.keys[i].id = w.access.keys[j].id => i = j
  /\ \A i \in 1 .. Len(w.access.keys) :
       /\ w.access.keys[i].id # ""
       /\ w.access.open => w.access.keys[i].id # "local"

\* A burst fills some of the slots.  An empty model field names no model.
IsBurst(b) ==
  /\ IsWorld(b.world)
  /\ DOMAIN b.calls \subseteq Slots
  /\ \A s \in DOMAIN b.calls : b.calls[s].model.kind = "model" => b.calls[s].model.name # ""

ASSUME GatewayAssumption == IsFiniteSet(Slots) /\ \A b \in Bursts : IsBurst(b)

VARIABLES
  world,      \* the configuration
  calls,      \* slot -> request
  st,         \* slot -> progress
  receipts,   \* RecentRoutes
  ledger,     \* SavingsLedger
  counts,     \* process-local rate counters
  cache,      \* process-local response cache
  redis,      \* shared state
  tasks,      \* spawned by dropped guards
  now,        \* Redis server time
  holdUntil,  \* end of the last rollback hold
  faults,     \* Redis calls that failed
  drops       \* clients that went away

vars == <<world, calls, st, receipts, ledger, counts, cache, redis, tasks, now,
          holdUntil, faults, drops>>
fixed == <<world, calls>>

Fresh == [pc |-> "arrive", grant |-> Anonymous,
          facts |-> NoMap, choice |-> [model |-> "", mode |-> "", preset |-> <<>>], baseline |-> "",
          head |-> NoMap, quote |-> NoMap, plan |-> <<>>, served |-> "", tried |-> {}, miss |-> FALSE,
          degraded |-> FALSE,
          tokens |-> 0, estimated |-> FALSE, status |-> "", accounted |-> FALSE,
          permit |-> FALSE, lease |-> FALSE, budget |-> FALSE, reserved |-> "",
          canary |-> FALSE, guard |-> FALSE, reason |-> "", reply |-> "", at |-> ""]

Init ==
  /\ \E b \in Bursts : world = b.world /\ calls = b.calls
  /\ st = [s \in Slots |-> IF s \in DOMAIN calls THEN Fresh ELSE [Fresh EXCEPT !.pc = "done"]]
  /\ receipts = <<>> /\ ledger = NoMap /\ counts = NoMap /\ cache = NoMap
  /\ redis = [spend |-> NoMap, counted |-> {}, reserved |-> NoMap, leases |-> {},
              counts |-> NoMap, canary |-> NewRollout]
  /\ tasks = {} /\ now = 0 /\ holdUntil = 0 /\ faults = 0 /\ drops = 0

-----------------------------------------------------------------------------
(* Helpers. *)

A == world.access
KeyOf(s) == key_id(A, st[s].grant)
WorkspaceIdOf(s) == workspace_id(A, st[s].grant)
AllowedOf(s) == allowed_models(A, st[s].grant)
D(s) == st[s].facts
Prices == world.prices
Budgeted == world.budgets.active /\ Prices.priced

\* The names under which a caller's spend is filed in Redis.
SpendScopes(s, route) ==
  {<<"global", Nobody>>, <<"route", route>>}
  \cup (IF KeyOf(s) # Nobody THEN {<<"key", KeyOf(s)>>} ELSE {})
  \cup (IF WorkspaceIdOf(s) # Nobody THEN {<<"workspace", WorkspaceIdOf(s)>>} ELSE {})

At_(s, pc) == st[s].pc = pc

Goes(s, q, pc) == st' = [st EXCEPT ![s] = [q EXCEPT !.pc = pc]]

Task(kind, s) == [kind |-> kind, id |-> s, reason |-> ""]

\* A mutant: a dropped canary guard reports nothing.
BUG_Orphans(s, q) ==
  (IF q.lease THEN {Task("release_lease", s)} ELSE {})
  \cup (IF q.budget THEN {Task("release_budget", s)} ELSE {})

\* What the guards a request still holds leave to background tasks.
Orphans(s, q) ==
  (IF q.lease THEN {Task("release_lease", s)} ELSE {})
  \cup (IF q.budget THEN {Task("release_budget", s)} ELSE {})
  \cup (IF q.guard THEN {Task("c_record", s)} ELSE {})

\* The handler returns: every guard is dropped.  A token reservation has none.
Ends(s, q, reply) ==
  /\ st' = [st EXCEPT ![s] = [q EXCEPT !.pc = "done", !.reply = reply, !.permit = FALSE,
                                       !.lease = FALSE, !.budget = FALSE, !.guard = FALSE]]
  /\ tasks' = tasks \cup Orphans(s, q)

\* Calls to Redis: their effect, what is left of it when one of them fails,
\* and whether the caller hears of it.
RedisCalls(effect, partial, ok) ==
  /\ ok \/ faults + drops < world.mishaps
  /\ faults' = IF ok THEN faults ELSE faults + 1
  /\ redis' \in IF ok THEN {effect} ELSE {redis, effect} \cup partial

Redis(effect, ok) == RedisCalls(effect, {}, ok)

NoRedis == UNCHANGED <<redis, faults>>

-----------------------------------------------------------------------------
(* Preflight. *)

\* parse_chat_body and unsupported_text_surface.
BodyRefusal(r) ==
  CASE r.body = "invalid" -> "invalid_body"
    [] r.body = "other_modality" -> "unsupported_modality"
    [] OTHER -> ""

Refuse(s) ==
  /\ At_(s, "arrive") /\ BodyRefusal(calls[s]) # ""
  /\ Ends(s, st[s], BodyRefusal(calls[s])) /\ NoRedis
  /\ UNCHANGED <<fixed, receipts, ledger, counts, cache, now, holdUntil, drops>>

WithCounts(c) == [redis EXCEPT !.counts = c]

\* Authentication, then the caller's own limits, against the counters c.
KeyStage(s, c) ==
  LET grant == authenticate(A, calls[s].authorization)
      k == admit_key(A, c, grant)
  IN [counts |-> IF grant = Unauthorized THEN c ELSE k.counts, grant |-> grant,
      reply |-> IF grant = Unauthorized THEN "unauthorized"
                ELSE IF ~k.allowed THEN "rate_limited" ELSE ""]

Authenticated(s, stage) ==
  LET q == [st[s] EXCEPT !.grant = stage.grant]
  IN IF stage.reply # "" THEN Ends(s, st[s], stage.reply)
     ELSE Goes(s, q, "decide") /\ UNCHANGED tasks

\* The calls of the key's limits that reached Redis before one failed.
PartialKeyStage(s) ==
  LET grant == authenticate(A, calls[s].authorization)
  IN {WithCounts(c) : c \in shared_admit_key(A, redis.counts, grant)}

\* Without shared state nothing is awaited.
PreflightLocal(s) ==
  /\ At_(s, "arrive") /\ BodyRefusal(calls[s]) = "" /\ ~(A.active /\ world.redis)
  /\ LET g == admit_global(A, counts)
         stage == KeyStage(s, g.counts)
     IN IF ~A.active THEN Goes(s, st[s], "decide") /\ UNCHANGED <<tasks, counts>>
        ELSE IF ~g.allowed THEN Ends(s, st[s], "rate_limited") /\ counts' = g.counts
        ELSE Authenticated(s, stage) /\ counts' = stage.counts
  /\ NoRedis /\ UNCHANGED <<fixed, receipts, ledger, cache, now, holdUntil, drops>>

\* The fleet's counters, or the process's own when Redis fails.
PreflightGlobal(s) ==
  /\ At_(s, "arrive") /\ BodyRefusal(calls[s]) = "" /\ A.active /\ world.redis
  /\ \E ok \in BOOLEAN :
       LET g == admit_global(A, IF ok THEN redis.counts ELSE counts)
       IN /\ Redis(WithCounts(admit_global(A, redis.counts).counts), ok)
          /\ counts' = IF ok THEN counts ELSE g.counts
          /\ IF g.allowed THEN Goes(s, st[s], "auth") /\ UNCHANGED tasks
             ELSE Ends(s, st[s], "rate_limited")
  /\ UNCHANGED <<fixed, receipts, ledger, cache, now, holdUntil, drops>>

PreflightKey(s) ==
  /\ At_(s, "auth")
  /\ \E ok \in BOOLEAN :
       LET stage == KeyStage(s, IF ok THEN redis.counts ELSE counts)
       IN /\ RedisCalls(WithCounts(KeyStage(s, redis.counts).counts), PartialKeyStage(s), ok)
          /\ counts' = IF ok THEN counts ELSE stage.counts
          /\ Authenticated(s, stage)
  /\ UNCHANGED <<fixed, receipts, ledger, cache, now, holdUntil, drops>>

-----------------------------------------------------------------------------
(* Decision, budget, key scope and canary. *)

BudgetVerdict(s, shared, offline) ==
  IF ~Budgeted THEN "allow"
  ELSE IF shared
  THEN evaluate_shared_for(world.budgets, redis.spend, WorkspaceIdOf(s), KeyOf(s), offline)
  ELSE evaluate_for(world.budgets, ledger, WorkspaceIdOf(s), KeyOf(s), world.today, offline)

MayCanary(c) ==
  /\ ~world.dryRun /\ c.mode = "scored" /\ c.preset = <<>>
  /\ world.canary.enabled /\ world.redis

\* The facts of the request, kept for the rest of the handler, and the choice
\* a budget and a key leave it.
Decide(s) ==
  /\ At_(s, "decide") /\ ~BadOverride(world, calls[s])
  /\ \E d \in {Facts(world, calls[s], WorkspaceIdOf(s), AllowedOf(s))} :
     \E chosen \in {Selected(world, calls[s], d)} :
       IF chosen.refusal # "" THEN Ends(s, st[s], chosen.refusal) /\ NoRedis
       ELSE \E ok \in (IF Budgeted /\ world.redis THEN BOOLEAN ELSE {TRUE}) :
          LET verdict == BudgetVerdict(s, world.redis /\ ok, d.offline)
          IN /\ Redis(redis, ok)
             /\ IF verdict = "block" THEN Ends(s, st[s], "budget_blocked")
                ELSE \E c \in {Clamped(IF verdict = "degrade" THEN Degraded(chosen.choice, d)
                                       ELSE chosen.choice, d, world.names)} :
                  /\ Goes(s, [st[s] EXCEPT !.facts = d, !.choice = c, !.baseline = c.model,
                                           !.degraded = verdict = "degrade"],
                          IF MayCanary(c) THEN "snapshot" ELSE "headers")
                  /\ UNCHANGED tasks
  /\ UNCHANGED <<fixed, receipts, ledger, counts, cache, now, holdUntil, drops>>

RefuseOverride(s) ==
  /\ At_(s, "decide") /\ BadOverride(world, calls[s])
  /\ Ends(s, st[s], "bad_override") /\ NoRedis
  /\ UNCHANGED <<fixed, receipts, ledger, counts, cache, now, holdUntil, drops>>

WithCanary(c) == [redis EXCEPT !.canary = c]

\* A tripped rollout, a caller outside it or a failing Redis: no canary.
CanarySnapshot(s) ==
  /\ At_(s, "snapshot")
  /\ \E ok \in BOOLEAN :
       LET c == canary_snapshot(redis.canary, world.canary.window, now)
           identity == assignment_identity(world.canary, calls[s], WorkspaceIdOf(s), KeyOf(s))
       IN /\ Redis(WithCanary(c), ok)
          /\ Goes(s, st[s], IF ok /\ c.hash.tripped = "" /\ Eligible(world.canary, identity)
                            THEN "expose" ELSE "headers")
  /\ UNCHANGED <<fixed, receipts, ledger, counts, cache, tasks, now, holdUntil, drops>>

\* The exposure is counted before a candidate is looked for.
CanaryExpose(s) ==
  /\ At_(s, "expose")
  /\ LET cfg == world.canary
         limited == exposure_limited(redis.canary, cfg.max_requests, cfg.window, now)
         route == SelectSeq(world.routes[cfg.candidate], LAMBDA m : Acceptable(world, m, D(s)))
     IN \E ok \in BOOLEAN :
          /\ Redis(IF limited THEN redis
                   ELSE WithCanary(admit_exposure(redis.canary, cfg.window, now)), ok)
          /\ IF ok /\ ~limited /\ route # <<>>
             THEN Goes(s, [st[s] EXCEPT !.choice = [@ EXCEPT !.model = route[1], !.mode = "canary"],
                                        !.canary = TRUE, !.guard = TRUE], "headers")
             ELSE Goes(s, st[s], "headers")
  /\ UNCHANGED <<fixed, receipts, ledger, counts, cache, tasks, now, holdUntil, drops>>

-----------------------------------------------------------------------------
(* Headers, receipt, cache lookup and plan. *)

decision_headers(s) ==
  [model |-> st[s].choice.model, mode |-> st[s].choice.mode, offline |-> D(s).offline]

\* How many requests the caller has left; -1 without a request limit.
insert_rate_snapshot_headers(remaining) == [remaining |-> remaining]

\* The headers of whatever is answered from here on.  The rate limits are
\* read again, from Redis if it answers: a failing read is not an error.
Headers(s) ==
  /\ At_(s, "headers")
  /\ \E ok \in (IF A.active /\ world.redis THEN BOOLEAN ELSE {TRUE}) :
       LET remaining == tightest_snapshot_shared(A, redis.counts, counts, world.redis /\ ok, st[s].grant)
           c == st[s].choice
       IN /\ Redis(redis, ok)
          /\ Goes(s, [st[s] EXCEPT !.head =
                 [posture |-> D(s).posture, degraded |-> st[s].degraded, canary |-> st[s].guard,
                  preset |-> c.preset # <<>>, workspace |-> WorkspaceIdOf(s)]
                 @@ decision_headers(s)
                 @@ insert_rate_snapshot_headers(IF A.active THEN remaining ELSE -1)], "record")
  /\ UNCHANGED <<fixed, receipts, ledger, counts, cache, tasks, now, holdUntil, drops>>

\* The decision as a caller who asks for it is shown it.
make_decision_response(s) ==
  LET scored == D(s).scored
  IN [score |-> scored.score,
      contributions |-> explain_score(scored.features, D(s).routing.weights),
      words |-> scored.features["word_count"],
      cost |-> cost_response(world.models, scored.tiers, st[s].choice.model,
                             scored.features["word_count"])]

\* In a dry run, and before any model is configured.
decision_only_response(s) == [st[s] EXCEPT !.quote = make_decision_response(s)]

\* A debug answer carries the decision that led to it.
inject_debug_decision(s, q) ==
  IF calls[s].debug THEN [q EXCEPT !.quote = make_decision_response(s)] ELSE q

Target(s) == world.models[DeliveryName(st[s].choice, D(s))]

\* A mutant: the privacy posture is not part of the key.
BUG_CacheKey(s, model) ==
  <<KeyOf(s), st[s].choice.mode, DeliveryName(st[s].choice, D(s)),
    world.models[model].provider_model, calls[s].model, D(s).messages, calls[s].output>>

\* Partition, route, provider model and body.
CacheKey(s, model) ==
  LET c == st[s].choice
  IN <<IF KeyOf(s) = "" THEN "local" ELSE KeyOf(s), D(s).posture,
       IF c.preset # <<>> THEN <<"preset", calls[s].model.name>>
       ELSE <<c.mode, DeliveryName(c, D(s))>>,
       world.models[model].provider_model,
       <<calls[s].model, D(s).messages, calls[s].output>>>>

Cacheable(s) ==
  world.caching /\ Target(s).provider # "codex" /\ ~calls[s].debug
  /\ calls[s].cacheable /\ ~calls[s].stream

\* The replies that need neither the cache nor a plan.
EarlyReply(s) ==
  LET d == D(s)
      name == DeliveryName(st[s].choice, d)
  IN IF world.dryRun \/ DOMAIN world.models = {} THEN "decision_only"
     ELSE IF name \notin DOMAIN world.models THEN "misconfigured"
     ELSE IF d.offline /\ ~model_is_proven_local(world.models[name]) THEN "offline_unavailable"
     ELSE ""

\* The most a turn can cost: the dearest rate, at least 1024 output tokens
\* (world.minOutput), for every completion asked for.
ReservationOf(s) ==
  [amount |-> Dearest(Prices.costs)
              * (D(s).estimate + Max({calls[s].output, world.minOutput}) * calls[s].n),
   scopes |-> shared_scopes(world.budgets, WorkspaceIdOf(s), KeyOf(s), D(s).offline)]

NeedsReservation(s) ==
  world.redis /\ Prices.priced /\ world.budgets.active /\ ReservationOf(s).scopes # {}

Record(s) ==
  /\ At_(s, "record")
  /\ LET c == st[s].choice
         name == DeliveryName(c, D(s))
         ring == record(receipts, world.capacity, NewReceipt(s, c.model, D(s).scored.score, c.mode,
                              KeyOf(s), WorkspaceIdOf(s)))
         key == CacheKey(s, name)
     IN IF EarlyReply(s) # ""
        THEN /\ receipts' = ring
             /\ Ends(s, IF EarlyReply(s) = "decision_only" THEN decision_only_response(s) ELSE st[s],
                     EarlyReply(s))
        ELSE IF Cacheable(s) /\ key \in DOMAIN cache
        THEN /\ receipts' = update_delivery(update_cache(ring, s, "hit"), s, name, "on-device", "cache_hit")
             /\ Ends(s, [st[s] EXCEPT !.served = cache[key].served,
                                      !.head = [served_by |-> name] @@ @], "cached")
        ELSE /\ receipts' = ring
             /\ \E open \in SUBSET world.openable :
                  LET plan == delivery_plan(world, calls[s], c, D(s), open)
                  IN IF plan = <<>> THEN Ends(s, st[s], EmptyPlanRefusal(world, c, D(s)))
                     ELSE /\ Goes(s, [st[s] EXCEPT !.plan = plan, !.miss = Cacheable(s)],
                                  IF NeedsReservation(s) THEN "reserve" ELSE "admit")
                          /\ UNCHANGED tasks
  /\ NoRedis /\ UNCHANGED <<fixed, ledger, counts, cache, now, holdUntil, drops>>

-----------------------------------------------------------------------------
(* Budget reservation, admission and token reservation. *)

HeldIn(scope) ==
  MapThenSumSet(LAMBDA x : redis.reserved[x].amount,
    {x \in DOMAIN redis.reserved : \E e \in redis.reserved[x].scopes : e.scope = scope})

BudgetFits(s) ==
  \A e \in ReservationOf(s).scopes :
    e.blocks => At(redis.spend, e.scope, 0) + HeldIn(e.scope) + ReservationOf(s).amount <= e.limit

ReserveBudget(s) == [redis EXCEPT !.reserved = IF BudgetFits(s) THEN Put(@, s, ReservationOf(s)) ELSE @]

Unreserved(s) == [redis EXCEPT !.reserved = Restrict(@, DOMAIN @ \ {s})]

\* A failing Redis costs the reservation, not the request.
Reserve(s) ==
  /\ At_(s, "reserve")
  /\ \E ok \in BOOLEAN :
       /\ Redis(ReserveBudget(s), ok)
       /\ IF ok /\ ~BudgetFits(s) THEN Ends(s, st[s], "budget_blocked")
          ELSE Goes(s, [st[s] EXCEPT !.budget = ok], "admit") /\ UNCHANGED tasks
  /\ UNCHANGED <<fixed, receipts, ledger, counts, cache, now, holdUntil, drops>>

Full == Cardinality({x \in Slots : st[x].permit}) >= world.maxInFlight
FleetFull == Cardinality(redis.leases) >= world.maxInFlight

AfterAdmission(s) == IF A.active /\ token_limits_active(A, st[s].grant) THEN "tokens" ELSE "deliver"

Admit_(s) ==
  /\ At_(s, "admit") /\ ~Full
  /\ Goes(s, [st[s] EXCEPT !.permit = TRUE], IF world.redis THEN "lease" ELSE AfterAdmission(s))
  /\ NoRedis /\ UNCHANGED <<fixed, receipts, ledger, counts, cache, tasks, now, holdUntil, drops>>

\* The queue is full, or the wait in it too long.
Overloaded(s) ==
  /\ At_(s, "admit") /\ Full
  /\ Ends(s, st[s], "overloaded")
  /\ NoRedis /\ UNCHANGED <<fixed, receipts, ledger, counts, cache, now, holdUntil, drops>>

AcquireAdmission(s) == [redis EXCEPT !.leases = IF FleetFull THEN @ ELSE @ \cup {s}]

Lease(s) ==
  /\ At_(s, "lease")
  /\ \E ok \in BOOLEAN :
       /\ Redis(AcquireAdmission(s), ok)
       /\ IF ok /\ FleetFull THEN Ends(s, st[s], "overloaded")
          ELSE Goes(s, [st[s] EXCEPT !.lease = ok], AfterAdmission(s)) /\ UNCHANGED tasks
  /\ UNCHANGED <<fixed, receipts, ledger, counts, cache, now, holdUntil, drops>>

\* The body's bytes bound its tokens; without an output bound none is safe.
conservative_token_reservation(r) == r.bytes + r.output * r.n

SharedTokens(s) ==
  [redis EXCEPT !.counts =
     reserve_tokens(A, @, st[s].grant, conservative_token_reservation(calls[s])).counts]

Tokens(s) ==
  /\ At_(s, "tokens")
  /\ IF calls[s].output = 0
     THEN Ends(s, st[s], "token_bound_required") /\ NoRedis /\ UNCHANGED counts
     ELSE \E ok \in (IF world.redis THEN BOOLEAN ELSE {TRUE}) :
       LET shared == world.redis /\ ok
           t == reserve_tokens(A, IF shared THEN redis.counts ELSE counts, st[s].grant,
                               conservative_token_reservation(calls[s]))
       IN /\ Redis(IF world.redis THEN SharedTokens(s) ELSE redis, ok)
          /\ counts' = IF shared THEN counts ELSE t.counts
          /\ IF ~t.allowed THEN Ends(s, st[s], "rate_limited")
             ELSE /\ Goes(s, [st[s] EXCEPT !.reserved = IF shared THEN "shared" ELSE "local"],
                          "deliver")
                  /\ UNCHANGED tasks
  /\ UNCHANGED <<fixed, receipts, ledger, cache, now, holdUntil, drops>>

-----------------------------------------------------------------------------
(* Delivery.  The k-th model of the plan answers, those before it failed. *)

Attempted(s, k) == {st[s].plan[i] : i \in 1 .. k}

Unreported == [prompt |-> -1, completion |-> -1, total |-> -1]

Answered(s, k, usage) ==
  LET tokens == usage_tokens(usage, D(s).estimate, world.completion)
  IN [st[s] EXCEPT !.served = st[s].plan[k], !.tried = Attempted(s, k),
                   !.tokens = tokens.tokens, !.estimated = tokens.estimated \/ calls[s].stream]

OutcomeReceipt(s, model, outcome) ==
  update_delivery(receipts, s, model, model_execution_boundary(world.models[model]), outcome)

\* A status below 400.  A redirect is returned, not followed: its receipt
\* says failed, and it is charged like a success.
Delivered(s) ==
  /\ At_(s, "deliver") /\ ~calls[s].stream
  /\ \E k \in 1 .. Len(st[s].plan), usage \in world.usages, status \in {"2xx", "3xx"} :
       /\ Goes(s, [Answered(s, k, usage) EXCEPT !.status = status], "charge")
       /\ receipts' = OutcomeReceipt(s, st[s].plan[k], IF status = "2xx" THEN "succeeded" ELSE "failed")
  /\ NoRedis /\ UNCHANGED <<fixed, ledger, counts, cache, tasks, now, holdUntil, drops>>

\* An upstream status that is not retried: no charge, an error for the
\* canary.  A buffered answer gives its budget back before the canary's
\* outcome is awaited.
DeliveredError(s) ==
  /\ At_(s, "deliver")
  /\ \E k \in 1 .. Len(st[s].plan) :
       LET q == [st[s] EXCEPT !.served = st[s].plan[k], !.tried = Attempted(s, k), !.status = "4xx"]
       IN /\ receipts' = OutcomeReceipt(s, st[s].plan[k], "failed")
          /\ IF q.guard /\ ~calls[s].stream
             THEN /\ Goes(s, [q EXCEPT !.guard = FALSE, !.budget = FALSE], "c_record")
                  /\ tasks' = tasks \cup (IF q.budget THEN {Task("release_budget", s)} ELSE {})
             ELSE Ends(s, q, "upstream_status")
  /\ NoRedis /\ UNCHANGED <<fixed, ledger, counts, cache, now, holdUntil, drops>>

\* Nothing answers, or an error no other model would cure: the receipt of a
\* buffered request is left as it is.
NotDelivered(s) ==
  /\ At_(s, "deliver") /\ ~calls[s].stream
  /\ Ends(s, [st[s] EXCEPT !.tried = Attempted(s, Len(st[s].plan))], "upstream_error")
  /\ NoRedis /\ UNCHANGED <<fixed, receipts, ledger, counts, cache, now, holdUntil, drops>>

\* A stream that ran out of models writes its receipt; a fatal error does not.
NotEstablished(s) ==
  /\ At_(s, "deliver") /\ calls[s].stream
  /\ \E exhausted \in BOOLEAN :
       receipts' = IF exhausted THEN update_outcome(receipts, s, "failed") ELSE receipts
  /\ Ends(s, [st[s] EXCEPT !.tried = Attempted(s, Len(st[s].plan))], "upstream_error")
  /\ NoRedis /\ UNCHANGED <<fixed, ledger, counts, cache, now, holdUntil, drops>>

Established(s) ==
  /\ At_(s, "deliver") /\ calls[s].stream
  /\ \E k \in 1 .. Len(st[s].plan) :
       /\ Goes(s, inject_debug_decision(s, [Answered(s, k, Unreported) EXCEPT !.status = "2xx"]), "relay")
       /\ receipts' = OutcomeReceipt(s, st[s].plan[k], "streaming")
  /\ NoRedis /\ UNCHANGED <<fixed, ledger, counts, cache, tasks, now, holdUntil, drops>>

StreamEnds(s) ==
  /\ At_(s, "relay")
  /\ Goes(s, st[s], "charge")
  /\ NoRedis
  /\ UNCHANGED <<fixed, receipts, ledger, counts, cache, tasks, now, holdUntil, drops>>

StreamFails(s) ==
  /\ At_(s, "relay")
  /\ receipts' = update_outcome(receipts, s, "failed")
  /\ Ends(s, st[s], "stream_failed")
  /\ NoRedis /\ UNCHANGED <<fixed, ledger, counts, cache, now, holdUntil, drops>>

-----------------------------------------------------------------------------
(* Accounting (record_accounted_usage) and the answer. *)

CostOf(s) == turn_cost(st[s].served, st[s].tokens, Prices.costs, st[s].estimated)

\* The process's ledger, saved before anything is awaited.
Charge_(s) ==
  /\ At_(s, "charge")
  /\ ledger' = record_attributed(ledger, CostOf(s), world.today, KeyOf(s), WorkspaceIdOf(s), world.max_days)
  /\ Goes(s, st[s], IF world.redis THEN "record_cost" ELSE "usage")
  /\ NoRedis /\ UNCHANGED <<fixed, receipts, counts, cache, tasks, now, holdUntil, drops>>

\* Counted once per request id, in every scope.
RecordCost(s) ==
  IF s \in redis.counted THEN redis
  ELSE [redis EXCEPT !.counted = @ \cup {s},
         !.spend = [x \in DOMAIN @ \cup SpendScopes(s, st[s].served) |->
                      At(redis.spend, x, 0)
                      + IF x \in SpendScopes(s, st[s].served) THEN CostOf(s).realized ELSE 0]]

ShareCost(s) ==
  /\ At_(s, "record_cost")
  /\ \E ok \in BOOLEAN : Redis(RecordCost(s), ok)
  /\ Goes(s, st[s], IF st[s].budget THEN "settle" ELSE "usage")
  /\ UNCHANGED <<fixed, receipts, ledger, counts, cache, tasks, now, holdUntil, drops>>

\* A mutant: the reservation is marked settled and stays in Redis.
BUG_Settle(s) ==
  /\ At_(s, "settle")
  /\ Goes(s, [st[s] EXCEPT !.budget = FALSE], "usage")
  /\ NoRedis
  /\ UNCHANGED <<fixed, receipts, ledger, counts, cache, tasks, now, holdUntil, drops>>

Settle(s) ==
  /\ At_(s, "settle")
  /\ \E ok \in BOOLEAN : Redis(Unreserved(s), ok)
  /\ Goes(s, [st[s] EXCEPT !.budget = FALSE], "usage")
  /\ UNCHANGED <<fixed, receipts, ledger, counts, cache, tasks, now, holdUntil, drops>>

Reconciled(s, c) ==
  reconcile_tokens(A, c, st[s].grant, conservative_token_reservation(calls[s]), st[s].tokens)

Corrects(s) == st[s].reserved # "" /\ ~st[s].estimated
AddsTokens(s) == A.active /\ st[s].reserved = ""

\* The calls to Redis that tell it the tokens of a turn: what they leave
\* when all arrive, and when one fails.
UsageShared(s) == (Corrects(s) /\ st[s].reserved = "shared") \/ (AddsTokens(s) /\ world.redis)
UsageEffect(s) ==
  IF ~UsageShared(s) THEN redis
  ELSE WithCounts(IF Corrects(s) THEN Reconciled(s, redis.counts)
                  ELSE add_shared_tokens(A, redis.counts, st[s].grant, st[s].tokens))
PartialUsage(s) ==
  IF ~UsageShared(s) \/ Corrects(s) THEN {}
  ELSE {WithCounts(c) : c \in shared_add_tokens(A, redis.counts, st[s].grant, st[s].tokens)}

\* A reservation is corrected when the provider reported its usage, and an
\* estimate keeps it; without one the tokens are added.  A failing
\* correction ends the accounting early, a failing addition does not.
Usage_(s) ==
  /\ At_(s, "usage")
  /\ \E ok \in (IF UsageShared(s) THEN BOOLEAN ELSE {TRUE}) :
          LET accounted == ok \/ ~Corrects(s)
              q == [st[s] EXCEPT !.accounted = accounted, !.guard = FALSE]
          IN /\ RedisCalls(UsageEffect(s), PartialUsage(s), ok)
             /\ counts' = IF Corrects(s) /\ ~UsageShared(s) THEN Reconciled(s, counts)
                          ELSE IF AddsTokens(s)
                          THEN add_tokens(A, counts, st[s].grant, st[s].tokens) ELSE counts
             /\ receipts' = IF accounted THEN update_cost(receipts, s, CostOf(s).realized) ELSE receipts
             /\ Goes(s, q, IF st[s].guard THEN "c_record" ELSE "answer")
  /\ UNCHANGED <<fixed, ledger, cache, tasks, now, holdUntil, drops>>

\* A buffered answer names the model that served it, and says when that is
\* not the chosen one.
AnswerHeaders(s) ==
  LET q == st[s]
      more == [served_by |-> q.served, failover |-> q.served # q.choice.model /\ ~D(s).offline]
  IN IF calls[s].stream THEN q ELSE inject_debug_decision(s, [q EXCEPT !.head = more @@ @])

\* A complete buffered answer is kept; a stream's receipt is closed.
Answer(s) ==
  /\ At_(s, "answer")
  /\ LET keep == st[s].miss /\ st[s].accounted /\ st[s].status = "2xx"
                 /\ world.models[st[s].served].provider # "codex"
     IN \E storable \in BOOLEAN :
          cache' = IF keep /\ storable
                   THEN Put(cache, CacheKey(s, st[s].served), [served |-> st[s].served])
                   ELSE cache
  /\ receipts' = IF calls[s].stream THEN update_outcome(receipts, s, "succeeded") ELSE receipts
  /\ Ends(s, AnswerHeaders(s), IF st[s].status = "2xx" THEN "served" ELSE "upstream_status")
  /\ NoRedis /\ UNCHANGED <<fixed, ledger, counts, now, holdUntil, drops>>

-----------------------------------------------------------------------------
(* The canary's outcome (record_canary_outcome): three calls, awaited by   *)
(* the request or by the task its dropped guard left behind.               *)

Observation(s, succeeded, latency) ==
  LET Cost(route) == IF st[s].accounted
                     THEN turn_cost(route, st[s].tokens, Prices.costs, FALSE).realized ELSE -1
  IN [id |-> s, succeeded |-> succeeded, latency |-> latency,
      realized |-> Cost(st[s].served), baseline |-> Cost(st[s].baseline)]

Observed(s, succeeded, latency) ==
  WithCanary(record_canary(redis.canary, Observation(s, succeeded, latency),
                           world.canary.window, now))

Snapshot == canary_snapshot(redis.canary, world.canary.window, now)

Tripped(reason) == WithCanary(trip_canary(redis.canary, reason, world.canary.hold, now))

\* A failing record is ignored.
CanaryRecord(s) ==
  /\ At_(s, "c_record")
  /\ \E ok \in BOOLEAN, latency \in world.canary.latencies :
       Redis(Observed(s, st[s].status = "2xx", latency), ok)
  /\ Goes(s, st[s], "c_snapshot")
  /\ UNCHANGED <<fixed, receipts, ledger, counts, cache, tasks, now, holdUntil, drops>>

CanaryCheck(s) ==
  /\ At_(s, "c_snapshot")
  /\ \E ok \in BOOLEAN :
       LET reason == IF ok THEN tripwire(world.canary, Snapshot.hash) ELSE ""
       IN /\ Redis(WithCanary(Snapshot), ok)
          /\ Goes(s, [st[s] EXCEPT !.reason = reason], IF reason = "" THEN "answer" ELSE "c_trip")
  /\ UNCHANGED <<fixed, receipts, ledger, counts, cache, tasks, now, holdUntil, drops>>

CanaryTrip(s) ==
  /\ At_(s, "c_trip")
  /\ \E ok \in BOOLEAN :
       /\ Redis(Tripped(st[s].reason), ok)
       /\ holdUntil' = IF ok THEN now + world.canary.hold ELSE holdUntil
  /\ Goes(s, st[s], "answer")
  /\ UNCHANGED <<fixed, receipts, ledger, counts, cache, tasks, now, drops>>

-----------------------------------------------------------------------------
(* Background tasks.  A release that fails is not repeated.                *)

Becomes(t, next) == tasks' = (tasks \ {t}) \cup next

Release(t) ==
  /\ t.kind \in {"release_lease", "release_budget"}
  /\ \E ok \in BOOLEAN :
       Redis(IF t.kind = "release_lease" THEN [redis EXCEPT !.leases = @ \ {t.id}]
             ELSE Unreserved(t.id), ok)
  /\ Becomes(t, {}) /\ UNCHANGED holdUntil

BackgroundRecord(t) ==
  /\ t.kind = "c_record"
  /\ \E ok \in BOOLEAN, latency \in world.canary.latencies :
       Redis(WithCanary(record_canary(redis.canary,
               [id |-> t.id, succeeded |-> FALSE, latency |-> latency, realized |-> -1, baseline |-> -1],
               world.canary.window, now)), ok)
  /\ Becomes(t, {[t EXCEPT !.kind = "c_snapshot"]}) /\ UNCHANGED holdUntil

BackgroundCheck(t) ==
  /\ t.kind = "c_snapshot"
  /\ \E ok \in BOOLEAN :
       LET reason == IF ok THEN tripwire(world.canary, Snapshot.hash) ELSE ""
       IN /\ Redis(WithCanary(Snapshot), ok)
          /\ Becomes(t, IF reason = "" THEN {} ELSE {[t EXCEPT !.kind = "c_trip", !.reason = reason]})
  /\ UNCHANGED holdUntil

BackgroundTrip(t) ==
  /\ t.kind = "c_trip"
  /\ \E ok \in BOOLEAN :
       /\ Redis(Tripped(t.reason), ok)
       /\ holdUntil' = IF ok THEN now + world.canary.hold ELSE holdUntil
  /\ Becomes(t, {})

Background ==
  /\ \E t \in tasks : Release(t) \/ BackgroundRecord(t) \/ BackgroundCheck(t) \/ BackgroundTrip(t)
  /\ UNCHANGED <<fixed, st, receipts, ledger, counts, cache, now, drops>>

-----------------------------------------------------------------------------
(* Clients that go away, labels, time.                                     *)

\* Where the handler, or the body of a stream, waits.
Awaits(s) ==
  \/ st[s].pc \in {"auth", "snapshot", "expose", "reserve", "lease", "deliver", "relay",
                   "record_cost", "settle", "c_record", "c_snapshot", "c_trip"}
  \/ At_(s, "arrive") /\ A.active /\ world.redis /\ BodyRefusal(calls[s]) = ""
  \/ At_(s, "decide") /\ Budgeted /\ world.redis /\ ~BadOverride(world, calls[s])
  \/ At_(s, "headers") /\ A.active /\ world.redis
  \/ At_(s, "admit") /\ Full
  \/ At_(s, "tokens") /\ world.redis /\ calls[s].output # 0
  \/ At_(s, "charge") /\ calls[s].stream
  \/ At_(s, "usage") /\ UsageShared(s)

\* What the pending call does to Redis if it still arrives.
Pending(s) ==
  CASE At_(s, "arrive") -> {WithCounts(admit_global(A, redis.counts).counts)}
    [] At_(s, "auth") -> PartialKeyStage(s)
    [] At_(s, "snapshot") \/ At_(s, "c_snapshot") -> {WithCanary(Snapshot)}
    [] At_(s, "expose") ->
         {IF exposure_limited(redis.canary, world.canary.max_requests, world.canary.window, now)
          THEN redis ELSE WithCanary(admit_exposure(redis.canary, world.canary.window, now))}
    [] At_(s, "reserve") -> {ReserveBudget(s)}
    [] At_(s, "lease") -> {AcquireAdmission(s)}
    [] At_(s, "tokens") -> {SharedTokens(s)}
    [] At_(s, "record_cost") -> {RecordCost(s)}
    [] At_(s, "settle") -> {Unreserved(s)}
    [] At_(s, "usage") -> {UsageEffect(s)} \cup PartialUsage(s)
    [] At_(s, "c_record") -> {Observed(s, st[s].status = "2xx", l) : l \in world.canary.latencies}
    [] At_(s, "c_trip") -> {Tripped(st[s].reason)}
    [] OTHER -> {redis}

\* A mutant: a stream that has ended is cancelled all the same.
BUG_Cancelled(s) == calls[s].stream /\ st[s].status # ""

\* The body of a stream is dropped before it recorded how it went.
Cancelled(s) == At_(s, "relay")

\* The future is dropped.  Only a stream that is being relayed notes it; a
\* settlement under way has taken the reservation out of its guard.
Drop(s) ==
  /\ faults + drops < world.mishaps /\ Awaits(s)
  /\ redis' \in {redis} \cup Pending(s)
  /\ receipts' = IF Cancelled(s) THEN update_outcome(receipts, s, "cancelled") ELSE receipts
  /\ LET q == [st[s] EXCEPT !.at = st[s].pc, !.budget = @ /\ ~At_(s, "settle")]
     IN Ends(s, q, "gone")
  /\ drops' = drops + 1
  /\ UNCHANGED <<fixed, ledger, counts, cache, now, holdUntil, faults>>

\* POST /v1/outcomes, by whoever knows the request id and a workspace.
Label(s) ==
  /\ \E ws \in DOMAIN A.workspaces, label \in world.labels :
       /\ label_error(receipts, s, ws) = ""
       /\ receipts' = label_user_outcome(receipts, s, ws, label)
  /\ NoRedis
  /\ UNCHANGED <<fixed, st, ledger, counts, cache, tasks, now, holdUntil, drops>>

Tick ==
  /\ now < world.ticks
  /\ now' = now + 1
  /\ UNCHANGED <<fixed, st, receipts, ledger, counts, cache, redis, tasks, holdUntil, faults, drops>>

Next ==
  \/ \E s \in Slots :
       \/ Refuse(s) \/ PreflightLocal(s) \/ PreflightGlobal(s) \/ PreflightKey(s)
       \/ RefuseOverride(s) \/ Decide(s) \/ CanarySnapshot(s) \/ CanaryExpose(s)
       \/ Headers(s) \/ Record(s) \/ Reserve(s)
       \/ Admit_(s) \/ Overloaded(s) \/ Lease(s) \/ Tokens(s)
       \/ Delivered(s) \/ DeliveredError(s) \/ NotDelivered(s) \/ NotEstablished(s)
       \/ Established(s) \/ StreamEnds(s) \/ StreamFails(s)
       \/ Charge_(s) \/ ShareCost(s) \/ Settle(s) \/ Usage_(s) \/ Answer(s)
       \/ CanaryRecord(s) \/ CanaryCheck(s) \/ CanaryTrip(s)
       \/ Drop(s) \/ Label(s)
  \/ Background
  \/ Tick

Spec == Init /\ [][Next]_vars

-----------------------------------------------------------------------------
(* GET /v1/models.                                                         *)

\* The automatic choices, then the models a caller may name.
openai_model_list(w, allowed) ==
  {"auto"}
  \cup (IF supports_tier_directives(w.routing) THEN {"prefer-low", "prefer-high"} ELSE {})
  \cup {m \in DOMAIN w.models : allowed = <<>> \/ m \in ToSet(allowed)}

\* With keys, the list is the caller's own.
authenticated_openai_models(w, authorization) ==
  LET grant == authenticate(w.access, authorization)
  IN IF grant = Unauthorized THEN {} ELSE openai_model_list(w, allowed_models(w.access, grant))

ModelsShownTo(w, r) ==
  IF w.access.active THEN authenticated_openai_models(w, r.authorization)
  ELSE openai_model_list(w, <<>>)

-----------------------------------------------------------------------------
(* Properties.                                                             *)

\* The pins of a request: what it may be sent to if nothing overrides it.
AskedFor(w, r) ==
  LET field == r.model
  IN CASE field.kind = "model" /\ field.name \in DOMAIN w.models \ {"prefer-low", "prefer-high"} ->
            {field.name}
       [] field.kind = "preset" /\ field.name \in DOMAIN w.routes -> ToSet(w.routes[field.name])
       [] OTHER -> DOMAIN w.models

\* May request r, which has come as far as q, be answered by model m?
Permitted(w, r, q, m) ==
  LET boundary == model_execution_boundary(w.models[m])
  IN /\ m \in DOMAIN w.models
     /\ m \in ModelsShownTo(w, r)
     /\ w.offline \/ r.offline \/ r.posture = "on-device-only" => boundary = "on-device"
     /\ r.posture = "local-devices" => boundary # "hosted"
     /\ w.models[m].window # 0 => q.facts.estimate <= w.models[m].window
     /\ m \in AskedFor(w, r) \/ q.choice.mode \in {"budget-degraded", "key-scoped"}

\* Whatever selected it (the score, a pin, a preset, a soft budget, the
\* key's clamp, the canary, failover) and whoever first asked (the cache),
\* the model behind an answer is one this caller is shown as its own in
\* GET /v1/models, inside the privacy boundary of this request and large
\* enough for it; and a request that named its model or preset goes nowhere
\* else, unless its budget is exhausted or its key does not allow it
\* (chat_completions, lib.rs).
ServedIsPermitted ==
  \A s \in DOMAIN calls :
    \A m \in st[s].tried \cup ({st[s].served} \ {""}) : Permitted(world, calls[s], st[s], m)

\* The requests whose turn is in the ledger.
Charged ==
  {s \in DOMAIN calls :
     /\ st[s].status \in {"2xx", "3xx"} /\ st[s].reply # "stream_failed"
     /\ st[s].pc \notin {"relay", "charge"} /\ st[s].at \notin {"relay", "charge"}}

Realized(S) == MapThenSumSet(LAMBDA s : CostOf(s).realized, S)

Healthy == faults + drops = 0
Quiet == tasks = {} /\ \A s \in Slots : st[s].pc = "done"

\* Did the canary's outcome for s count as a success?
CanarySucceeded(s) ==
  /\ st[s].status = "2xx" /\ st[s].reply # "stream_failed"
  /\ st[s].at \notin {"relay", "charge", "record_cost", "settle", "usage"}

\* Every turn that was answered is in the process's ledger once; the fleet's
\* ledger never holds a turn the process's ledger does not, and holds all of
\* them when no call failed and nobody left.
TurnsChargedOnce ==
  /\ At(ledger, world.today, EmptyBucket).total.n = Cardinality(Charged)
  /\ redis.counted \subseteq Charged
  /\ world.redis /\ Healthy /\ Quiet => redis.counted = Charged

\* The sums are those of these turns: the total, by key, by workspace and in
\* every scope of the fleet.
SumsAgree ==
  LET b == At(ledger, world.today, EmptyBucket)
  IN /\ b.total.realized = Realized(Charged)
     /\ \A k \in {KeyOf(s) : s \in Charged} \ {Nobody} :
          b.by_key[k].realized = Realized({s \in Charged : KeyOf(s) = k})
     /\ \A w \in {WorkspaceIdOf(s) : s \in Charged} \ {Nobody} :
          b.by_workspace[w].total.realized = Realized({s \in Charged : WorkspaceIdOf(s) = w})
     /\ \A x \in DOMAIN redis.spend :
          redis.spend[x] = Realized({s \in redis.counted : x \in SpendScopes(s, st[s].served)})

\* A canary request is one outcome of its window, an error exactly when it
\* did not end well.  The end of a hold forgets what its window counted.
CanaryCounted ==
  LET hash == redis.canary.hash
  IN /\ hash.window = now \div world.canary.window =>
          /\ hash.requests = Cardinality(redis.canary.seen)
          /\ hash.errors = Cardinality({s \in redis.canary.seen : ~CanarySucceeded(s)})
     /\ Healthy /\ Quiet /\ now < world.canary.window /\ now < world.canary.hold =>
          redis.canary.seen = {s \in DOMAIN calls : st[s].canary}

\* Every turn that was answered is charged once, to its key and to its
\* workspace as to the total; the fleet's ledger never holds a turn the
\* process's ledger does not, and holds all of them when no call failed and
\* nobody left; a canary request is one outcome of its window, an error
\* exactly when it did not end well (record_accounted_usage,
\* record_canary_outcome, lib.rs:6194, lib.rs:293).
BooksAgree == TurnsChargedOnce /\ SumsAgree /\ CanaryCounted

Awaited(kind, s) == \E t \in tasks : t.kind = kind /\ t.id = s

\* As long as no call to Redis has failed and no client has left during one, an
\* admission lease or a budget reservation in Redis belongs to a request that
\* holds its guard, to a release that is under way or to the call that takes or
\* settles it.  No permit outlives its request (SharedAdmissionLease,
\* SharedBudgetLease and their Drop, lib.rs:4071-4130).
NothingLeaks ==
  /\ \A s \in redis.leases :
       st[s].lease \/ Awaited("release_lease", s) \/ st[s].at = "lease" \/ faults > 0
  /\ \A s \in DOMAIN redis.reserved :
       st[s].budget \/ Awaited("release_budget", s) \/ st[s].at \in {"reserve", "settle"}
       \/ faults > 0
  /\ \A s \in Slots : st[s].pc = "done" => ~st[s].permit
  /\ Cardinality({s \in Slots : st[s].permit}) <= world.maxInFlight

\* What a finished request's receipt may say, by how the request ended.
TrueOutcomes(s) ==
  LET q == st[s]
  IN CASE q.reply = "served" -> {"succeeded"}
       [] q.reply = "cached" -> {"cache_hit"}
       [] q.reply \in {"upstream_status", "stream_failed"} -> {"failed"}
       [] q.reply = "upstream_error" -> IF calls[s].stream THEN {"", "failed"} ELSE {""}
       [] q.reply = "gone" /\ q.at = "relay" -> {"cancelled"}
       [] q.reply = "gone" /\ calls[s].stream -> {"", "streaming"}
       [] q.reply = "gone" /\ q.status = "2xx" -> {"succeeded"}
       [] q.reply = "gone" /\ q.status # "" -> {"failed"}
       [] OTHER -> {""}

Distance(a, b) == IF a < b THEN b - a ELSE a - b

\* A decision that is shown explains its score, feature by feature, to
\* within the rounding of its parts, never costs more than the baseline, and
\* quotes a priced model at the rate its turn is charged at.
QuoteIsTrue(s) ==
  LET q == st[s]
      parts == SumOver(LAMBDA f : q.quote.contributions[f])
  IN /\ Distance(100 * q.quote.score, parts) <= 56
     /\ q.quote.cost.saved >= 0
     /\ s \in Charged /\ q.served = q.choice.model /\ q.served \in DOMAIN Known(ModelCosts(world.models))
          => q.quote.cost.per_call * q.tokens = CostOf(s).realized * q.quote.words

\* The headers of an answer: a request that was admitted is one of those
\* its limits have counted, and an answer from another model says so.
HeadersAreTrue(s) ==
  LET q == st[s]
  IN /\ Healthy => \A l \in ToSet(AllLimits(A, q.grant)) :
                     l.limit.rpm > 0 => q.head.remaining \in 0 .. l.limit.rpm - 1
     /\ q.reply = "served" /\ ~calls[s].stream =>
          /\ q.head.served_by \in q.tried
          /\ ~q.head.failover /\ ~q.head.offline => q.head.served_by = q.head.model

\* The tier policy an operator is shown for a workspace keeps hosted what is
\* hosted, and moves there every scored prompt that a local model was chosen
\* for, did answer, and answered badly; it is proposed only where there is one.
ProposalIsSound(w) ==
  LET routing == BaseRouting(world, w)
      p == propose_local_threshold(w, routing, world.models, receipts)
      Local(m) == m # "" /\ model_execution_boundary(world.models[m]) # "hosted"
      wrong == {e \in ToSet(entries_for_workspace(receipts, w)) :
                  /\ e.label \in {"correction", "failure"} /\ e.mode = "scored"
                  /\ e.model = routing.tiers[1].model
                  /\ st[e.id].reply = "cached" \/ Local(st[e.id].served)}
      Hosted(tiers) == {x \in 0 .. 100 : recommend_tier(x, tiers) = routing.tiers[2].model}
  IN /\ p.disposition = "propose-narrower-local-range" =>
          /\ Hosted(routing.tiers) \subseteq Hosted(p.tiers)
          /\ {e.score : e \in wrong} \subseteq Hosted(p.tiers)
          /\ wrong # {}
     /\ p.disposition # "unsupported-policy" => FoldFunction(+, 0, p.evidence) = p.labelled

\* The value report of a workspace: its turns and their cost are those the
\* ledger was charged, nothing saved is negative, and no rate exceeds the whole.
ValueIsTrue(w) ==
  LET v == ProjectValueReport(period_for_workspace(ledger, w, 30, world.today),
                              report_for_workspace(receipts, w), Prices.costs)
      mine == {s \in Charged : WorkspaceIdOf(s) = w}
  IN /\ v.accounting.total.n = Cardinality(mine)
     /\ v.accounting.total.realized = Realized(mine) /\ v.accounting.saved >= 0
     /\ Summed(v.accounting.by_route, DOMAIN v.accounting.by_route, LAMBDA x : x) = v.accounting.total
     /\ v.coverage_pct <= 1000 /\ v.correction_rate_pct + v.failure_rate_pct <= 1001
     /\ mine # {} => v.accounting.total.baseline = v.baseline.rate * v.accounting.total.tokens

\* The receipt ring holds at most its capacity, one receipt per request,
\* and a receipt tells how its request ended: its outcome, the model that
\* was tried last, its cost; only a settled one is labelled.  The report of
\* a workspace splits its receipts without remainder (recent.rs).  What the
\* answer's headers and the decision in its body say agrees with the receipt
\* and with the charge (lib.rs:3322-3428, 6427-6506).  What is reported from
\* receipts and ledger, the value of a workspace and a policy proposed for it,
\* is what happened to its requests (project_value.rs, outcome_policy.rs).
ReceiptTellsFate ==
  /\ \A s \in DOMAIN calls : st[s].quote # NoMap => QuoteIsTrue(s)
  /\ \A s \in DOMAIN calls : st[s].head # NoMap => HeadersAreTrue(s)
  /\ Len(receipts) <= world.capacity
  /\ \A i, j \in 1 .. Len(receipts) : receipts[i].id = receipts[j].id => i = j
  /\ \A i \in 1 .. Len(receipts) :
       LET e == receipts[i]
           q == st[e.id]
       IN /\ q.pc = "done" => e.outcome \in TrueOutcomes(e.id)
          /\ e.cost # 0 => e.id \in Charged /\ e.cost = CostOf(e.id).realized
          /\ e.id \in Charged /\ q.pc = "done" /\ q.accounted => e.cost = CostOf(e.id).realized
          /\ e.served_by # "" /\ q.reply # "cached" => e.served_by = q.served
          /\ e.label # "" => e.outcome \in TerminalOutcomes
          /\ e.model = q.head.model /\ e.mode = q.head.mode
          /\ q.reply \in {"served", "cached"} /\ ~calls[e.id].stream => e.served_by = q.head.served_by
          /\ e.workspace = WorkspaceIdOf(e.id) /\ e.key = KeyOf(e.id)
  /\ \A w \in DOMAIN A.workspaces :
       LET r == report_for_workspace(receipts, w)
       IN /\ r.terminal + r.in_progress + r.delivery_unobserved = r.retained
          /\ FoldFunction(+, 0, r.by_route) = r.retained
          /\ ProposalIsSound(w) /\ ValueIsTrue(w)

\* The conversation as it stood at its k-th message.
Earlier(r, k) == [r EXCEPT !.messages = SubSeq(@, 1, k)]

\* A sticky conversation without a cooldown never moves to a lower tier:
\* what a longer conversation is routed to ranks at least as high as what
\* each earlier turn of it was routed to (resolve_sticky and
\* conversation_high_water, decision_policy.rs:294, 432).  Stated where the
\* scored text is the turn itself.
StickyNeverDrops ==
  \A s \in DOMAIN calls :
    LET r == calls[s]
        d == D(s)
        Then(k) == Facts(world, Earlier(r, k), WorkspaceIdOf(s), AllowedOf(s))
        Rank(c) == tier_rank(c.model, d.routing.tiers)
    IN At_(s, "record") /\ st[s].choice.mode \in {"scored", "sticky"}
       /\ resolve_sticky(r.sticky, world.sticky) /\ ~HasClassifier(d.routing)
       /\ resolve_sticky_cooldown(r.cooldown, world.cooldown) = 0
       /\ (r.routeOn = "turn" \/ (r.routeOn = "absent" /\ world.routeOn = "turn"))
       => \A k \in OfRole(d.messages, "user") :
            Rank(ScoredChoice(world, Earlier(r, k), Then(k))) <= Rank(st[s].choice)

-----------------------------------------------------------------------------
(* What the documentation says and the code does not do.                   *)

\* A workspace whose spend has reached the limit of its blocking budget has
\* no further request accepted (docs/gateway-config.md on workspaces).
WorkspaceCapHolds ==
  [][\A s \in DOMAIN calls :
       LET w == WorkspaceIdOf(s)
           b == At(ledger, world.today, EmptyBucket)
           spending == At(b.by_workspace, w, EmptyWorkspace).total.realized
       IN At_(s, "decide") /\ st'[s].pc \in {"headers", "snapshot"}
          /\ w \in DOMAIN world.budgets.by_workspace
          /\ world.budgets.by_workspace[w].on_breach = "block" /\ ~(world.offline \/ calls[s].offline)
          => spending < world.budgets.by_workspace[w].limit]_vars

\* After a trip, new assignments stop for the whole rollback hold.
RollbackHolds ==
  now < holdUntil => Expired(redis.canary, now).hash.tripped # ""
=============================================================================
