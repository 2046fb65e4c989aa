# Wayfinder Router: TLA+ verification project

Wayfinder Router is an LLM gateway written in Rust. A request is scored by a
deterministic, keyless scorer, mapped to a logical model, and delivered to one
of the concrete deployments behind that model. Around this sit the parts that
make the gateway hard to get right: admission and queueing, rate limits and
token reservations, money budgets, circuit breakers, retries and failover,
response caches, translations between three client and three provider dialects,
a canary and shadow evidence, configuration that reloads while requests run, and
a Redis backend which shares much of that between replicas. This project models
those parts, checks them with TLC, and proves the central invariants of most of
them with TLAPS.

Paths below are relative to `src/`; `gateway/`, `cli/` and `providers/` stand for
`rust/crates/wayfinder-gateway/src/`, `rust/crates/wayfinder-cli/src/` and
`rust/crates/wayfinder-providers/src/`.

## 1. Inventory

### 1.1 Request path

`chat_completions` in `gateway/lib.rs` (and its Responses and Anthropic
variants) runs these stages for each request, as one Tokio task among many:

1. `preflight_access` authenticates the virtual key and takes a request slot in
   the fixed windows of every scope (global, workspace, key).
2. The prompt is scored (`wayfinder-routing-core`), a model is selected, pins,
   budget posture and key policy clamp it, and a canary may divert it.
3. A cacheable request is looked up in the response cache.
4. `delivery_plan` lists the targets whose circuits allow an attempt.
5. `reserve_shared_budget` reserves the worst-case cost in Redis.
6. `acquire_delivery` takes a local in-flight slot (or waits in the bounded
   queue) and then a fleet-wide lease.
7. `reserve_tokens` reserves estimated tokens in every rate-limit scope.
8. The buffered or the streaming delivery loop walks plan, deployments and
   retries, taking a circuit attempt per deployment; the answer travels through
   the provider's stream, the relay and the client's dialect.
9. Usage is accounted, budget is settled, tokens are reconciled, the canary
   outcome is recorded, the receipt is completed, and the response may be cached.

A client may disconnect at any `.await`; then the task is dropped and every
guard's `Drop` runs, some of them by spawning a background task.

Beside the requests run the reload task of `serve`, the audit worker, shadow
jobs, the Codex helper with its manager, the operator (editor, `config
apply-routing`, `calibrate`, guided setup, project commands, sign-in), and other
replicas on the same Redis.

### 1.2 Components

| component | state | operations | hard behaviour | module |
| --- | --- | --- | --- | --- |
| circuit breaker (`providers/reliability.rs`, `gateway/reliability.rs`) | failures, opened_at, half_open per target | begin, complete, drop | clock read before the mutex, late results, dropped probes | CircuitBreaker |
| deployment selection (`gateway/deployment_selection.rs`) | bounded samples, cursors | observe, select, rotate | stale and sparse signals | Deployments |
| delivery loops (`gateway/lib.rs`) | position in plan, pool and tries | buffered and streaming loop | retry, failover, cancellation, ownership of guards | Delivery |
| fleet health (`gateway/state.rs` scripts, `SharedHealthGuard`) | one Redis hash per target | begin, complete, release | key expiry, lost and late calls, crashes | FleetHealth |
| admission (`gateway/admission.rs`, `acquire_delivery`) | two semaphores, fleet lease set | acquire, wait, time out, drop | queue limit, timeout against a late permit, lease expiry | Admission, SlotPool |
| rate limits (`gateway/rate_limit.rs`, `gateway/access.rs`) | window, requests, tokens per scope | admit, reserve, reconcile, roll back, add | window roll with stale clocks, multi-scope rollback | TokenLimit, Access |
| budgets (`gateway/budget.rs`, Redis scripts) | spend ledger, reservations | evaluate, reserve, settle, release | expiry against settle, crash between the two | SharedBudget |
| state backends (`gateway/state.rs`) | counters in process or in Redis | every limit and canary call | one policy, two implementations | StateBackend |
| response caches (`gateway/cache.rs`, Redis scripts) | LRU map and byte count; values, index, sizes | get, put, clear, reconfigure | two bounds, TTL behind the index, reload | ResponseCache |
| request path (`gateway/lib.rs`) | everything a request holds | the stages above | a dozen awaits, failing Redis, several callers | Gateway |
| decision policies (`gateway/decision_policy.rs`) | none | extract, select, clamp, plan | precedence, sticky cooldown | Decision |
| routing core (`wayfinder-routing-core`) | none | score, tiers, classifier, calibrate | rounding, ties | Routing |
| canary (`gateway/canary.rs`, Redis scripts) | counters per window, hold | assign, expose, record, trip | record, snapshot, trip are separate calls | Canary |
| receipts (`gateway/recent.rs`, `outcome_policy.rs`, `project_value.rs`) | bounded ring | record, enrich, label, report, propose | enrichment after eviction, confounded labels | Ledger |
| savings ledger (`wayfinder-service/pricing.rs`) | spend by day and scope | price, record, report | attribution, periods | Ledger |
| access (`gateway/access.rs`, `auth.rs`) | keys, workspaces | authenticate, admit | inheritance, canonical names | Access |
| operator login (`gateway/operator_auth.rs`) | key cache, refresh mutex | verify, refresh | revoked keys, dropped refreshes | OperatorAuth |
| shadow and evidence (`gateway/shadow.rs`, `evidence.rs`) | ring of records, labels | sample, compare, label, report | reload while a job runs | Shadow |
| reload and serve (`gateway/reload.rs`, `cli/lib.rs`) | last good snapshot, version | start, refresh, shut down | failed load or audit, version read before the text | ConfigReload |
| control plane (`gateway/control_plane.rs`) | active policy, history, runtimes | validate, activate, roll back | bounded history, failing audit | PolicyLifecycle, PolicyStack |
| audit log (`gateway/audit.rs`) | bounded queue, worker, two sinks | record, flush, shut down | overflow, partial sink failure, drain | AuditLog |
| dialects (`providers/sse.rs`, `anthropic.rs`, `anthropic_native.rs`, `gateway/responses.rs`, `delivery.rs`) | decoder and translators | translate requests, answers, streams | partial frames, interleaved calls, limits | MessagesDialect, ResponsesDialect, StreamRelay |
| Codex supervisor (`wayfinder-codex-app-server`, `cli/codex_app_server.rs`) | session, restarts, logins, turn | account, login, chat, shutdown | stale notifications, cancellation, restarts | CodexRuntime |
| configuration (`wayfinder-config`, `cli/config_command.rs`) | the file | parse, validate, dump, apply-routing | round trip, two writers | GatewayConfig, ConfigFile |
| guided setup (`cli/setup_command.rs`, `service_command.rs`) | journal, keyring, policy, unit | connect, activate, disconnect | interruption anywhere | GuidedSetup |
| host files (`pricing.rs`, `cli/project_command.rs`, `process.rs`) | ledger and last-good, project directories, private store | save, load, create, roll back, start | torn writes, crash between renames | HostFiles |

Not modelled: metrics and OpenTelemetry, the remaining commands of the command
line, the desktop, macOS, iOS and Omarchy clients, experiments and packaging.
`PROJECT.json` lists each with its reason.

### 1.3 What is hard

- **Concurrency.** Requests are Tokio tasks on several threads. Every mutex is
  held for one short critical section, but what goes into it (a clock reading, a
  snapshot, a decision) was computed before the lock, so it may be stale.
- **Disconnects.** A dropped request future runs the `Drop` of its guards and
  nothing else. State stored on behalf of a guard that does not exist yet, or
  that has already given up its content, is not released.
- **Redis.** Each script is atomic; the sequence of scripts a request runs is
  not. A call may fail before or after it took effect, and keys expire.
- **Replicas.** A worker may die between any two calls.
- **Several limits at once.** Budgets and rate limits exist per gateway,
  workspace and key, and are taken together or not at all.
- **Bounds.** Semaphores, queues, caches, rings and counters are used at their
  limit.
- **Files.** Ledger, projects, setup journal and configuration are changed by
  several processes, in steps a crash can separate.
- **Streams.** A transport cuts bytes anywhere; every translator has limits of
  its own and must still end its stream in a way its client can read.

`PROJECT.json` lists these hazards at their lines, with the properties that
cover them.

## 2. Plan

| # | work | state |
| --- | --- | --- |
| 1 | CircuitBreaker, Delivery, FleetHealth, Admission, SlotPool, SharedBudget, TokenLimit | modelled and proved |
| 2 | Deployments, StateBackend, ResponseCache, the request path (Gateway over Access, Decision, Routing, Ledger, Canary) | modelled; the backends' agreement, both response caches, and the request path's permissions, leases and counts of turns and canary requests proved |
| 3 | AuditLog, ConfigReload, PolicyLifecycle refining PolicyStack, composed in ControlPlane | modelled; audit, snapshots, policies, the shadow switch and the refinement of PolicyStack proved |
| 4 | MessagesDialect, ResponsesDialect, StreamRelay; CodexRuntime | modelled; the Codex session proved |
| 5 | GatewayConfig, ConfigFile, OperatorAuth, Shadow, GuidedSetup, HostFiles, calibration | modelled; GuidedSetup and HostFiles proved |
| 6 | further proofs: the parts of `ReceiptTellsFate` that are not folds (one receipt per request, its outcome, labels) | open |
| 7 | a reload that replaces limiters and breakers under held guards; the lifetimes of Redis ledger hashes | open |

Abstract specifications: the slot pool, which admission implements, and the
bounded stack of policies, which the policy lifecycle implements. For the state
backends each implementation is the other's specification.

## 3. Modules and code

The properties of each module are at its end; `MC*.tla` and `*.cfg` give the
constants their values; `*_proofs.tla` hold the theorems (those on CircuitBreaker are
in the module itself, those on FleetHealth in `Delivery_proofs`). Operators named `BUG_...` are plausible mistakes in the definition that follows them. They are
used by no specification: replacing the definition by one of them must make a
property fail, which shows that the property can see that mistake.

An action ends where the code awaits, releases a lock, or makes a file operation
that a crash could follow; everything the code does between two such points is
in one action.

**CircuitBreaker.** `failures`, `opened_at` and `half_open` are the three maps. A
begin and a record are two steps each, the clock reading (`ReadBeginClock`,
`Complete`) and the locked update (`BeginClosed`, `BeginHalfOpen`,
`BeginRefused`, `Record`). `DropAttempt` is `Drop`.

**Deployments.** A request takes its turn of the weighted rotation, lets the
strategy reorder it by recent samples, and tries the deployments in order.
Cursor, samples and clock are read in separate critical sections. A shadow
comparison takes a turn of the same rotation (`shadow_candidates`) and measures
nothing. Measurements are small integers with exact means.

**Delivery.** One request: how `chat_completions` builds the plan and how
`deliver_with_reliability` and `streaming_chat_response` walk it. `at` is the
await where the task stands; `attempt` is what the circuit of each deployment was
told. Breaker answers and upstream results are chosen freely, and `Cancel` drops
the task at any await.

**FleetHealth.** The hash that the three health scripts keep per target, and
`SharedHealthGuard`. Time is relative: what is left of the key's TTL and of the
open circuit. A claim on a *closed* target refuses a second attempt too;
`tests/redis_live.rs` pins that, so it is intended.

**Admission** models `AdmissionPolicy::acquire` step by step, `acquire_delivery`
and the fleet lease. The Tokio semaphore is external: FIFO, and a released permit
belongs to the oldest waiter before that waiter runs. **SlotPool** is what
admission promises. The mapping takes holders to be the requests with a permit
and the queue to be those waiting for one.

**SharedBudget.** The evaluation of `gateway/budget.rs`, the budget scripts,
`SharedBudgetLease` and `record_accounted_usage`. There is a ledger for every budget
and period: a reservation is dated when the request is admitted
(`gateway/lib.rs:4174`), its cost when it is accounted (`gateway/lib.rs:6218`), and
`NextDay` may lie in between. `placed` and `billed` are the
ledgers a request reserves in and is charged in.
`uncovered` is a history
variable: the requests the ledger did not cover all along, because Redis failed,
the reservation expired during the delivery, or the cost was never recorded.
`HardCap` speaks about the others, as far as they are charged in the period they
reserved in (`Covers`); section 7 has what a delivery across midnight does. It assumes that a delivery costs at most what
was reserved; the code reserves at the frontier rate for the requested output, or
1024 tokens if none was requested, so a longer output is outside the guarantee.

**TokenLimit.** `reserve_tokens`, `reconcile` and their rollback over the limiters
in process and the Redis scripts. Time is counted in windows. `strays` is a
history variable: requests whose lost or cancelled calls may have left tokens
behind.

**StateBackend.** Every limit and canary call is made to the in-process and the
Redis implementation side by side; a step returns both answers.

**ResponseCache.** The LRU of `gateway/cache.rs`, the three cache scripts, and the
part of `chat_completions` that looks up, delivers and stores. A key is the tuple
that the code hashes. Redis values expire on their own (`Expire`), which leaves
index and sizes behind.

**Gateway** is the whole chat handler for several concurrent requests of one
process on a shared Redis. It uses **Decision** (what text is scored, which model
body, slash directive, header, preset, sticky conversation or score selects, the
key's clamp, the plan), **Routing** (features, score, tiers, classifier,
eligibility), **Access** (keys, scopes, counters), **Ledger** (prices, cost,
periods, budgets; and the ring of receipts, labels, the workspace report, the value
report and the proposed threshold) and **Canary** (assignment, the scripts,
verdict). A Redis call succeeds, or fails before or after it took effect; a client
may leave at each await, and the pending call may or may not land; what a dropped
guard spawns is a task. Upstream attempts, queues, windows, expiring reservations
and relays are single steps here, and are the subject of the modules above.

**MessagesDialect, ResponsesDialect, StreamRelay.** The wire is
a sequence of bytes that are line ends or halves of payloads; the decoder is fed
chunks of any length. Text is a sequence of pieces; the arguments of a call are text
too, which is a JSON object, another JSON value or no JSON at all, so parsing it may
fail and a piece that is missing makes it unreadable. Tools have wire names, custom
tools have their input wrapped on the way out and unwrapped on the way back, calls
without a name are dropped and missing arguments defaulted where the code does so.
StreamRelay
puts a client dialect in front of a provider dialect: request translation,
buffered answer, and the pull chain of a stream in which one transport item
travels through all translators. `Meaning` operators define independently what a
client reads.

**CodexRuntime.** Callers run one operation at a time over a session behind a
mutex. The helper is external: it answers or not, exits, and sends notifications of
the current turn, of an older one, or others, and benign ones without bound. A client
may leave at every await. The pages of a model list are one request.

**AuditLog, ConfigReload, PolicyLifecycle, ControlPlane.** The queue, worker and
both sinks; the start, the reload task and the orderly end of `serve` with shadow
jobs that hold an old snapshot; activation and rollback with the audit event
written first. ControlPlane composes them: either the reload task or the policy
lifecycle installs snapshots. **PolicyStack** is the abstract stack.

**GatewayConfig, ConfigFile.** A document maps the path of a table to its fields,
whose values are classes ("absent", "bad", zero, rounded to zero, in range,
above every maximum). Reading, validating, writing and building are operators;
ConfigFile is the file with its editor, `config apply-routing` and the loader.

**OperatorAuth, Shadow, GuidedSetup, HostFiles.** The sign-in middleware with its
key cache; jobs, records, labels and verdict under reloads; the setup journal under
interruption at every write; the ledger, project directories and private store,
one file operation a step, with crashes and torn writes. The ledger's files have two
writers, the serving gateway and the load and save of every reload, which share the
temporary file and no lock.

## 4. Runs

A run may hold several parts that share no state in the code; its variable `part`
is then chosen at the start and the cells of the other parts stand still, so a
property that is guarded by the part is checked on all of that part's behaviours.
Where such a part is also proved about (`limits`, `operator`), the run's module
extends the component, so that run and theorem speak of the same definition.

| run | instance | distinct states | shows |
| --- | --- | --- | --- |
| `upstreams` | breaker: 3 attempts, 1 target, threshold 2, cooldown 1, clock to 2; selection: 2 clients under every strategy with 1 sample per deployment, 1 client under two of them with 2, 2 deployments weighted 2:1, shadow turns | 288,551 | probes start only after the real cooldown and their marks are cleared; no deployment within the ceiling is starved by the signals |
| `delivery` | 3 models with a pool of two, 1 retry, every request shape; circuit: 3 requests, threshold 2, cooldown 2, TTL 4 | 29,392 | every attempt is settled with what happened; requests end; a claim is given back and only its owner decides |
| `admission` | 4 requests, 2 slots, 1 queue place, lease TTL 2, Redis faults and crash | 46,616 | a running delivery loses its fleet lease only to time; refines SlotPool; everyone is answered; every lease ends |
| `limits` | 3 requests under 3 budgets, TTL 2; 2 of them over midnight; 3 requests under 2 token limits, 2 windows; 4 calls on both backends | 762,718 | hard cap, single return, no phantom charge, backends agree |
| `cache` | 2 requests, 2 partitions, 2 keyed models and a subscription, 3 generations, sizes 1 and 3 | 1,174,457 | bounds and counts of both caches; a replay belongs to its caller, model and configuration |
| `control_plane` | 3 edits, queue of 1, 1 fault, 4 policy mutations, history of 1 | 1,027,554 | the audit loses nothing accepted; what runs was audited; the active policy serves; refines PolicyStack; reloads settle |
| `streams` | conversations of up to 3 messages or 4 items, plain and custom tools, calls without a name or with unreadable arguments, chunks at every byte, every pair of dialects | 147,215 | the client reads the provider's answer; streams end readably; translated conversations stay valid |
| `codex` | 1 control client, a streaming and a buffered chat, 3 operations, 3 notifications | 481 thousand | an answer is whole; a session in the pool is quiet; operations end |
| `operator` | configuration: 2 files, 1 edit, 1 apply; sign-in; evidence; setup; ledger with 2 spends, 1 reload and 2 crashes; private store of 2 gateways; 876 calibrations | 579,287 | what runs is sound and an applied routing runs; evidence is earned; setup, ledger and store survive interruption; a revoked key expires |
| `gateway` | small worlds: one process, a fleet with budgets and a canary, offline, dry-run, learning from labels; single requests of every kind and pairs | 684,920 | permitted model, agreeing books, no leak, true receipts and reports, sticky conversations |

`delivery_stream` and `gateway_cap` end in a counterexample; section 7 says of what.

What the properties say, in the order of the runs:

- `ProbeAfterCooldown`: a probe mark is only on a target whose cooldown is really
  over, although begin and record work with timestamps read before the mutex.
  `ProbeMarkCleared`: every mark is cleared. `NoStarvation`: as long as requests
  keep coming and shadow comparisons do not go on for ever, every deployment within
  the price ceiling is tried again and again under every strategy but cost, because
  what speaks against it expires.
- `AttemptsSettledTruly`: however a request ends, no attempt is left held and the
  circuit heard what each deployment did. `EveryDeliveryEnds`. `OwnerDecides`: nobody
  else's late result changes a claimed circuit. `ClaimReturned`: whatever is lost, a
  claim is given back.
- `LeaseLostOnlyToTime`: neither another replica's purge, nor the expiry of the
  shared key, nor a late release takes the lease of a delivery that still runs within
  its TTL. `PoolSpec`, `AcquireResolves`, `LeaseFreed` as in the table.
- `HardCap`: covered online requests that are charged in the period they reserved in
  never spend more than a blocking budget allows that period.
  `ReservedCovers`: a reservation is given back at most once. `NoPhantomCharge`: a
  refused request leaves nothing in the limits it had passed. `BackendsAgree`: both
  backends admit, refuse, report and trip alike.
- `LocalCacheSound`: byte count and both bounds after every operation, nothing in a
  cache that is off. `SharedCacheSound`: the index covers the values, its size is
  bounded. `ReplayIsOwn`: a cached answer was produced for the same partition, route,
  body and generation, by the provider model of that name, never by a subscription.
- `AuditLosesNothing`: accepted events are stored or their failure is reported, by
  both sinks, through a shutdown. `InstalledIsAudited`, `ActivePolicyServes`,
  `LifecycleIsStack`; `ReloadSettles`: when edits stop, the process runs the file or
  its last good version.
- `AnswerPreserved`, `StreamEndsReadably`, `ConversationStaysValid` compare what the
  client reads, or the provider is sent, with an independent reading of the source.
  The first says of a stream that all of it is read, unless the relay records a failure,
  and of a buffered answer that it is what the stream would have said, but for calls
  without a name (Responses) and arguments that are no JSON (Messages gets `{}`); tools
  that share a wire name are excluded. Section 7 names the two refuted versions without
  these exceptions.
- `AnswerIsWhole`: no piece of another turn is in an answer and none is missing.
  `SlotIsQuiet`: the only turn that may run in a session given back is one whose
  identifier could not be read. `OperationsEnd`: control operations, cancelled chats
  and chats whose client has left end, though a turn may last for ever and a reader
  may never read.
- `RunningIsSound`: what runs resolves, and reads back from its own text.
  `AppliedRoutingRuns`: the routing `config apply-routing` applied is the one every later
  start or reload runs until the next edit, but for a threshold in the gateway's
  environment, and a file with plain headers that nobody edited since it was read loses
  nothing else. `EvidenceIsEarned`: the report says enforce only on enough decisive
  judgements of one configuration; a calibrated threshold has least loss of all
  thresholds. `SetupConsistent`: no interruption loses a secret, a policy or a
  verified state. `StartFindsWholeFiles`: after any crash the next start finds its
  files whole; for the ledger, unless a reload's save overlapped the gateway's and the
  gateway has not saved alone since. `RevokedKeyExpires`: a withdrawn key opens nothing beyond the cache's
  age and one fetch.
- `ServedIsPermitted`, `BooksAgree`, `NothingLeaks`, `ReceiptTellsFate`,
  `StickyNeverDrops`: stated in full above each in `Gateway`.

**Why the bounds are enough.** Three attempts on a target are a stale one, a probe
and a third that profits; targets do not interact. Four requests with two slots and
one queue place reach a full pool, a waiter, a full queue and a hand-over at once.
Three requests under two or three limits are a holder, a competitor for the tighter
limit and one for the shared limit; a TTL of 2 lets one reservation expire while
another is fresh; two windows are the old and the new one. Two cached requests and
three generations cover a store under a configuration that has been replaced twice.
A queue of one and a history of one are at their limit after one step. Three edits
are a good, a bad and a good one. Limits of the dialects are set just below what the
scripts reach, so both sides of each are met. One edit of a full configuration is
any change of one field, list or header. Pairs of requests in `gateway` are chosen
to meet: same key, same cache entry, same budget, same canary window.

Symmetry is declared where requests are interchangeable (`limits`: the second and
third request; `cache`: the requests) and only for runs without liveness. Deadlock is
checked in `upstreams`, `delivery`, `admission` and `cache`; the other runs
have finitely many requests, edits or operations and come to rest.

## 5. Fairness

- Breaker: weak fairness of the steps of a running attempt. A task that holds an
  attempt completes or drops it: provider calls have timeouts.
- Deployments: the clock and each request's own steps; requests keep coming is a
  premise of the property, not an assumption about the code. Nothing is assumed of
  shadow comparisons.
- Delivery: the request's own step; every await in the loop is a provider call, a
  Redis call or a sleep, each with a timeout.
- Fleet health: only the Redis clock is fair. No call need ever arrive.
- Admission: the runtime polls ready tasks, timers fire, Redis calls return or fail,
  time passes. Deliveries need *not* end, since streams may be endless, and
  background releases need not run.
- Control plane: the reload task and the audit worker take their steps.
- Codex: each caller's own progress (every request, lock and interrupt has a deadline)
  and, within a turn, only what is already there, the queue and a cancelled token: the
  idle timeout starts again with every notification (`lib.rs:603`), so the helper may
  draw a turn out for ever. Readers need not read.
- The other runs check safety only.

## 6. Proofs

All theorems hold for every value of the constants that satisfies the named
assumptions; `tlapm` checks every leaf.

**CircuitBreaker** (the proofs are in the module). Assumptions: the threshold is a natural number within
the counter, cooldown and time bound are natural. The inductive invariant is
`TypeOK`, `StampsInPast`, `ProbeMarkIsOwned`, `ProbeAfterCooldown` and
`OpenIffThreshold`. `StampsInPast` is the strengthening: a timestamp read before
the mutex is never ahead of the clock, so a cooldown that is over for the stale
reader is over. Ownership of marks rests on the lemma that a step which does not
touch an attempt keeps it among the probers. Plan and begin agree because a
marked target is open.

**FleetHealth** (in `Delivery_proofs`). Threshold and cooldown are positive and the key's TTL is
at least twice the cooldown. Types, deadlines and threshold form one inductive
invariant, since expiry removes a key with all its fields. The action property
`OwnerDecides` follows from it by cases on the actions.

**Delivery_proofs.** Assumption (`PlansAreValid`): pools are finite and disjoint,
the ladder has a tier, and ladder, presets and fallbacks name configured models;
two tiers may name the same model. `AttemptsSettledTruly` is not inductive: a
deployment that the walk reached twice would be reported as failed after more
calls than its tries. `AheadInv` says that plan and targets repeat nothing, that a
deployment is not in both, and that whatever is ahead was never called. `LoopInv`
ties the attempts that are held to the await the task is at, `DirectionInv` says
that all that is ahead or was called is reachable for this request, and `AnswerInv`
that a buffered request which is not over has no answer. The plan is a recursive
function over positions (`FirstsIn`); that it keeps allowed models only, each once,
is proved by a least counterexample, and the candidates of a policy are shown to be
in its direction. From the invariant: `AttemptsSettledTruly`, one answer per buffered
request, failover in the configured direction, and that an offline request stays on
loopback. One lemma covers all the ways the task returns (answer, error, exhausted
plan, state error, cancellation).

**Admission_proofs.** Assumptions: finitely many requests, each with a home
replica, at least one slot, a positive lease TTL. `PermitsConserved` is not
inductive: a hand-over gives a permit to the head of the waiters' list, and for
the count to be right that head must be a waiting request of this replica, listed
once. `WaitersListed` says so and is part of the invariant, with what ties the
fleet leases to their owners and to the key's TTL. Lemmas say what each kind of
move does to the sets that are counted. `LeaseLostOnlyToTime` follows by cases from the
ties between the leases and the key. The refinement theorem takes each action
to a step of `SlotPool` or to a stutter.

**Limits_proofs, budgets.** Assumptions: finitely many requests, each counting
against at least one budget, natural limits, a window for every budget, a month for
every date, a positive reserved amount and a positive TTL. `HardCap` and `ReservedCovers` are sums over requests, and neither
is inductive alone. The invariant adds: a delivery never costs more than was
reserved for it and nothing before its answer (`CostsFit`); a covered delivery in
flight has its reservation in every one of its budgets, under keys that outlive
it (`InFlightIsStored`); what covered requests that are over did cost is booked
(`CostsAreBooked`); a background release belongs to a request that is over. From
these, what all covered requests may cost a budget is at most its realized plus
its reserved amount, which is what the reservation script compares with the
limit. All of it is stated per ledger, a budget in a period, and only of the requests
whose reservation that ledger covers: what is charged to another period can only be
more. Midnight opens ledgers in which nothing is yet placed, so it keeps the invariant. A purge keeps every reservation that has not expired, and a late release
gives back only what the hash still holds. `StoredWhole` needs the same two lemmas
and the key expiries: a reservation before its deadline is in all its budgets, under
keys that outlive it, or in none.

The sums are those of the `Functions` module, whose fold is a recursive function
picking elements by `CHOOSE`. Its laws (independent of the order, additive over
disjoint sets, monotone, changed by one element) are proved for every finite set
by taking a smallest counterexample in the strict-subset order, which
`FiniteSetTheorems` and `WellFoundedInduction` say exists; no induction theorem
with an operator parameter is needed.

**Limits_proofs, token reservations.** Assumptions (`TokenAssumption`): finitely many
requests, each with a non-empty list of different limits and a positive reservation.
`NoPhantomCharge` compares a counter with a history, and neither the counter nor the
history alone says what a step may take away. The invariant gives every request a
*liability* for each limit and window: what its entry of that limit charges, or, if
it has none, the tokens of a call that it lost. `CountersCovered` says that a counter
is at most the sum of the liabilities; `StageOf` ties the entries of a request to the
first limits of its list, what they charge to how far the reconciliation has come,
and says that a request with a lost call reserves in process from then on. Each
action is then reduced to one lemma (`TurnStep`): only one request moves, and either
the counter gains no more than that request's liability, or the counter is new and at
most that liability.

**Limits_proofs, backends.** Assumptions (`BackendAssumption`): limits, windows and
sizes are natural numbers, and time stays below the value that stands for "no
expiry". `BackendsAgree` is about answers, so the invariant is about the two states
behind them. For a limit: what both backends counted *in the current window* is the
same (their stored counters may differ, since Redis forgets keys and the process
keeps old windows), the Redis hash outlives its window, and the tokens still held by
reservations of this window are at most what is counted, so that a correction never
goes below zero on one backend and not on the other. For a rollout, until the first
trip: the same counters and recorded ids in the current window, under keys that
outlive it; after it, both are tripped until the same time or neither is.

**ResponseCache_proofs.** Assumptions (`CacheAssumption`): every generation has
settings, sizes are natural numbers, every request is routed to a model of the
configuration. For the local cache the invariant says that no key is stored twice,
that the byte count is the sum of the stored sizes, within both bounds, and that
every entry was made for the key it is under; the eviction loop is reasoned about
as the least number of oldest entries whose removal meets both bounds. For the
shared cache it says that the index has no repetition and gives every key a size,
that every value is listed, of the generation in force and as large as its size
says, and that the byte count is the sum of the sizes unless a value was replaced
in place (the observation `SharedByteBound` of section 7 is why that condition is
there). A request that is to store an answer holds one made for itself, and one
that replays holds what its key names; a key is built from partition, route, body,
model and generation, so the two together give `ReplayIsOwn`.

**ControlPlane_proofs.** Assumptions (`AuditAssumption`, `ControlAssumption`): the
queue and the histories have room for one entry, and the values that mean "none"
are no snapshot. The invariant has four parts. `AuditInv`: the numbers of the
events in logs, worker and queue are in order, an acknowledged event is in the
file, a caller that waits has its command in the queue or with the worker, and the
shutdown command is the last. `AskedInv`: an installer that waits for its audit
waits for the event of exactly the snapshot it will install, so an answer "ok"
means that event is stored; without it `InstalledIsAudited` is not inductive,
since the answer of an earlier command would do. `LifeInv`: receipts are numbered
in the order they were made, history before active before the one in the making,
so a new runtime never takes the place of one a rollback needs; all of them were
validated, and history and active receipt have their runtimes. `ControlType` has
the types. The refinement theorem maps history and active receipt to the stack of
`PolicyStack`; a step of the lifecycle is a push, a pop or a stutter, and every
other step is a stutter. `ShadowStops` is an action property: a request that still
holds an older snapshot starts no comparison once the reload that switched shadow
work off has completed, because that reload stores the flag every later start reads.

**Host_proofs, Codex session.** Assumptions: restarts are finite, and callers, chats and the
markers of an empty session are different values. `SlotIsQuiet` and `AnswerIsWhole`
share an invariant. `HoldInv`: the holder of the session is the caller that uses it.
`TurnInv`: a chat's turn runs only while that chat waits for its notifications or for
its end, and an end of a turn in the queue is of another turn; without that an end
left over from an earlier chat would end the wrong turn. `ChatInv`: what the client
has read and what its channel still holds make up the text so far, closed by an end
mark only when the finished text is out. `RunInv`: a running turn the manager can name
is the turn of the chat that has the session, which `SlotIsQuiet` follows from. `HelpersAreBounded` has an invariant of its
own: the helpers started, with an exemption not yet used, are at most one more than
the counted restarts and the operations cancelled while they held the session.

**Host_proofs, setup and files.** `SetupInv` (any models and any number of keys) adds to
`SetupConsistent` what a journal says whichever operation stopped after writing it
(`JournalSound`), that the operation that runs knows the journal as it is until it
no longer reads it (`StateIsJournal`), and for each operation which journal and
policy it has at each of its writes. `HostInv` has a part per kind of file. Ledger:
unless a fault struck the last-good copy while that copy was not good, an undamaged
file is the last save, and the copy holds the save before it whenever the file can be
or is damaged. Projects: only whole directories are renamed, into place or out of it.
Store: what a gateway has seen of it stays so while it is at work, since other
gateways only make it more private.

**Gateway_proofs.** Assumptions (`IsWorld`, `IsBurst`): lists of the configuration are
lists, the ledger keeps at least one day, window and hold of the canary are positive
(`wayfinder-config/gateway.rs:2030`), virtual keys have different, non-empty ids, a
body whose model field is empty names no model (`gateway/lib.rs:6024`), and, where callers without a key are let in
beside keys, no key is called "local"; the parser does not forbid that id, and such a
key would share the cache partition of those callers. `NothingLeaks`: `LeakInv` adds the
shape of the state and that only a request that is over says where its client left;
each action is then shown to leave every lease and reservation covered, by its holder,
a task, the place where the client left or a failed call, and to grant a permit only
below the limit.
`ServedIsPermitted`: `PermitInv` follows the facts of a request from the decision to
the plan. The choice fits the facts (`ChoiceFits`: the model is configured,
acceptable for boundary, window and key, and what was asked for unless budget or key
moved it), every candidate of the plan is acceptable, and every cached answer was
served for the partition, posture and selection its key spells out, so whoever hits
it was permitted it too. That last part is why the cache key must hold the posture.
`BooksAgree` has three parts, of which the first and the last are proved. Both rest on
what a step may do to a request (`Walks`: it is booked by its charge alone, and its
canary guard ends in a report that is awaited or left to a task), shown once for every
action. `TurnsChargedOnce`: `TurnsInv` adds that the ledger has the one day and that a
turn the fleet does not hold yet is about to be told or met a mishap. `CanaryCounted`:
`CanaryInv` adds that the set of seen requests outlives the window it belongs to
(`Lasting`: it expires two windows after a report of this one), that it holds only
requests whose outcome is settled, that a report left to a task is of a canary request
that did not end well, and that before the first expiry every canary request is reported
or has its report to come. The attempt showed that the last conjunct also needs
`now < hold`: the end of a hold drops the hash and with it what its window counted.

**Only model-checked.** Liveness, because the prover does not handle fairness.
`AnswerPreserved`, `StreamEndsReadably` and `ConversationStaysValid`, because they
compare two folds over sequences of messages, and what a recursive definition
computes for every input is beyond the installed provers; `RunningIsSound` and
`EvidenceIsEarned` for the same reason (a configuration read back from its own text,
a sweep over all thresholds), and `StickyNeverDrops` (a fold over the turns of a
conversation). `SumsAgree`, the middle part of `BooksAgree`, because the cost of a turn
rests on the fold over its text that estimates the tokens. `ReceiptTellsFate`,
because its costs rest on the same estimate and its reports are folds over the
receipts.

## 7. Findings and observations

Two disagreements between code and documentation are runs that end in a
counterexample:

1. `delivery_stream`: after a stream is accepted from one member of a pool, the
   loop over the pool goes on and opens a second stream; the break leaves only the
   retry loop (`gateway/lib.rs:4582`, against WF-ADR-0031).
2. `gateway_cap`: without Redis a workspace's spend is looked up under the keys of
   the local ledger, so its cap reads 0 and never applies (`gateway/budget.rs:137`).

The following were met while modelling. Where a property is named, it is in the
module and TLC refutes it there when it is added to the run's configuration.

**Circuits, admission, limits.**
- `SoleProbe` (CircuitBreaker): a result of an attempt begun while the target was
  closed clears the half-open mark of a running probe and a second probe starts
  (`providers/reliability.rs:146`; `docs/gateway-config.md:255` says "one
  single-flight half-open probe").
- `OneOwner` (FleetHealth): nothing renews the TTL of a claim, so an attempt longer
  than `max(2 * cooldown, 1 s)` is joined by another.
- `LeaseHasOwner` (Admission): a client that leaves while `acquire_admission` is
  awaited leaves a lease nobody releases for six hours.
- `PeriodCap` (SharedBudget): a reservation is dated when the request is admitted
  (`gateway/lib.rs:4174`) and its cost when it is accounted (`gateway/lib.rs:6218`), so
  deliveries across midnight or the end of a month are charged to a period that holds
  no reservation of theirs and may take it over a blocking budget, although each was
  covered.
- `HeldUntilExpiry` (SharedBudget): the keys of the reservations expire together
  with the newest one, so an amount may stay in `reserved_micros` (`state.rs:979`).
- `LocalTokenCap` (TokenLimit): the local limiter accepts a window older than its
  current one and forgets what the new one was charged (`rate_limit.rs:426`).
- The first reservation gives the ledger of window `all` a TTL of five years that
  nothing renews (`state.rs:974`).
- Both backends agree only within the calls the gateway makes: reserving 0 tokens at
  the limit, a repeated reconcile, `add_tokens` under a request-only limit and an
  outcome recorded after a trip differ.
- `delivery_plan` asks the breaker about a model's name while attempts of a pool use
  `name#deployment`.
- `NoStarvationBesideShadow` (Deployments): shadow comparisons advance the same
  deployment cursor as requests (`gateway/shadow.rs:295`), so with a sample rate of 1
  sequential requests may all land on one deployment.

**Caches and requests.**
- `SharedByteBound` (ResponseCache): replacing a cached value subtracts its old size
  twice (`state.rs:1107` and `1115`), so the bound on retained bytes can be passed.
- A 3xx answer gets the receipt "failed" and is charged like a success; a buffered
  failure leaves its receipt without outcome; a stream dropped after the relay leaves
  it "streaming"; a client that leaves during the settling call strands the
  reservation until its TTL.
- A quoted cost uses tier prices, the charge the base table; they agree for models
  with a price of their own.
- A negative label at score 0 proposes two tiers at 0.0, which the configuration
  parser refuses. A label on a cached answer counts as local evidence.
- Shared key admission is one Redis call per limit; when a later one fails, earlier
  limits stay counted in Redis and are counted again in process.

**Streams and Codex.**
- An upstream stream that ends without `[DONE]` counts as a success; item ids of
  `item_done` and `completed` differ; images and unknown blocks of a Messages request
  are dropped silently.
- `BufferedLosesNothing` (StreamRelay): in a buffered answer a Messages client gets `{}`
  for arguments that are no JSON (`providers/anthropic.rs:360`, which a test pins) and a
  Responses client never sees a call without a name (`gateway/responses.rs:1313-1343`);
  streamed, the same answer keeps both.
- `WireNamesDistinct` (StreamRelay): the name `wf_{i}_{name}` given to one tool may be
  the name of another, and a call then goes to the wrong one.
- `FailureAlwaysSurfaces` (StreamRelay): when the upstream breaks inside an event, the
  relay appends its error to the unfinished line, where a Messages client's translator
  skips it; the `[DONE]` after it closes the message as if it were complete
  (`gateway/lib.rs:4952`; WF-ADR-0031:87 says a mid-stream failure "stays a terminal SSE
  error").
- `CompletionIsNotCancelled` (StreamRelay): the Responses relay stops reading at its
  terminal event and is dropped before the chat relay settles, so a complete answer is
  recorded as cancelled and not accounted (`gateway/responses.rs:894`).
- Codex: a cancellation racing a completion kills the helper and spends a restart. A
  login completed between the return of the call and the store of its id is lost.
  Benign notifications extend a turn without bound.
- `NoTurnLeftRunning` (CodexRuntime): a `turn/start` answered with an unusable
  identifier is no fatal error and leaves no active turn to interrupt, so the session is
  put back with the turn running (`wayfinder-codex-app-server/lib.rs:589`, `706-714`).

**Operations.**
- `ApplyKeepsEverything` (ConfigFile): a header with a trailing comment after
  `[routing]` is dropped with it (`wayfinder-config/lib.rs:563`).
- `ApplyKeepsEdits` (ConfigFile): an edit between the read and the rename of
  `apply-routing` is lost.
- `AppliedThresholdRuns` (ConfigFile): `apply-routing` checks its text without the
  environment (`wayfinder-config/lib.rs:469`), whose threshold overrides the applied one
  when the gateway loads it (`wayfinder-config/lib.rs:268`).
- `RollbackHolds` (Gateway): an outcome recorded after a trip changes the expiry of the
  Redis hash, so a tripped canary may be released before its hold is over
  (`docs/gateway-config.md:133-134`).
- A rolled-back policy's target keeps its runtime entry (`control_plane.rs:579-584`); a
  failed reload audit leaves the shadow switch of a snapshot that was never installed
  (`gateway/lib.rs:1317`).
- Positive numbers below 5e-7 are accepted and written back as 0, which the parser
  refuses; a canary without Redis and key ids with control characters are accepted by
  the parser and refused at start.
- An edit between the build of the first snapshot and the first reading of the
  version is not noticed until the next edit.
- A setup that is disconnecting overwrites a user's edit made while it waits for
  `systemctl stop`.
- `LedgerSurvivesReload` (HostFiles): every reload loads and saves the ledger with an
  object, and so a mutex, of its own (`cli/lib.rs:131`, `887`) while the serving gateway
  saves to the same path through the same `.tmp` (`pricing.rs:968`): an older total is
  written back, or the two writes tear the file, until the gateway saves alone
  (`pricing.rs:862` says "Atomically write a synchronized JSON snapshot").
- A save copies the ledger over its last-good copy unread; a crash between quarantine
  and copy makes the next start begin an empty ledger. A rollback whose
  `remove_dir_all` fails midway blocks every project command.
- A crash between making a directory of the Codex store and its `chmod`, or while its
  configuration is written, leaves a store every later start refuses.
- A token may expire while its keys are fetched and still be accepted.
- Provider error rates above 20 % give "do not enforce" below the minimum sample,
  where the documentation promises "keep shadowing" (`evidence.rs:469`).

## 8. Not modelled

- A reload that replaces limiters and breakers under reservations and attempts that
  hold the old ones, and the lifetimes of the Redis ledger hashes. The limiters a
  process keeps are never given new limits (`state.rs:760-788`), and the
  gateway calls neither `clear` nor `reconfigure` of the local cache, which
  `ResponseCache` models as its interface.
- Redis calls that never return: no response timeout is configured, and the models let
  every call succeed or fail. Two versions of the configuration with equal
  `mtime ^ len` (`cli/lib.rs:639-649`): a version is a number of its own.
- The limits on the number of profiles and presets (`config/gateway.rs:1632`, `1706`)
  and the second name of `prefer-hosted`. In `Gateway` the cache is the local one, the boundary
  of a receipt is the model's and not its deployment's, and the day does not change;
  `ResponseCache` and `SharedBudget` have the shared cache and the change of day.
- HTTP clients, TLS, address checks, credentials, the HTTP glue of the Codex control
  routes, and the inspection of content parts by the modality guard: I/O or pure
  validation, present as choices of the environment.
- Signature arithmetic, hashes (keys are the tuples that are hashed) and floating
  point (scores are exact hundredths, money exact millionths).
- Metrics and telemetry, which nothing reads back; the remaining commands of the
  command line; experiments; the desktop, macOS, iOS and Omarchy clients; packaging.
