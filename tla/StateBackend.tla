---------------------------- MODULE StateBackend ----------------------------
(***************************************************************************)
(* The two implementations of the StateBackend contract (state.rs): the     *)
(* process-local one, on RateLimiter of rate_limit.rs and a map of canary   *)
(* windows, and the Redis one, a Lua script per call.  A gateway runs on    *)
(* either, as [gateway.state] says, so a policy must mean the same on both. *)
(*                                                                          *)
(* Every step is one call, made to both backends at the same time; the      *)
(* behaviour is either one limit's or one rollout's.  Times are in ticks of *)
(* one second, a window is a number of them.  A Redis key that expires is   *)
(* gone; the process forgets nothing.                                       *)
(***************************************************************************)
EXTENDS Canary

CONSTANTS
  Configs,    \* limits: [rpm, tpm, window], 0 for a dimension that is off
  Sizes,      \* the tokens a call reserves, uses or adds
  Rollouts,   \* canaries: [window, hold]
  Ids,        \* ids of reservations and of canary outcomes
  MaxNow,     \* bound on time
  MaxCalls    \* bound on calls

ASSUME BackendAssumption ==
  /\ Configs \subseteq [rpm: Nat, tpm: Nat, window: Nat \ {0}]
  /\ Rollouts \subseteq [window: Nat \ {0}, hold: Nat \ {0}]
  /\ Sizes \subseteq Nat \ {0}
  /\ IsFiniteSet(Ids)
  /\ MaxNow \in Nat /\ MaxNow < Never

VARIABLES
  subject,    \* what the behaviour is about
  config,     \* the limit's or the rollout's configuration
  now,
  memory,     \* RateLimiter's State, or MemoryCanaryState
  hash,       \* the limit's Redis hash, or the rollout's keys
  held,       \* reservation of each request that has one, by both backends
  answers,    \* what the last call returned
  trips,      \* history: 0 never tripped, 1 tripped, 2 an outcome came after
  calls

backendVars == <<subject, config, now, memory, hash, held, answers, trips, calls>>

Counters == [window |-> -1, requests |-> 0, tokens |-> 0]
NoKey == [window |-> -1, requests |-> 0, tokens |-> 0, expires |-> Never]
\* MemoryCanaryState: the counters of its window and until when it is tripped.
NewMemoryRollout ==
  [window |-> 0, requests |-> 0, errors |-> 0, latency |-> 0, samples |-> 0, realized |-> 0,
   baseline |-> 0, costs |-> 0, tripped |-> NoReason, seen |-> {}, until |-> 0]

Window == now \div config.window
\* retry_after; the scripts compute the same from milliseconds.
retry_after == (Window + 1) * config.window - now

Allowed == [by |-> "none", retry |-> 0]
Rejected(kind) == [by |-> kind, retry |-> retry_after]
Reservation(n, request) == [window |-> Window, tokens |-> n, request |-> request]

Minus(a, b) == IF a < b THEN 0 ELSE a - b

-----------------------------------------------------------------------------
(* RateLimiter *)

roll(s) == IF s.window = Window THEN s ELSE [Counters EXCEPT !.window = Window]

\* What a state s that has rolled says to n tokens and perhaps a request.
reserve_rolled(s, n, request) ==
  IF request /\ config.rpm > 0 /\ s.requests >= config.rpm
  THEN [state |-> s, rate |-> Rejected("rpm")]
  ELSE IF config.tpm > 0 /\ (IF n = 0 THEN s.tokens >= config.tpm ELSE s.tokens + n > config.tpm)
  THEN [state |-> s, rate |-> Rejected("tpm")]
  ELSE [state |-> [s EXCEPT !.requests = @ + (IF request THEN 1 ELSE 0), !.tokens = @ + n],
        rate |-> Allowed]

reserve_inner(n, request) ==
  IF (~request \/ config.rpm = 0) /\ config.tpm = 0 THEN [state |-> memory, rate |-> Allowed]
  ELSE reserve_rolled(roll(memory), n, request)

reconcile_at(r, actual) ==
  IF memory.window # r.window THEN memory
  ELSE [memory EXCEPT !.tokens = IF actual >= r.tokens THEN @ + (actual - r.tokens)
                                 ELSE Minus(@, r.tokens - actual)]

rollback_at(r) ==
  IF memory.window # r.window THEN memory
  ELSE [memory EXCEPT !.tokens = Minus(@, r.tokens),
                      !.requests = IF r.request THEN Minus(@, 1) ELSE @]

add_tokens_at(n) == IF config.tpm = 0 THEN memory ELSE [roll(memory) EXCEPT !.tokens = @ + n]

\* MemoryStateBackend: the limiter of the key, made by the first call on it
\* and given the caller's limits by every other.
MemoryAdmit == reserve_inner(0, TRUE)
MemoryReserve(n) == reserve_inner(n, TRUE)
MemoryReserveTokens(n) == reserve_inner(n, FALSE)
MemoryReconcile(r, actual) == reconcile_at(r, actual)
MemoryRollback(r) == rollback_at(r)
MemoryAddTokens(n) == add_tokens_at(n)

-----------------------------------------------------------------------------
(* The scripts *)

Live == IF hash.expires <= now THEN NoKey ELSE hash
\* A new window sets the expiry, and nothing else does.
RolledHash ==
  IF Live.window = Window THEN Live
  ELSE [NoKey EXCEPT !.window = Window, !.expires = now + 2 * config.window]

\* A mutant: the limit is compared after the request it would admit.
BUG_ADMIT(h) ==
  IF config.rpm > 0 /\ h.requests > config.rpm THEN [state |-> h, rate |-> Rejected("rpm")]
  ELSE IF config.tpm > 0 /\ h.tokens >= config.tpm THEN [state |-> h, rate |-> Rejected("tpm")]
  ELSE [state |-> [h EXCEPT !.requests = @ + 1], rate |-> Allowed]
ADMIT(h) ==
  IF config.rpm > 0 /\ h.requests >= config.rpm THEN [state |-> h, rate |-> Rejected("rpm")]
  ELSE IF config.tpm > 0 /\ h.tokens >= config.tpm THEN [state |-> h, rate |-> Rejected("tpm")]
  ELSE [state |-> [h EXCEPT !.requests = @ + 1], rate |-> Allowed]

RESERVE(h, n, request) ==
  IF request /\ config.rpm > 0 /\ h.requests >= config.rpm
  THEN [state |-> h, rate |-> Rejected("rpm")]
  ELSE IF config.tpm > 0 /\ h.tokens + n > config.tpm
  THEN [state |-> h, rate |-> Rejected("tpm")]
  ELSE [state |-> [h EXCEPT !.requests = @ + (IF request THEN 1 ELSE 0), !.tokens = @ + n],
        rate |-> Allowed]

RECONCILE(r, actual) ==
  IF Live.window # r.window THEN Live ELSE [Live EXCEPT !.tokens = @ + actual - r.tokens]

ROLLBACK(r) ==
  IF Live.window # r.window THEN Live
  ELSE [Live EXCEPT !.tokens = Minus(@, r.tokens),
                    !.requests = IF r.request THEN Minus(@, 1) ELSE @]

ADD_TOKENS(n) == [RolledHash EXCEPT !.tokens = @ + n]

-----------------------------------------------------------------------------
(* Calls on a limit *)

Call == calls < MaxCalls /\ calls' = calls + 1 /\ UNCHANGED <<subject, config, now>>

\* Both backends answer; one that allows keeps its reservation for later.
Answer(m, r) ==
  /\ memory' = m.state /\ hash' = r.state
  /\ answers' = [memory |-> m.rate, redis |-> r.rate]

admit ==
  /\ subject = "limit" /\ Call
  /\ Answer(MemoryAdmit, ADMIT(RolledHash))
  /\ UNCHANGED <<held, trips>>

Reserved(q, n, request) ==
  held' = IF answers'.memory = Allowed /\ answers'.redis = Allowed
          THEN [x \in DOMAIN held \cup {q} |->
                  IF x = q THEN Reservation(n, request) ELSE held[x]]
          ELSE held

\* A request and its tokens at once.
reserve(q, n) ==
  /\ subject = "limit" /\ Call /\ q \notin DOMAIN held
  /\ Answer(MemoryReserve(n), RESERVE(RolledHash, n, TRUE))
  /\ Reserved(q, n, TRUE)
  /\ UNCHANGED trips

\* Tokens alone; without a token limit nothing is asked.
reserve_tokens(q, n) ==
  /\ subject = "limit" /\ Call /\ q \notin DOMAIN held
  /\ Answer(MemoryReserveTokens(n),
            IF config.tpm = 0 THEN [state |-> hash, rate |-> Allowed]
            ELSE RESERVE(RolledHash, n, FALSE))
  /\ IF config.tpm = 0 THEN UNCHANGED held ELSE Reserved(q, n, FALSE)
  /\ UNCHANGED trips

Settled(q) == held' = [x \in DOMAIN held \ {q} |-> held[x]]

\* Late or not, a reservation is settled once.
reconcile(q, actual) ==
  /\ subject = "limit" /\ Call /\ q \in DOMAIN held
  /\ memory' = MemoryReconcile(held[q], actual) /\ hash' = RECONCILE(held[q], actual)
  /\ Settled(q)
  /\ UNCHANGED <<answers, trips>>

rollback(q) ==
  /\ subject = "limit" /\ Call /\ q \in DOMAIN held
  /\ memory' = MemoryRollback(held[q]) /\ hash' = ROLLBACK(held[q])
  /\ Settled(q)
  /\ UNCHANGED <<answers, trips>>

add_tokens(n) ==
  /\ subject = "limit" /\ Call
  /\ memory' = MemoryAddTokens(n) /\ hash' = ADD_TOKENS(n)
  /\ UNCHANGED <<held, answers, trips>>

Remaining(s) == [by |-> "snapshot", retry |-> retry_after, left |-> Minus(config.rpm, s.requests)]

\* Without a request limit there are no headers.
snapshot ==
  /\ subject = "limit" /\ config.rpm > 0 /\ Call
  /\ memory' = roll(memory) /\ hash' = RolledHash
  /\ answers' = [memory |-> Remaining(roll(memory)), redis |-> Remaining(RolledHash)]
  /\ UNCHANGED <<held, trips>>

-----------------------------------------------------------------------------
(* Calls on a rollout.  The Redis half is Canary's.                         *)

rotate_memory_canary ==
  IF memory.window = Window THEN memory
  ELSE [NewMemoryRollout EXCEPT !.window = Window, !.tripped = memory.tripped,
                                !.until = memory.until]

memory_record_canary(o) ==
  LET m == rotate_memory_canary
      costed == o.realized >= 0 /\ o.baseline >= 0
  IN IF o.id \in m.seen THEN m
     ELSE [m EXCEPT !.seen = @ \cup {o.id}, !.requests = @ + 1,
                    !.errors = @ + (IF o.succeeded THEN 0 ELSE 1),
                    !.latency = @ + o.latency, !.samples = @ + 1,
                    !.realized = @ + (IF costed THEN o.realized ELSE 0),
                    !.baseline = @ + (IF costed THEN o.baseline ELSE 0),
                    !.costs = @ + (IF costed THEN 1 ELSE 0)]

memory_canary_snapshot ==
  LET m == rotate_memory_canary
  IN IF m.until <= now THEN [m EXCEPT !.until = 0, !.tripped = NoReason] ELSE m

Seen(h) == [requests |-> h.requests, errors |-> h.errors, latency |-> h.latency,
            samples |-> h.samples, realized |-> h.realized, baseline |-> h.baseline,
            costs |-> h.costs, tripped |-> h.tripped]

record_outcome(o) ==
  /\ subject = "rollout" /\ Call
  /\ memory' = memory_record_canary(o)
  /\ hash' = record_canary(hash, o, config.window, now)
  /\ trips' = IF trips = 0 THEN 0 ELSE 2
  /\ UNCHANGED <<held, answers>>

read_rollout ==
  /\ subject = "rollout" /\ Call
  /\ memory' = memory_canary_snapshot
  /\ hash' = canary_snapshot(hash, config.window, now)
  /\ answers' = [memory |-> Seen(memory'), redis |-> Seen(hash'.hash)]
  /\ UNCHANGED <<held, trips>>

memory_trip_canary ==
  [memory EXCEPT !.until = IF @ < now + config.hold THEN now + config.hold ELSE @,
                 !.tripped = "tripped"]

trip_rollout ==
  /\ subject = "rollout" /\ Call
  /\ memory' = memory_trip_canary
  /\ hash' = trip_canary(hash, "tripped", config.hold, now)
  /\ trips' = IF trips = 0 THEN 1 ELSE trips
  /\ UNCHANGED <<held, answers>>

SecondPasses ==
  /\ now < MaxNow /\ now' = now + 1
  /\ UNCHANGED <<subject, config, memory, hash, held, answers, trips, calls>>

Outcomes ==
  [id: Ids, succeeded: BOOLEAN, latency: {1}, realized: {-1, 2}, baseline: {1}]

-----------------------------------------------------------------------------

BackendInit ==
  /\ \/ subject = "limit" /\ config \in Configs /\ memory = Counters /\ hash = NoKey
     \/ subject = "rollout" /\ config \in Rollouts /\ memory = NewMemoryRollout
        /\ hash = NewRollout
  /\ now = 0 /\ held = [x \in {} |-> Reservation(0, FALSE)]
  /\ answers = [memory |-> Allowed, redis |-> Allowed]
  /\ trips = 0 /\ calls = 0

BackendNext ==
  \/ admit \/ snapshot \/ read_rollout \/ trip_rollout \/ SecondPasses
  \/ \E q \in Ids, n \in Sizes : reserve(q, n) \/ reserve_tokens(q, n) \/ reconcile(q, n)
  \/ \E q \in Ids : rollback(q)
  \/ \E n \in Sizes : add_tokens(n)
  \/ \E o \in Outcomes : record_outcome(o)

BackendSpec == BackendInit /\ [][BackendNext]_backendVars

\* A limit admits, refuses (with the same reason and the same time to wait)
\* and reports the same on both backends, whatever was reserved, settled late,
\* rolled back or added before and however windows and keys end.  A rollout
\* has the same counters on both until it trips, and trips and is released on
\* both alike as long as no outcome is recorded after the trip.
BackendsAgree ==
  IF subject = "limit" THEN answers.memory = answers.redis
  ELSE /\ trips = 0 => answers.memory = answers.redis
       /\ trips = 1 => ("tripped" \in DOMAIN answers.memory =>
                          answers.memory.tripped = answers.redis.tripped)
=============================================================================
