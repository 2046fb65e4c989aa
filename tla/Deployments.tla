----------------------------- MODULE Deployments -----------------------------
(***************************************************************************)
(* Which of the interchangeable deployments behind one public alias serves  *)
(* a request (wayfinder-gateway/src/deployment_selection.rs and             *)
(* deployment_candidates, select_deployments, observe_deployment in         *)
(* lib.rs).                                                                *)
(*                                                                         *)
(* A request takes its turn of a weighted rotation, lets the configured     *)
(* strategy reorder the rotation by what recent attempts measured, and      *)
(* tries the deployments in that order; every attempt leaves a measurement  *)
(* that the next selections read.  The cursor, the samples and the clock    *)
(* are read in separate critical sections, so two requests interleave       *)
(* between them.  Measurements are small integers and a sample carries its  *)
(* age.  The model forgets a sample once every configured TTL has passed    *)
(* it: no summary counts it again, and the bound evicts the oldest first.   *)
(***************************************************************************)
EXTENDS Integers, Sequences, FiniteSetsExt, SequencesExt

CONSTANTS
  Clients,     \* requests that may be in progress at once
  Targets,     \* the alias's deployments in configured order: [id, weight, cost]
  Policies,    \* the deployment_selection policies the alias may have
  Outcomes,    \* what an attempt may measure: [latency, ttft, throughput, status]
  MaxSamples   \* MAX_SAMPLES_PER_KEY

ConstantsAreDeployments ==
  /\ Len(Targets) > 0 /\ MaxSamples \in Nat \ {0}
  /\ \A i \in DOMAIN Targets : Targets[i].weight > 0 /\ Targets[i].id = i
  /\ \A p \in Policies : p.observation_ttl > 0

VARIABLES
  policy,      \* ConfiguredModel.deployment_selection
  cursor,      \* deployment_cursors[alias], modulo the total weight
  samples,     \* DeploymentObservationStore.state: per deployment, oldest first
  pc, order    \* each request's place and the targets it has left

dvars == <<policy, cursor, samples, pc, order>>

None == -1
Count == Len(Targets)
Deployment == 1 .. Count
IsSome(x) == x # None
WeightOf(some) == MapThenSumSet(LAMBDA i : Targets[i].weight, some)
total_weight == WeightOf(Deployment)
Oldest == Max({p.observation_ttl : p \in Policies})

-----------------------------------------------------------------------------
(* The rotation. *)

\* The deployment whose share of the total weight holds the slot.
start_of(slot) ==
  CHOOSE i \in Deployment :
    WeightOf(1 .. i - 1) =< slot /\ slot < WeightOf(1 .. i)

\* A deterministic weighted order: the slot's deployment, then the others in
\* configured order, wrapping around.
rotation(slot) ==
  [k \in Deployment |-> ((start_of(slot) - 1 + k - 1) % Count) + 1]

-----------------------------------------------------------------------------
(* What an attempt measures and what a selection may read of it. *)

success(o) ==
  [latency |-> o.latency, ttft |-> o.ttft, throughput |-> o.throughput,
   success |-> TRUE, rate_limited |-> FALSE, pressure |-> 0]

\* Capacity pressure in quarters: full for 429 and 503, half for another
\* server error or no answer, a quarter for any other refusal.
failure(o) ==
  [latency |-> o.latency, ttft |-> None, throughput |-> None,
   success |-> FALSE, rate_limited |-> o.status = 429,
   pressure |-> CASE o.status \in {429, 503} -> 4
                  [] o.status = None \/ o.status \in 500 .. 599 -> 2
                  [] OTHER -> 1]

Observation(o) == IF o.status \in 200 .. 299 THEN success(o) ELSE failure(o)

\* The samples of a deployment with one more: the oldest goes beyond the bound.
observe(seq, observation) ==
  LET longer == Append(seq, [age |-> 0, seen |-> observation])
  IN SubSeq(longer, Max({1, Len(longer) - MaxSamples + 1}), Len(longer))

\* The part of a deployment's samples that is still within the TTL.
fresh(seq) == SelectSeq(seq, LAMBDA s : s.age =< policy.observation_ttl)

\* Numerator and denominator of the mean of a measured field.
Mean(seq, field) ==
  LET with == {k \in DOMAIN seq : IsSome(seq[k].seen[field])}
  IN <<MapThenSumSet(LAMBDA k : seq[k].seen[field], with), Cardinality(with)>>

NoMean == <<0, 0>>
NoSummary == [latency |-> NoMean]
Ready(mean) == mean # NoMean

summary(d) ==
  LET seq == fresh(samples[d])
      rate(flag(_)) ==
        <<Cardinality({k \in DOMAIN seq : flag(seq[k].seen)}), Len(seq)>>
      latency == Mean(seq, "latency")
      pressure == Mean(seq, "pressure")
  IN IF Len(seq) = 0 \/ ~Ready(latency) \/ ~Ready(pressure)
     THEN NoSummary
     ELSE [latency |-> latency, pressure |-> pressure,
           ttft |-> Mean(seq, "ttft"),
           throughput |-> Mean(seq, "throughput"),
           availability |-> rate(LAMBDA s : s.success),
           rate_limited |-> rate(LAMBDA s : s.rate_limited)]

\* Exact comparison of two means; an unknown one is infinite.
Less(m, n) == IF n[2] = 0 THEN m[2] # 0 ELSE m[2] # 0 /\ m[1] * n[2] < n[1] * m[2]
Same(m, n) == ~Less(m, n) /\ ~Less(n, m)
OrZero(m) == IF Ready(m) THEN m ELSE <<0, 1>>

-----------------------------------------------------------------------------
(* The selection. *)

\* A ceiling excludes a deployment whose price is above it or unknown.
within_ceiling(d) ==
  \/ ~IsSome(policy.ceiling)
  \/ IsSome(Targets[d].cost) /\ Targets[d].cost =< policy.ceiling

apply_price_ceiling(candidates) == SelectSeq(candidates, within_ceiling)

compare_cost(d, e) ==
  Targets[d].cost < Targets[e].cost \/ (Targets[d].cost = Targets[e].cost /\ d =< e)

BUG_signal_ready(d) == TRUE
signal_ready(d) ==
  LET s == summary(d)
  IN /\ Ready(s.latency)
     /\ policy.strategy = "throughput" => Ready(s.throughput)

\* The comparator of the sort: the strategy's signal, its tie-break, the id.  A
\* summary that has gone since the check leaves the two ordered by id.
precedes(d, e) ==
  LET l == summary(d)
      r == summary(e)
      better(m, n, otherwise) == Less(m, n) \/ (Same(m, n) /\ otherwise)
  IN IF ~Ready(l.latency) \/ ~Ready(r.latency)
     THEN d =< e
     ELSE CASE policy.strategy = "latency" ->
                 better(l.latency, r.latency, better(l.ttft, r.ttft, d =< e))
            [] policy.strategy = "throughput" ->
                 better(OrZero(r.throughput), OrZero(l.throughput), d =< e)
            [] policy.strategy = "availability" ->
                 better(r.availability, l.availability,
                        better(l.rate_limited, r.rate_limited, d =< e))
            [] policy.strategy = "capacity" -> better(l.pressure, r.pressure, d =< e)

Sorted(candidates, le(_, _)) ==
  SortSeq(candidates, LAMBDA d, e : d # e /\ le(d, e))

\* The strategies that keep the weighted order without looking at a signal, or
\* need none to change it.
settled_order(candidates) ==
  IF policy.strategy = "cost" /\ \A k \in DOMAIN candidates : IsSome(Targets[candidates[k]].cost)
  THEN Sorted(candidates, compare_cost)
  ELSE candidates

needs_signals(candidates) ==
  Len(candidates) > 1 /\ policy.strategy \notin {"weighted", "cost"}

-----------------------------------------------------------------------------
(* The steps of a request. *)

Init ==
  /\ policy \in Policies
  /\ cursor = 0
  /\ samples = [d \in Deployment |-> <<>>]
  /\ pc = [c \in Clients |-> "idle"]
  /\ order = [c \in Clients |-> <<>>]

Keep == UNCHANGED <<policy, samples>>

\* Under the cursor lock: take the slot, advance the cursor.  An alias with one
\* deployment has no cursor.
deployment_candidates(c) ==
  /\ pc[c] = "idle"
  /\ pc' = [pc EXCEPT ![c] = "selecting"]
  /\ order' = [order EXCEPT ![c] = rotation(cursor)]
  /\ cursor' = IF Count = 1 THEN cursor ELSE (cursor + 1) % total_weight
  /\ Keep

\* A shadow comparison takes its turn of the same rotation.  Its target is called
\* beside the requests and not measured.
shadow_candidates ==
  /\ Count > 1
  /\ cursor' = (cursor + 1) % total_weight
  /\ UNCHANGED <<policy, samples, pc, order>>

\* The ceiling, the strategies without signals, and the check that every signal
\* is ready: a request whose deployments are all too expensive has no target.
select_check(c) ==
  /\ pc[c] = "selecting"
  /\ LET candidates == apply_price_ceiling(order[c])
         sorting == needs_signals(candidates) /\
                      \A k \in DOMAIN candidates : signal_ready(candidates[k])
     IN /\ order' = [order EXCEPT ![c] = IF sorting THEN candidates
                                          ELSE settled_order(candidates)]
        /\ pc' = [pc EXCEPT ![c] = CASE sorting -> "sorting"
                                      [] candidates = <<>> -> "idle"
                                      [] OTHER -> "trying"]
  /\ UNCHANGED cursor /\ Keep

\* The sort reads the summaries again.
select_sort(c) ==
  /\ pc[c] = "sorting"
  /\ order' = [order EXCEPT ![c] = Sorted(@, precedes)]
  /\ pc' = [pc EXCEPT ![c] = "trying"]
  /\ UNCHANGED cursor /\ Keep

\* The first target left answers and is measured.  A success, a refusal that
\* no other deployment could mend and a last failure end the request.
observe_deployment(c) ==
  /\ pc[c] = "trying"
  /\ \E o \in Outcomes, mendable \in BOOLEAN :
       LET d == Head(order[c])
           ends == Observation(o).success \/ ~mendable \/ Len(order[c]) = 1
       IN /\ samples' = [samples EXCEPT ![d] = observe(@, Observation(o))]
          /\ order' = [order EXCEPT ![c] = IF ends THEN <<>> ELSE Tail(@)]
          /\ pc' = [pc EXCEPT ![c] = IF ends THEN "idle" ELSE "trying"]
  /\ UNCHANGED <<policy, cursor>>

\* No measurement: the circuit refuses the first target, which is skipped, or
\* the client leaves.
pass_over(c) ==
  /\ pc[c] = "trying"
  /\ \E left \in {<<>>, Tail(order[c])} :
       /\ order' = [order EXCEPT ![c] = left]
       /\ pc' = [pc EXCEPT ![c] = IF left = <<>> THEN "idle" ELSE "trying"]
  /\ UNCHANGED cursor /\ Keep

Older(s) == [s EXCEPT !.age = @ + 1]

Tick ==
  /\ \E d \in Deployment : samples[d] # <<>>
  /\ samples' = [d \in Deployment |->
       FoldLeft(LAMBDA kept, s : IF s.age < Oldest THEN Append(kept, Older(s)) ELSE kept,
                <<>>, samples[d])]
  /\ UNCHANGED <<policy, cursor, pc, order>>

Progress(c) ==
  select_check(c) \/ select_sort(c) \/ observe_deployment(c) \/ pass_over(c)

Next == Tick \/ shadow_candidates \/ \E c \in Clients : deployment_candidates(c) \/ Progress(c)

(* A request that has begun goes on, and time passes.  Nothing says that    *)
(* requests keep coming.                                                   *)
Fairness == WF_dvars(Tick) /\ \A c \in Clients : WF_dvars(Progress(c))

-----------------------------------------------------------------------------

TypeOK ==
  /\ policy \in Policies
  /\ cursor \in 0 .. total_weight - 1
  /\ pc \in [Clients -> {"idle", "selecting", "sorting", "trying"}]
  /\ \A d \in Deployment : Len(samples[d]) =< MaxSamples
  /\ \A c \in Clients : Len(order[c]) =< Count /\ (pc[c] = "trying" => order[c] # <<>>)

Tried(d) == \E c \in Clients : pc[c] = "trying" /\ Head(order[c]) = d
Arriving == \E c \in Clients : pc[c] = "selecting"

\* A deployment that once measured badly is measured again: as long as requests
\* keep coming, every deployment within the price ceiling is tried again and
\* again, under every strategy but cost, because what speaks against it expires.
\* (Ordering by price alone rightly leaves the dearer one for failover.)  The
\* exception are shadow comparisons that never cease: they may take all the turns
\* of a deployment.
NoStarvation ==
  \A d \in Deployment :
    policy.strategy # "cost" /\ within_ceiling(d) =>
      ([]<>Arriving /\ <>[][~shadow_candidates]_dvars => []<>Tried(d))

\* Without the exception, which does not hold.
NoStarvationBesideShadow ==
  \A d \in Deployment :
    policy.strategy # "cost" /\ within_ceiling(d) => ([]<>Arriving => []<>Tried(d))
=============================================================================
