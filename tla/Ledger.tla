------------------------------- MODULE Ledger -------------------------------
(***************************************************************************)
(* Prices, the cost of a turn, the savings ledger and the budgets read from *)
(* it (wayfinder-service/src/pricing.rs, gateway/src/budget.rs); and the    *)
(* receipts of recent requests with the reports made from them.            *)
(*                                                                         *)
(* Money is an integer number of millionths, a rate is per token, so the   *)
(* rounding to six decimals is exact.  A day is the number of days since   *)
(* 1970-01-01.  A ledger is a function from the days it keeps to buckets.  *)
(***************************************************************************)
EXTENDS Routing, FiniteSetsExt, Functions, TLC

Nobody == ""
UnknownPrice == -1
NoMap == <<>>

(***************************************************************************)
(* Civil dates.                                                            *)
(***************************************************************************)

days_in_month(year, month) ==
  CASE month \in {1, 3, 5, 7, 8, 10, 12} -> 31
    [] month \in {4, 6, 9, 11} -> 30
    [] month = 2 -> IF year % 4 = 0 /\ (year % 100 # 0 \/ year % 400 = 0) THEN 29 ELSE 28

ValidDate(d) ==
  /\ d.year \in 1 .. 9999 /\ d.month \in 1 .. 12
  /\ d.day \in 1 .. days_in_month(d.year, d.month)

\* Days since 0000-03-01: years start in March.
ordinal(d) ==
  LET year == IF d.month <= 2 THEN d.year - 1 ELSE d.year
      era == year \div 400
      yearOfEra == year - era * 400
      shifted == IF d.month > 2 THEN d.month - 3 ELSE d.month + 9
      dayOfYear == (153 * shifted + 2) \div 5 + d.day - 1
  IN era * 146097 + yearOfEra * 365 + yearOfEra \div 4 - yearOfEra \div 100 + dayOfYear

utc_date_from_unix_days(days) ==
  LET shifted == days + 719468
      era == shifted \div 146097
      dayOfEra == shifted - era * 146097
      yearOfEra == (dayOfEra - dayOfEra \div 1460 + dayOfEra \div 36524
                    - dayOfEra \div 146096) \div 365
      dayOfYear == dayOfEra - (365 * yearOfEra + yearOfEra \div 4 - yearOfEra \div 100)
      monthPrime == (5 * dayOfYear + 2) \div 153
      month == IF monthPrime < 10 THEN monthPrime + 3 ELSE monthPrime - 9
      year == yearOfEra + era * 400 + (IF month <= 2 THEN 1 ELSE 0)
  IN [year |-> year, month |-> month,
      day |-> dayOfYear - (153 * monthPrime + 2) \div 5 + 1]

\* year * 12 + month, which two days share when their month prefixes do.
month_prefix(day) ==
  LET d == utc_date_from_unix_days(day) IN d.year * 12 + d.month

(***************************************************************************)
(* Prices.                                                                 *)
(***************************************************************************)

Known(costs) == Restrict(costs, {m \in DOMAIN costs : costs[m] # UnknownPrice})

\* Evenly spread over the ladder from 0.2 to 1.0, rounded to three decimals;
\* a model that is listed twice has its last price.
RelativePrices(ladder) ==
  LET steps == IF Len(ladder) > 1 THEN Len(ladder) - 1 ELSE 1
  IN [m \in ToSet(ladder) |->
        200 + python_round(800 * (Max({i \in 1 .. Len(ladder) : ladder[i] = m}) - 1), steps)]

\* Configured prices when there are any, otherwise relative ones.
price_table(costs, ladder) ==
  IF DOMAIN Known(costs) # {} THEN [costs |-> Known(costs), priced |-> TRUE]
  ELSE [costs |-> RelativePrices(ladder), priced |-> FALSE]

TierModels(tiers) == [i \in 1 .. Len(tiers) |-> tiers[i].model]

ModelCosts(models) == [m \in DOMAIN models |-> models[m].cost]

\* The ladder is the tiers', or every model where a classifier routes.
configured_price_table(routing, models, names) ==
  price_table(ModelCosts(models),
              IF HasClassifier(routing) \/ routing.tiers = <<>> THEN names
              ELSE TierModels(routing.tiers))

Dearest(costs) == Max({0} \cup Range(costs))

\* What a decision is said to cost: a model's own price, else its tier's;
\* where nothing is priced, relative prices over the tiers the request was
\* scored with, or over the chosen model alone.
cost_response(models, tiers, chosen, words) ==
  LET OfTier(m) == tiers[Min({i \in 1 .. Len(tiers) :
                                tiers[i].model = m /\ tiers[i].cost # UnknownPrice})].cost
      priced == {t.model : t \in {x \in ToSet(tiers) : x.cost # UnknownPrice}}
      real == Known(ModelCosts(models)) @@ [m \in priced |-> OfTier(m)]
      costs == IF DOMAIN real # {} THEN real
               ELSE RelativePrices(IF tiers = <<>> THEN <<chosen>> ELSE TierModels(tiers))
      rate == IF chosen \in DOMAIN costs THEN costs[chosen] ELSE Dearest(costs)
  IN [per_call |-> rate * words, baseline |-> Dearest(costs) * words,
      saved |-> Dearest(costs) * words - rate * words, estimated |-> DOMAIN real = {}]

\* A route without a price costs the dearest one; so does the baseline.
turn_cost(route, tokens, costs, estimated) ==
  LET rate == IF route \in DOMAIN costs THEN costs[route] ELSE Dearest(costs)
  IN [route |-> route, realized |-> rate * tokens, baseline |-> Dearest(costs) * tokens,
      tokens |-> tokens, estimated |-> estimated]

\* What the provider reported: both counts, or a total; otherwise an
\* estimate from the texts.  -1 is a field that is missing.
usage_tokens(usage, promptEstimate, completionEstimate) ==
  LET prompt == IF usage.prompt = -1 THEN 0 ELSE usage.prompt
  IN IF usage.prompt # -1 /\ usage.completion # -1
     THEN [tokens |-> Max({prompt, 0}) + Max({usage.completion, 0}), estimated |-> FALSE]
     ELSE IF usage.total # -1
     THEN [tokens |-> Max({prompt, 0}) + Max({usage.total - prompt, 0}), estimated |-> FALSE]
     ELSE [tokens |-> promptEstimate + completionEstimate, estimated |-> TRUE]

(***************************************************************************)
(* The ledger.                                                             *)
(***************************************************************************)

Zero == [n |-> 0, realized |-> 0, baseline |-> 0, tokens |-> 0]

add_turn(s, cost) ==
  [n |-> s.n + 1, realized |-> s.realized + cost.realized,
   baseline |-> s.baseline + cost.baseline, tokens |-> s.tokens + cost.tokens]

add_stats(s, o) ==
  [n |-> s.n + o.n, realized |-> s.realized + o.realized,
   baseline |-> s.baseline + o.baseline, tokens |-> s.tokens + o.tokens]

At(map, name, default) == IF name \in DOMAIN map THEN map[name] ELSE default

\* `map` with the entry of `name` set.
Put(map, name, value) ==
  [x \in DOMAIN map \cup {name} |-> IF x = name THEN value ELSE map[x]]

\* `map` with the entry of `name` charged; an absent name charges nothing.
Charge(map, name, cost) ==
  IF name = Nobody THEN map ELSE Put(map, name, add_turn(At(map, name, Zero), cost))

EmptyBucket ==
  [total |-> Zero, estimated_n |-> 0, by_route |-> NoMap, by_key |-> NoMap, by_workspace |-> NoMap]
EmptyWorkspace == [total |-> Zero, estimated_n |-> 0, by_route |-> NoMap]

One(b) == IF b THEN 1 ELSE 0

\* A workspace keeps its own total, estimates and routes.
ChargeWorkspace(map, ws, cost) ==
  IF ws = Nobody THEN map
  ELSE LET w == At(map, ws, EmptyWorkspace)
       IN Put(map, ws, [total |-> add_turn(w.total, cost),
                        estimated_n |-> w.estimated_n + One(cost.estimated),
                        by_route |-> Charge(w.by_route, cost.route, cost)])

\* The newest `max` days of a ledger.
Newest(days, max) ==
  Restrict(days, {d \in DOMAIN days : Cardinality({e \in DOMAIN days : e > d}) < max})

record_attributed(days, cost, today, key, ws, max) ==
  LET b == At(days, today, EmptyBucket)
  IN Newest(Put(days, today, [total |-> add_turn(b.total, cost),
                              estimated_n |-> b.estimated_n + One(cost.estimated),
                              by_route |-> Charge(b.by_route, cost.route, cost),
                              by_key |-> Charge(b.by_key, key, cost),
                              by_workspace |-> ChargeWorkspace(b.by_workspace, ws, cost)]),
            max)

merge_stat_maps(a, b) ==
  [x \in DOMAIN a \cup DOMAIN b |-> add_stats(At(a, x, Zero), At(b, x, Zero))]

AllTime == -1

\* The kept days of a trailing period that ends today.
InPeriod(days, period, today) ==
  {d \in DOMAIN days : period = AllTime \/ d >= today - (period - 1)}

Merged(days, D, Part(_)) ==
  FoldSet(LAMBDA d, acc : merge_stat_maps(acc, Part(days[d])), NoMap, D)

Summed(days, D, Part(_)) ==
  FoldSet(LAMBDA d, acc : add_stats(acc, Part(days[d])), Zero, D)

period(days, length, today) ==
  LET D == InPeriod(days, length, today)
      total == Summed(days, D, LAMBDA b : b.total)
  IN [total |-> total, saved |-> total.baseline - total.realized,
      by_route |-> Merged(days, D, LAMBDA b : b.by_route),
      by_key |-> Merged(days, D, LAMBDA b : b.by_key)]

period_for_workspace(days, ws, length, today) ==
  LET D == {d \in InPeriod(days, length, today) : ws \in DOMAIN days[d].by_workspace}
      total == Summed(days, D, LAMBDA b : b.by_workspace[ws].total)
  IN [total |-> total, saved |-> total.baseline - total.realized,
      by_route |-> Merged(days, D, LAMBDA b : b.by_workspace[ws].by_route),
      observed |-> IF D = {} THEN {} ELSE {Min(D), Max(D)}]

totals(days) ==
  LET all == Summed(days, DOMAIN days, LAMBDA b : b.total)
  IN [realized |-> all.realized, baseline |-> all.baseline,
      saved |-> all.baseline - all.realized]

\* Realized spend in a budget window: of one name in by_key, or of everyone.
spent(days, window, key, today) ==
  LET D == CASE window = "day" -> DOMAIN days \cap {today}
             [] window = "month" ->
                  {d \in DOMAIN days : month_prefix(d) = month_prefix(today)}
             [] window = "all" -> DOMAIN days
  IN FoldSet(LAMBDA d, acc :
               acc + (IF key = Nobody THEN days[d].total
                      ELSE At(days[d].by_key, key, Zero)).realized, 0, D)

(***************************************************************************)
(* Budgets.  A policy maps "global", keys and workspaces to budgets.       *)
(***************************************************************************)

evaluate_spent(amount, budget, offline) ==
  IF amount < budget.limit THEN "allow"
  ELSE IF budget.on_breach = "block" /\ ~offline THEN "block" ELSE "degrade"

\* The budgets that apply to a caller, in the order they are read.
ApplicableBudgets(policy, ws, key) ==
  (IF "global" \in DOMAIN policy.global
   THEN <<[scope |-> "global", name |-> Nobody, budget |-> policy.global["global"]]>> ELSE <<>>)
  \o (IF ws \in DOMAIN policy.by_workspace
      THEN <<[scope |-> "workspace", name |-> ws, budget |-> policy.by_workspace[ws]]>> ELSE <<>>)
  \o (IF key \in DOMAIN policy.by_key
      THEN <<[scope |-> "key", name |-> key, budget |-> policy.by_key[key]]>> ELSE <<>>)

Worst(verdicts) ==
  IF "block" \in verdicts THEN "block" ELSE IF "degrade" \in verdicts THEN "degrade" ELSE "allow"

\* Against the process-local ledger.  The name of a workspace is looked up
\* where the names of keys are kept.
evaluate_for(policy, days, ws, key, today, offline) ==
  LET applicable == ApplicableBudgets(policy, ws, key)
      Verdict(a) == evaluate_spent(spent(days, a.budget.window, a.name, today), a.budget, offline)
  IN Worst({Verdict(applicable[i]) : i \in 1 .. Len(applicable)})

\* Against the fleet's spend, filed per scope.
evaluate_shared_for(policy, fleet, ws, key, offline) ==
  LET applicable == ApplicableBudgets(policy, ws, key)
      Verdict(a) == evaluate_spent(At(fleet, <<a.scope, a.name>>, 0), a.budget, offline)
  IN Worst({Verdict(applicable[i]) : i \in 1 .. Len(applicable)})

\* What a reservation must fit under; a soft budget reserves but never denies.
shared_scopes(policy, ws, key, offline) ==
  LET applicable == ApplicableBudgets(policy, ws, key)
  IN {[scope |-> <<applicable[i].scope, applicable[i].name>>, limit |-> applicable[i].budget.limit,
       blocks |-> applicable[i].budget.on_breach = "block" /\ ~offline] :
        i \in 1 .. Len(applicable)}

(***************************************************************************)
(* The bounded ring of recent routing receipts (gateway/src/recent.rs).    *)
(* A ring is a sequence, oldest first; a receipt holds the request id, the *)
(* chosen model, score and mode, the key and workspace, and what was       *)
(* learnt later ("" until then).  Policy versions, times and status codes  *)
(* are left out.  The last part is what is reported from the ring: the     *)
(* proposal of outcome_policy.rs and the value report of project_value.rs. *)
(***************************************************************************)

MAX_RECENT_ENTRIES == 200

TerminalOutcomes == {"succeeded", "failed", "cancelled", "cache_hit"}

NewReceipt(id, model, score, mode, key, workspace) ==
  [id |-> id, model |-> model, score |-> score, mode |-> mode, key |-> key, workspace |-> workspace,
   served_by |-> "", boundary |-> "", outcome |-> "", label |-> "", cache |-> "", cost |-> 0]

\* The oldest receipts make room.
record(ring, capacity, receipt) ==
  IF capacity = 0 THEN ring
  ELSE LET all == Append(ring, receipt)
       IN IF Len(all) > capacity THEN SubSeq(all, Len(all) - capacity + 1, Len(all)) ELSE all

\* Positions of a request's receipts; the newest one is updated.
Of(ring, id) == {i \in 1 .. Len(ring) : ring[i].id = id}

OnNewest(ring, S, Change(_)) ==
  IF S = {} THEN ring ELSE [ring EXCEPT ![Max(S)] = Change(@)]

update_cost(ring, id, cost) == OnNewest(ring, Of(ring, id), LAMBDA e : [e EXCEPT !.cost = cost])

update_cache(ring, id, cache) == OnNewest(ring, Of(ring, id), LAMBDA e : [e EXCEPT !.cache = cache])

update_delivery(ring, id, served, boundary, outcome) ==
  OnNewest(ring, Of(ring, id), LAMBDA e :
    [e EXCEPT !.served_by = served, !.boundary = boundary, !.outcome = outcome])

update_outcome(ring, id, outcome) ==
  OnNewest(ring, Of(ring, id), LAMBDA e : [e EXCEPT !.outcome = outcome])

\* A label needs the receipt of that workspace, and a settled one.
Labelled(ring, id, workspace) == {i \in Of(ring, id) : ring[i].workspace = workspace}

label_error(ring, id, workspace) ==
  LET S == Labelled(ring, id, workspace)
  IN IF S = {} THEN "not_found"
     ELSE IF ring[Max(S)].outcome \notin TerminalOutcomes THEN "not_terminal" ELSE ""

label_user_outcome(ring, id, workspace, label) ==
  IF label_error(ring, id, workspace) # "" THEN ring
  ELSE OnNewest(ring, Labelled(ring, id, workspace), LAMBDA e : [e EXCEPT !.label = label])

entries_for_workspace(ring, workspace) == SelectSeq(ring, LAMBDA e : e.workspace = workspace)

Count(entries, Test(_)) == Len(SelectSeq(entries, Test))

CountBy(entries, Key(_)) ==
  [x \in {Key(entries[i]) : i \in 1 .. Len(entries)} |-> Count(entries, LAMBDA e : Key(e) = x)]

\* The whole ring in counts, and the newest receipts first.
report(ring, limit) ==
  LET shown == Min({Max({limit, 1}), MAX_RECENT_ENTRIES, Len(ring)})
      scored == SelectSeq(ring, LAMBDA e : e.mode = "scored")
  IN [total |-> Len(ring), by_model |-> CountBy(ring, LAMBDA e : e.model),
      scored_total |-> Len(scored), scored_by_model |-> CountBy(scored, LAMBDA e : e.model),
      recent |-> SubSeq(Reverse(ring), 1, shown)]

report_for_workspace(ring, workspace) ==
  LET entries == entries_for_workspace(ring, workspace)
      Outcome(o) == Count(entries, LAMBDA e : e.outcome = o)
      terminal == Count(entries, LAMBDA e : e.outcome \in TerminalOutcomes)
  IN [retained |-> Len(entries), terminal |-> terminal,
      succeeded |-> Outcome("succeeded"), failed |-> Outcome("failed"),
      cancelled |-> Outcome("cancelled"), cache_hits |-> Outcome("cache_hit"),
      in_progress |-> Outcome("streaming"), delivery_unobserved |-> Outcome(""),
      labels |-> [l \in {"success", "correction", "failure"} |->
                    Count(entries, LAMBDA e : e.label = l)],
      boundaries |-> [b \in {"on-device", "local-network", "hosted", ""} |->
                        Count(entries, LAMBDA e : e.boundary = b)],
      by_route |-> CountBy(entries, LAMBDA e : IF e.served_by = "" THEN e.model ELSE e.served_by)]

(***************************************************************************)
(* A narrower local range, proposed from the labels of a workspace.        *)
(***************************************************************************)

selected_boundary(models, name) ==
  IF name \notin DOMAIN models THEN ""
  ELSE IF models[name].tier = "local" THEN "local" ELSE "hosted"

actual_boundary(boundary) ==
  IF boundary \in {"on-device", "local-network"} THEN "local" ELSE boundary

\* Two scored tiers, a local one below a hosted one.
SupportsProposal(routing, models) ==
  /\ ~HasClassifier(routing) /\ Len(routing.tiers) = 2
  /\ routing.tiers[1].min_score = 0 /\ routing.tiers[2].min_score > 0
  /\ selected_boundary(models, routing.tiers[1].model) = "local"
  /\ selected_boundary(models, routing.tiers[2].model) = "hosted"

\* What a labelled receipt is evidence of.
EvidenceOf(routing, models, e) ==
  LET selected == selected_boundary(models, e.model)
      actual == actual_boundary(e.boundary)
  IN IF e.mode # "scored" THEN "non_scored"
     ELSE IF selected = "" \/ actual = "" THEN "unknown_boundary"
     ELSE IF selected # actual THEN "confounded_cross_boundary"
     ELSE IF e.model # routing.tiers[1].model THEN "hosted_selected" ELSE "actionable_local"

\* The hosted threshold comes down to the lowest score that went wrong.
propose_local_threshold(workspace, routing, models, ring) ==
  LET labelled == SelectSeq(entries_for_workspace(ring, workspace), LAMBDA e : e.label # "")
      Actionable(e) == EvidenceOf(routing, models, e) = "actionable_local"
      Scores(Test(_)) == {e.score : e \in {x \in ToSet(labelled) : Actionable(x) /\ Test(x)}}
      upper == routing.tiers[2].min_score
      threshold == Min({upper} \cup Scores(LAMBDA e : e.label # "success"))
      Report(disposition, tiers, also) ==
        [disposition |-> disposition, tiers |-> tiers, reclassified_local_successes |-> also,
         labelled |-> Len(labelled),
         evidence |-> CountBy(labelled, LAMBDA e : EvidenceOf(routing, models, e))]
  IN IF ~SupportsProposal(routing, models)
     THEN [disposition |-> "unsupported-policy", tiers |-> <<>>]
     ELSE IF labelled = <<>> THEN Report("insufficient-evidence", <<>>, 0)
     ELSE IF ~\E e \in ToSet(labelled) : Actionable(e)
     THEN Report("no-actionable-local-evidence", <<>>, 0)
     ELSE IF threshold >= upper THEN Report("retain", <<>>, 0)
     ELSE Report("propose-narrower-local-range",
                 [routing.tiers EXCEPT ![2].min_score = threshold],
                 Count(labelled, LAMBDA e : Actionable(e) /\ e.label = "success"
                                            /\ e.score \in threshold .. upper - 1))

(***************************************************************************)
(* The value report of a workspace.                                        *)
(***************************************************************************)

\* n out of d in tenths of a per cent; -1 where there is nothing to divide.
Percent(n, d) == IF d = 0 THEN -1 ELSE python_round(1000 * n, d)

ProjectValueReport(accounting, delivery, costs) ==
  LET labelled == FoldFunction(+, 0, delivery.labels)
      dearest == Max({0} \cup Range(costs))
  IN [accounting |-> accounting, delivery |-> delivery,
      coverage_pct |-> Percent(labelled, delivery.terminal),
      correction_rate_pct |-> Percent(delivery.labels["correction"], labelled),
      failure_rate_pct |-> Percent(delivery.labels["failure"], labelled),
      baseline |-> [rate |-> dearest, routes |-> {r \in DOMAIN costs : costs[r] = dearest}]]
=============================================================================
