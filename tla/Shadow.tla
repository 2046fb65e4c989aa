------------------------------- MODULE Shadow -------------------------------
(***************************************************************************)
(* Shadow routing (shadow.rs), the evidence drawn from it (evidence.rs) and *)
(* the operator routes that label it and export reports (lib.rs).           *)
(*                                                                          *)
(* A sampled request leaves a job behind that evaluates every candidate     *)
(* route off the request's path, with the configuration the request had; a  *)
(* reload may replace that configuration, or switch shadowing off and on,   *)
(* at any of the job's steps.  Records are kept in a ring, labels in a map; *)
(* the report reads both when it is asked for.  Scores, latencies and costs *)
(* of a comparison are left out, as are the texts of reasons and reports.   *)
(***************************************************************************)
EXTENDS Integers, Sequences, FiniteSets, FiniteSetsExt, TLC

CONSTANTS
  Requests,
  Configs,      \* configurations a reload may install: see Init
  Batches,      \* label batches an operator may post
  MaxRecords, MaxLabels, MinSamples,
  MaxNow, MaxReloads  \* bounds

VARIABLES
  config,     \* shadow_config of the current snapshot, with its routing
  slots,      \* free permits of the current semaphore
  active,     \* ShadowStore::active
  records,    \* newest first
  counters,   \* of ShadowState
  window,     \* provider_window_start and provider_window_used
  jobs,       \* evaluations under way or over
  labels,     \* EvidenceStore: label_key -> value
  answer,     \* the last operator answer
  now, reloads

vars == <<config, slots, active, records, counters, window, jobs, labels, answer, now, reloads>>

Count(x) == counters' = [counters EXCEPT ![x] = @ + 1]

-----------------------------------------------------------------------------
(* Configuration *)

deterministic_sample(q, rate) == q \in rate   \* a rate is the set of requests it picks
candidate_fingerprint(c) == c.routes
\* The routing table and every field of [gateway.shadow]; not the models of a
\* route preset, nor what those models can do.
BUG_config_fingerprint(c) == <<c.enabled, c.rate, c.routes>>
config_fingerprint(c) ==
  <<c.routing, c.enabled, c.rate, c.routes, c.slots, c.compare, c.budget, c.window>>
\* What a record's evidence is about, for the properties.
Provenance(c) == [c EXCEPT !.presets = <<>>, !.eligible = {}]

\* with_shadow_config: the store stays, the semaphore is new.
Reload(c) ==
  /\ reloads < MaxReloads /\ reloads' = reloads + 1
  /\ config' = c /\ active' = c.enabled /\ slots' = c.slots
  /\ jobs' = [q \in Requests |-> [jobs[q] EXCEPT !.permit = "old"]]
  /\ UNCHANGED <<records, counters, window, labels, answer, now>>

-----------------------------------------------------------------------------
(* Jobs *)

schedule_shadow(q, consent) ==
  /\ jobs[q].pc = "none"
  /\ config.enabled /\ config.routes # <<>> /\ deterministic_sample(q, config.rate)
  /\ IF slots > 0
     THEN /\ Count("sampled") /\ slots' = slots - 1
          /\ jobs' = [jobs EXCEPT ![q] = [pc |-> "spawned", config |-> config, route |-> 1,
                                          consent |-> consent, permit |-> "new"]]
     ELSE /\ counters' = [counters EXCEPT !.sampled = @ + 1, !.dropped_in_flight = @ + 1]
          /\ jobs' = [jobs EXCEPT ![q].pc = "over"]
          /\ UNCHANGED slots
  /\ UNCHANGED <<config, active, records, window, labels, answer, now, reloads>>

\* The job ends and gives its permit back, to the semaphore it came from.
Ends(q) ==
  /\ jobs' = [jobs EXCEPT ![q].pc = "over"]
  /\ slots' = IF jobs[q].permit = "new" THEN slots + 1 ELSE slots

\* evaluate, up to its loop: a store that is no longer active ends the job, and
\* so does a prompt that cannot be scored.
evaluate(q) ==
  /\ jobs[q].pc = "spawned"
  /\ \/ ~active /\ Ends(q) /\ UNCHANGED counters
     \/ active /\ Count("errors") /\ Ends(q)
     \/ active /\ jobs' = [jobs EXCEPT ![q].pc = "routes"] /\ UNCHANGED <<counters, slots>>
  /\ UNCHANGED <<config, active, records, window, labels, answer, now, reloads>>

\* The first eligible model of the route, if any.
select_candidate(c, route) ==
  LET eligible == SelectSeq(c.presets[route], LAMBDA m : m \in c.eligible)
  IN IF eligible = <<>> THEN "none" ELSE Head(eligible)

\* provider_slot: a fixed window from its first comparison.
Rolled(c) == IF window.start = 0 \/ now - window.start >= c.window
             THEN [start |-> now, used |-> 0] ELSE window
HasSlot(c) == Rolled(c).used < c.budget

MayCompare(q, route) ==
  LET j == jobs[q] IN
  j.config.compare /\ j.consent /\ select_candidate(j.config, route) # "none"

NewRecord(q, route, compared, status) ==
  [request |-> q, route |-> route, model |-> select_candidate(jobs[q].config, route),
   compared |-> compared, success |-> status = "success",
   config |-> config_fingerprint(jobs[q].config),
   candidates |-> candidate_fingerprint(jobs[q].config),
   made |-> Provenance(jobs[q].config)]  \* history

\* The ring keeps the newest records.
record(r) ==
  records' = SubSeq(<<r>> \o records, 1, IF Len(records) < MaxRecords THEN Len(records) + 1
                                         ELSE MaxRecords)

\* The job turns to its next route, or ends after the last one.
Turn(q) ==
  IF jobs[q].route = Len(jobs[q].config.routes) THEN Ends(q)
  ELSE jobs' = [jobs EXCEPT ![q].pc = "routes", ![q].route = @ + 1] /\ UNCHANGED slots

\* One candidate: nothing once the store is inactive; an error for a route that
\* has gone; else a record at once, or a comparison first if one is admitted.
EvaluateRoute(q) ==
  /\ jobs[q].pc = "routes"
  /\ LET route == jobs[q].config.routes[jobs[q].route] IN
     \/ /\ ~active /\ Ends(q)
        /\ UNCHANGED <<records, counters, window>>
     \/ /\ active /\ route \notin DOMAIN jobs[q].config.presets
        /\ Count("errors") /\ Turn(q)
        /\ UNCHANGED <<records, window>>
     \/ /\ active /\ route \in DOMAIN jobs[q].config.presets
        /\ MayCompare(q, route) /\ HasSlot(jobs[q].config)
        /\ window' = [Rolled(jobs[q].config) EXCEPT !.used = @ + 1]
        /\ Count("provider_comparisons")
        /\ jobs' = [jobs EXCEPT ![q].pc = "comparing"]
        /\ UNCHANGED <<records, slots>>
     \/ /\ active /\ route \in DOMAIN jobs[q].config.presets
        /\ ~(MayCompare(q, route) /\ HasSlot(jobs[q].config))
        /\ counters' = [counters EXCEPT !.completed = @ + 1, !.dropped_provider_budget =
                          @ + (IF MayCompare(q, route) THEN 1 ELSE 0)]
        /\ window' = IF MayCompare(q, route) THEN Rolled(jobs[q].config) ELSE window
        /\ record(NewRecord(q, route, FALSE, "none")) /\ Turn(q)
  /\ UNCHANGED <<config, active, labels, answer, now, reloads>>

\* The provider answers, refuses or cannot be reached, and the record is
\* written whether or not shadowing is still on.
Compared(q, status) ==
  /\ jobs[q].pc = "comparing"
  /\ record(NewRecord(q, jobs[q].config.routes[jobs[q].route], TRUE, status))
  /\ counters' = [counters EXCEPT !.completed = @ + 1,
                    !.provider_errors = @ + (IF status = "success" THEN 0 ELSE 1)]
  /\ Turn(q)
  /\ UNCHANGED <<config, active, window, labels, answer, now, reloads>>

Tick ==
  /\ now < MaxNow /\ now' = now + 1
  /\ UNCHANGED <<config, slots, active, records, counters, window, jobs, labels, answer, reloads>>

-----------------------------------------------------------------------------
(* Labels *)

label_key(l) == <<l.request, l.route, l.evaluator>>
validate_label(l) == l.request # "" /\ l.route # "" /\ l.evaluator # ""

\* A batch is stored whole or not at all, and only new keys count against the
\* bound; a label given again replaces the one before.
Fits(batch) == Cardinality(DOMAIN labels \cup {label_key(l) : l \in batch}) <= MaxLabels
insert(batch) ==
  [x \in DOMAIN labels \cup {label_key(l) : l \in batch} |->
     IF \E l \in batch : label_key(l) = x
     THEN (CHOOSE l \in batch : label_key(l) = x).value ELSE labels[x]]

\* An operator answer is sent once its audit event is stored; a label batch
\* stays applied when that fails.
Audited == answer' \in {"sent", "unaudited"}

evidence_labels(batch) ==
  /\ IF (\A l \in batch : validate_label(l)) /\ Fits(batch)
     THEN labels' = insert(batch) /\ Audited
     ELSE answer' = "refused" /\ UNCHANGED labels
  /\ UNCHANGED <<config, slots, active, records, counters, window, jobs, now, reloads>>

-----------------------------------------------------------------------------
(* The report *)

RecordsOf(route) == {i \in DOMAIN records : records[i].route = route}

\* Errors above a fifth of the comparisons of a route.
provider_report(route) ==
  LET compared == {i \in RecordsOf(route) : records[i].compared}
      errors == {i \in compared : ~records[i].success}
  IN [comparisons |-> Cardinality(compared), failing |-> 5 * Cardinality(errors) > Cardinality(compared)]

\* The labels on retained records of the route, whoever gave them.
Labelled(route, value) ==
  {k \in DOMAIN labels : k[2] = route /\ labels[k] = value /\
                         \E i \in RecordsOf(route) : records[i].request = k[1]}
quality_report(route) ==
  [wins |-> Cardinality(Labelled(route, "win")), losses |-> Cardinality(Labelled(route, "loss"))]

\* The bounds of Wilson's interval for wins less losses: with d the share won
\* less the share lost of n decisive labels, the interval is above zero exactly
\* when d is positive and its square at least the squared quantile (3.8414588)
\* over n.
wilson(a, b) == a > b /\ (a - b) * (a - b) * 10000000 >= 38414588 * (a + b)

candidate_report(route) ==
  LET q == quality_report(route)
  IN IF provider_report(route).failing THEN "do-not-enforce"
     ELSE IF q.wins + q.losses < MinSamples THEN "keep-shadowing"
     ELSE IF wilson(q.wins, q.losses) THEN "enforce"
     ELSE IF wilson(q.losses, q.wins) THEN "do-not-enforce"
     ELSE "keep-shadowing"

Rank(o) == CASE o = "enforce" -> 0 [] o = "keep-shadowing" -> 1 [] OTHER -> 2
aggregate_outcome(outcomes) ==
  IF outcomes = {} THEN "keep-shadowing"
  ELSE CHOOSE o \in outcomes : \A p \in outcomes : Rank(p) <= Rank(o)

from_snapshot ==
  IF Cardinality({records[i].config : i \in DOMAIN records}) > 1
     \/ Cardinality({records[i].candidates : i \in DOMAIN records}) > 1
  THEN "keep-shadowing"
  ELSE aggregate_outcome({candidate_report(records[i].route) : i \in DOMAIN records})

-----------------------------------------------------------------------------
(* Exports.  What was read leaves once the audit event is stored.            *)

Export(refused) ==
  /\ Audited \/ (refused /\ answer' = "refused")
  /\ UNCHANGED <<config, slots, active, records, counters, window, jobs, labels, now, reloads>>

evidence_report_json == Export(FALSE)
evidence_report_text == Export(FALSE)
\* Before anything is audited, a clock before 1970 or a poisoned store, a query
\* or a body that is not understood, or Redis that is missing or down, refuses.
savings_report == Export(TRUE)
project_value_report == Export(TRUE)
outcome_policy_report == Export(TRUE)
canary_status == Export(TRUE)
router_config == Export(TRUE)

-----------------------------------------------------------------------------

NoJob == [pc |-> "none", config |-> [routes |-> <<>>], route |-> 0, consent |-> FALSE,
          permit |-> "old"]

\* with_gateway_shadow.
Init ==
  /\ config \in Configs
  /\ slots = config.slots /\ active = config.enabled
  /\ records = <<>>
  /\ counters = [x \in {"sampled", "dropped_in_flight", "dropped_provider_budget", "completed",
                        "errors", "provider_comparisons", "provider_errors"} |-> 0]
  /\ window = [start |-> 0, used |-> 0]
  /\ jobs = [q \in Requests |-> NoJob]
  /\ labels = [x \in {} |-> "win"]
  /\ answer = "none" /\ now = 1 /\ reloads = 0

Next ==
  \/ \E c \in Configs : Reload(c)
  \/ \E q \in Requests :
       \/ \E consent \in BOOLEAN : schedule_shadow(q, consent)
       \/ evaluate(q) \/ EvaluateRoute(q)
       \/ \E status \in {"success", "error"} : Compared(q, status)
  \/ \E batch \in Batches : evidence_labels(batch)
  \/ evidence_report_json \/ evidence_report_text \/ savings_report \/ project_value_report
  \/ outcome_policy_report \/ canary_status \/ router_config
  \/ Tick

Spec == Init /\ [][Next]_vars

-----------------------------------------------------------------------------

\* The report tells an operator to enforce only what was observed: every
\* retained record was made with one routing table and one [gateway.shadow], and
\* for every route among them enough judgements of its retained requests are
\* decisive, most of them wins, and its provider mostly answered; however
\* reloads, jobs of older configurations, eviction from the ring and labels that
\* come late, twice or for unknown requests interleave.
EvidenceIsEarned ==
  from_snapshot = "enforce" =>
    /\ records # <<>>
    /\ \A i, j \in DOMAIN records : records[i].made = records[j].made
    /\ \A i \in DOMAIN records :
         LET route == records[i].route
             Judged(v) == {k \in DOMAIN labels : k[2] = route /\ labels[k] = v /\
                             \E j \in DOMAIN records :
                               <<records[j].request, records[j].route>> = <<k[1], route>>}
             failed == {j \in DOMAIN records : records[j].route = route /\ records[j].compared
                                              /\ ~records[j].success}
         IN /\ Cardinality(Judged("win")) + Cardinality(Judged("loss")) >= MinSamples
            /\ Cardinality(Judged("win")) > Cardinality(Judged("loss"))
            /\ 5 * Cardinality(failed) <= Cardinality(RecordsOf(route))
=============================================================================
