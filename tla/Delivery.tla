------------------------------ MODULE Delivery ------------------------------
(***************************************************************************)
(* How one request is delivered: the plan that chat_completions builds and  *)
(* the two loops that walk it, deliver_with_reliability (buffered) and      *)
(* streaming_chat_response (streaming), in wayfinder-gateway/src/lib.rs.    *)
(*                                                                         *)
(* A loop nests plan entries, the deployments of an entry, and the tries of *)
(* a deployment.  Per deployment it owns one circuit attempt (a             *)
(* CombinedReliabilityAttempt) that it must complete, release or drop.      *)
(* Breaker answers and upstream results are environment choices.            *)
(***************************************************************************)
EXTENDS Integers, Sequences, SequencesExt, FiniteSets

CONSTANTS
  Models,         \* configured logical models
  Ladder,         \* the decision's tiers, by ascending min_score
  FallbacksOf,    \* [Models -> Seq(Models)]: same-tier fallbacks
  Preset,         \* models of the named route, for a preset request
  Pool,           \* [Models -> sets of deployments]; a single one is the model
  LocalModels,    \* models whose own endpoint is proven local
  LocalTargets,   \* deployments with a literal loopback endpoint
  Retries,        \* configured retries after the first try
  None            \* no deployment

Deployments == UNION {Pool[m] : m \in Models}

\* What configuration validation ensures of the constants.
ConstantsArePlans ==
  /\ Retries \in Nat
  /\ \A m \in Models : IsFiniteSet(Pool[m])
  /\ \A m, n \in Models : m # n => Pool[m] \intersect Pool[n] = {}
  /\ None \notin Deployments
  /\ Ladder \in Seq(Models) /\ Ladder # <<>>
  /\ Preset \in Seq(Models)
  /\ FallbacksOf \in [Models -> Seq(Models)]

ASSUME PlansAreValid == ConstantsArePlans

VARIABLES
  request,      \* mode, kind, policy, offline and the chosen model
  plan,         \* plan entries not yet tried
  targets,      \* deployments of the current entry not yet tried
  at,           \* the await point the task is at
  current,      \* the deployment whose attempt is held by the loop
  tries,        \* tries already made on the current deployment
  established,  \* the deployment whose stream was accepted, or None
  sends,        \* upstream calls per deployment
  last,         \* last upstream result per deployment
  attempt,      \* fate of the circuit attempt per deployment
  result        \* how the request ended

vars == <<request, plan, targets, at, current, tries, established,
          sends, last, attempt, result>>

Awaits == {"plan", "targets", "send", "backoff", "relay", "done"}
\* Classes of upstream results the loops distinguish.
Retryable == {"retryable_status", "transport"}
Answers == {"success", "client_error", "auth_failure"}
Fatal == {"fatal", "fatal_neutral"}
Results == Retryable \union Answers \union Fatal
RelayResults == {"relay_failure", "relay_neutral"}

-----------------------------------------------------------------------------
(* The delivery plan. *)

\* The first tier of a model; two tiers may name the same one.
position(m) ==
  CHOOSE i \in DOMAIN Ladder : Ladder[i] = m /\ \A j \in 1..(i - 1) : Ladder[j] # m

\* Cross-tier candidates: cheaper or dearer tiers, nearest first.
failover_candidates(chosen, policy) ==
  IF ~Contains(Ladder, chosen) \/ policy = "same-tier" THEN <<>>
  ELSE IF policy = "degrade" THEN Reverse(SubSeq(Ladder, 1, position(chosen) - 1))
  ELSE SubSeq(Ladder, position(chosen) + 1, Len(Ladder))

\* Offline requests that are neither pinned nor preset go to the lowest tier.
delivery_name(r) ==
  IF r.offline /\ r.kind = "scored" THEN Ladder[1] ELSE r.chosen

\* The elements of s that are in S, each where it first occurs.
FirstsIn(s, S) ==
  LET kept[i \in 0..Len(s)] ==
        IF i = 0 THEN <<>>
        ELSE IF s[i] \in S /\ ~Contains(kept[i - 1], s[i])
             THEN Append(kept[i - 1], s[i]) ELSE kept[i - 1]
  IN  kept[Len(s)]

\* The models of a route are distinct, so the filter drops the chosen one only.
candidates(r) ==
  CASE r.kind = "pinned" -> <<>>
    [] r.kind = "preset" -> FirstsIn(Preset, Models \ {delivery_name(r)})
    [] r.kind = "scored" ->
         FallbacksOf[delivery_name(r)]
           \o (IF r.offline THEN <<>> ELSE failover_candidates(r.chosen, r.policy))

\* An eligible deployment of a model: a proven local one for an offline request.
eligible_deployment_targets(r, m) ==
  {d \in Pool[m] : r.offline => d \in LocalTargets}

\* The breaker is asked about the model's name, which only an un-pooled model
\* uses as its delivery id; a pool is never filtered by its circuits here.
Pooled(m) == Cardinality(Pool[m]) > 1
Eligible(r, open) ==
  {m \in Models : /\ Pooled(m) \/ m \notin open
                  /\ r.offline => m \in LocalModels
                  /\ eligible_deployment_targets(r, m) # {}}

\* The primary and its candidates, without the repeated and the filtered ones.
delivery_plan(r, open) ==
  FirstsIn(<<delivery_name(r)>> \o candidates(r), Eligible(r, open))

Requests ==
  {r \in [mode : {"buffered", "streaming"}, kind : {"scored", "pinned", "preset"},
          policy : {"same-tier", "degrade", "escalate"}, offline : BOOLEAN,
          chosen : Models] :
     /\ r.offline => delivery_name(r) \in LocalModels
     /\ r.kind = "preset" => Contains(Preset, r.chosen)}

Init ==
  /\ request \in Requests
  /\ \E open \in SUBSET Models : plan = delivery_plan(request, open)
  /\ plan # <<>>
  /\ targets = <<>>
  /\ at = "plan"
  /\ current = None
  /\ tries = 0
  /\ established = None
  /\ sends = [d \in Deployments |-> 0]
  /\ last = [d \in Deployments |-> "none"]
  /\ attempt = [d \in Deployments |-> "none"]
  /\ result = "pending"

-----------------------------------------------------------------------------
(* Ends of the request.  Returning drops an accepted stream that was not     *)
(* handed to the relay, and with it its attempt.                             *)

DropEstablished(f) ==
  IF established = None THEN f ELSE [f EXCEPT ![established] = "dropped"]

Return(outcome, f) ==
  /\ attempt' = DropEstablished(f)
  /\ established' = None
  /\ current' = None
  /\ result' = outcome
  /\ at' = "done"

\* Enter the next plan entry with an ordered choice of eligible deployments
\* (the price ceiling may exclude some or all of them).
NextModel ==
  /\ at = "plan" /\ plan # <<>>
  /\ \E S \in SUBSET eligible_deployment_targets(request, Head(plan)) :
       \E order \in SetToSeqs(S) : targets' = order
  /\ plan' = Tail(plan)
  /\ at' = "targets"
  /\ UNCHANGED <<request, current, tries, established, sends, last, attempt, result>>

\* The plan is exhausted.
Exhausted ==
  /\ at = "plan" /\ plan = <<>>
  /\ Return("exhausted", attempt)
  /\ UNCHANGED <<request, plan, targets, tries, sends, last>>

\* An outer loop that waits for a stream nobody accepted.
BUG_no_next_model ==
  /\ at = "targets" /\ targets = <<>>
  /\ at' = IF established = None THEN "targets" ELSE "relay"
  /\ UNCHANGED <<request, plan, targets, current, tries, established,
                 sends, last, attempt, result>>

\* All deployments of the entry were walked: relay an accepted stream, or go
\* on with the plan.
EndOfTargets ==
  /\ at = "targets" /\ targets = <<>>
  /\ at' = IF established = None THEN "plan" ELSE "relay"
  /\ UNCHANGED <<request, plan, targets, current, tries, established,
                 sends, last, attempt, result>>

\* The deployment has no credential (pool members only) or begin_reliability_attempt
\* refuses it.
SkipTarget ==
  /\ at = "targets" /\ targets # <<>>
  /\ targets' = Tail(targets)
  /\ UNCHANGED <<request, plan, at, current, tries, established,
                 sends, last, attempt, result>>

\* begin_reliability_attempt grants the deployment.
BeginAttempt ==
  /\ at = "targets" /\ targets # <<>>
  /\ current' = Head(targets)
  /\ attempt' = [attempt EXCEPT ![Head(targets)] = "held"]
  /\ tries' = 0
  /\ targets' = Tail(targets)
  /\ at' = "send"
  /\ UNCHANGED <<request, plan, established, sends, last, result>>

\* begin_reliability_attempt fails on local circuit state.
BeginStateError ==
  /\ at = "targets" /\ targets # <<>>
  /\ Return("state_error", attempt)
  /\ UNCHANGED <<request, plan, targets, tries, sends, last>>

\* The bookkeeping every upstream result shares.
Received(res) ==
  /\ at = "send"
  /\ sends' = [sends EXCEPT ![current] = @ + 1]
  /\ last' = [last EXCEPT ![current] = res]

SettleCurrent(fate) == [attempt EXCEPT ![current] = fate]

\* Auth failures count against the target although they are returned.
AnswerFate(res) == IF res = "auth_failure" THEN "failed" ELSE "succeeded"

\* Buffered: any answer that is not retryable is returned to the client.
BufferedAnswer(res) ==
  /\ request.mode = "buffered"
  /\ Received(res)
  /\ Return("served", SettleCurrent(AnswerFate(res)))
  /\ UNCHANGED <<request, plan, targets, tries>>

\* Streaming: an answer that is not a success is returned to the client.
StreamAnswer(res) ==
  /\ request.mode = "streaming"
  /\ res # "success"
  /\ Received(res)
  /\ Return("served", SettleCurrent(AnswerFate(res)))
  /\ UNCHANGED <<request, plan, targets, tries>>

\* Streaming: a success moves the attempt into established (dropping what was
\* there) and leaves the retry loop only; the loop over targets goes on.
StreamEstablished ==
  /\ request.mode = "streaming"
  /\ Received("success")
  /\ attempt' = DropEstablished(attempt)
  /\ established' = current
  /\ current' = None
  /\ at' = "targets"
  /\ UNCHANGED <<request, plan, targets, tries, result>>

\* A transport failure or retryable status with tries left: back off.
MoreTries == tries < Retries
RetryLater(res) ==
  /\ Received(res)
  /\ MoreTries
  /\ tries' = tries + 1
  /\ at' = "backoff"
  /\ UNCHANGED <<request, plan, targets, current, established, attempt, result>>

BackoffOver ==
  /\ at = "backoff"
  /\ at' = "send"
  /\ UNCHANGED <<request, plan, targets, current, tries, established,
                 sends, last, attempt, result>>

\* The last try failed: the attempt is completed as a failure and the next
\* deployment is tried.
BUG_forgets_attempt(res) ==
  /\ Received(res)
  /\ ~MoreTries
  /\ current' = None
  /\ at' = "targets"
  /\ UNCHANGED <<request, plan, targets, tries, established, attempt, result>>
TriesExhausted(res) ==
  /\ Received(res)
  /\ ~MoreTries
  /\ attempt' = SettleCurrent("failed")
  /\ current' = None
  /\ at' = "targets"
  /\ UNCHANGED <<request, plan, targets, tries, established, result>>

\* A delivery error other than a transport failure ends the request: buffered
\* delivery releases the attempt, streaming fails it unless the error says
\* nothing about the target.
FatalError(res) ==
  /\ Received(res)
  /\ Return("error",
            SettleCurrent(IF request.mode = "streaming" /\ res = "fatal"
                          THEN "failed" ELSE "released"))
  /\ UNCHANGED <<request, plan, targets, tries>>

\* The relay reaches the end of the upstream stream.
RelayFinished ==
  /\ at = "relay"
  /\ attempt' = [attempt EXCEPT ![established] = "succeeded"]
  /\ established' = None
  /\ result' = "served"
  /\ at' = "done"
  /\ UNCHANGED <<request, plan, targets, current, tries, sends, last>>

\* The upstream stream fails or is malformed: a terminal error event is sent.
RelayFailed(res) ==
  /\ at = "relay"
  /\ attempt' = [attempt EXCEPT ![established] =
                   IF res = "relay_failure" THEN "failed" ELSE "released"]
  /\ last' = [last EXCEPT ![established] = res]
  /\ established' = None
  /\ result' = "stream_error"
  /\ at' = "done"
  /\ UNCHANGED <<request, plan, targets, current, tries, sends>>

\* The client goes away at an await: the task is dropped with all its guards.
Cancel ==
  /\ at \in {"send", "backoff", "relay"} \/ (at = "targets" /\ targets # <<>>)
  /\ Return("cancelled",
            IF current = None THEN attempt ELSE SettleCurrent("dropped"))
  /\ UNCHANGED <<request, plan, targets, tries, sends, last>>

Done == at = "done" /\ UNCHANGED vars

Step ==
  \/ NextModel \/ Exhausted \/ EndOfTargets \/ SkipTarget
  \/ BeginAttempt \/ BeginStateError
  \/ \E res \in Answers : BufferedAnswer(res) \/ StreamAnswer(res)
  \/ StreamEstablished
  \/ \E res \in Retryable : RetryLater(res) \/ TriesExhausted(res)
  \/ BackoffOver
  \/ \E res \in Fatal : FatalError(res)
  \/ RelayFinished
  \/ \E res \in RelayResults : RelayFailed(res)

Next == Step \/ Cancel \/ Done

Spec == Init /\ [][Next]_vars

(* Upstream calls have deadlines, backoff sleeps end and streams end, so the *)
(* task that runs the loop always takes its next step.                       *)
FairSpec == Spec /\ WF_vars(Step)

-----------------------------------------------------------------------------
(* Properties. *)

Fates == {"none", "held", "succeeded", "failed", "released", "dropped"}

\* Type correctness of the loop state.
TypeOK ==
  /\ request \in Requests
  /\ plan \in Seq(Models)
  /\ targets \in Seq(Deployments)
  /\ at \in Awaits
  /\ current \in Deployments \union {None}
  /\ tries \in 0..Retries
  /\ established \in Deployments \union {None}
  /\ sends \in [Deployments -> 0..(Retries + 1)]
  /\ last \in [Deployments -> {"none"} \union Results \union RelayResults]
  /\ attempt \in [Deployments -> Fates]
  /\ result \in {"pending", "served", "exhausted", "error", "state_error",
                 "stream_error", "cancelled"}

\* However the request ends (answer, error, exhaustion, cancellation at any
\* await), no circuit attempt is left held: a leaked half-open attempt would
\* block its target.  While it runs, only the current deployment and the
\* accepted stream hold one.
EveryAttemptSettled ==
  \A d \in Deployments :
    attempt[d] = "held" => result = "pending" /\ d \in {current, established}

\* The circuit hears about a target what the target did: success only after a
\* healthy answer, failure only after an auth failure, a counting error or a
\* full set of failed tries.
FateMatchesUpstream ==
  \A d \in Deployments :
    /\ attempt[d] = "succeeded" => last[d] \in {"success", "client_error"}
    /\ attempt[d] = "failed" =>
         \/ last[d] \in {"auth_failure", "fatal", "relay_failure"}
         \/ last[d] \in Retryable /\ sends[d] = Retries + 1
    /\ attempt[d] = "released" => last[d] \in Fatal \union {"relay_neutral"}

\* The circuits of the deployments hear of every attempt, and hear the truth.
AttemptsSettledTruly == EveryAttemptSettled /\ FateMatchesUpstream

\* A buffered request takes one answer: after any non-retryable answer no
\* other deployment is called (the client would pay twice).
BufferedAnswersOnce ==
  request.mode = "buffered" =>
    /\ \A d, e \in Deployments :
         last[d] \in Answers /\ last[e] \in Answers => d = e
    /\ \A d \in Deployments : last[d] \in Answers => result = "served"

ModelOf(d) == CHOOSE m \in Models : d \in Pool[m]
Called == {ModelOf(d) : d \in {e \in Deployments : sends[e] > 0}}

\* The models the policy of the request lets it reach.
MayCall(m) ==
  \/ m = delivery_name(request)
  \/ request.kind = "preset" /\ Contains(Preset, m)
  \/ request.kind = "scored" /\ Contains(FallbacksOf[delivery_name(request)], m)
  \/ /\ request.kind = "scored" /\ Contains(Ladder, request.chosen)
     /\ \E i \in DOMAIN Ladder :
          /\ Ladder[i] = m
          /\ \/ request.policy = "degrade" /\ i < position(request.chosen)
             \/ request.policy = "escalate" /\ i > position(request.chosen)

\* Failover moves only in the configured direction: a pinned request stays on
\* its model, same-tier stays within the tier's fallbacks, degrade calls only
\* models of cheaper tiers and escalate only models of dearer ones.
FailoverDirection == \A m \in Called : MayCall(m)

\* An offline request never calls a deployment that is not on loopback, on
\* whatever path retries and failover lead.
OfflineStaysLocal ==
  request.offline => \A d \in Deployments : sends[d] > 0 => d \in LocalTargets

\* Every request ends: retries and failover are bounded.
EventuallyDone == <>(result # "pending")

\* "Once an upstream response has been accepted ... no second request is
\* started": no upstream call after a stream was established.
NoSecondRequest == [][established # None => sends' = sends]_vars
=============================================================================
