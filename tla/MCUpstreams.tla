----------------------------- MODULE MCUpstreams -----------------------------
(***************************************************************************)
(* What one process remembers of its upstreams, on a small instance: either *)
(* the circuit breaker of one target or the measurements of one alias's     *)
(* deployments.                                                            *)
(***************************************************************************)
EXTENDS CircuitBreaker, TLC

CONSTANTS c1, c2

VARIABLES part, policy, cursor, samples, pc, order

\* Deployments 1 and 2 share one alias two to one; the second is dearer.
MCTargets == <<[id |-> 1, weight |-> 2, cost |-> 1], [id |-> 2, weight |-> 1, cost |-> 2]>>

Policy(strategy, ceiling) ==
  [strategy |-> strategy, ceiling |-> ceiling, observation_ttl |-> 1]

\* Every strategy; ceilings that leave both deployments and one of them.
MCPolicies ==
  {Policy(strategy, -1) : strategy \in {"weighted", "latency", "throughput", "capacity", "cost"}}
    \union {Policy("availability", 2), Policy("latency", 1)}

\* A quick answer and a slow overload.
MCOutcomes ==
  {[latency |-> 1, ttft |-> 1, throughput |-> 2, status |-> 200],
   [latency |-> 2, ttft |-> -1, throughput |-> -1, status |-> 503]}

\* Two requests race under every policy, with one sample kept per deployment ...
D == INSTANCE Deployments WITH
  Clients <- {c1, c2}, Targets <- MCTargets, Policies <- MCPolicies,
  Outcomes <- MCOutcomes, MaxSamples <- 1

\* ... or one at a time is ordered by the means of two.
M == INSTANCE Deployments WITH
  Clients <- {c1, c2}, Targets <- MCTargets, Policies <- MCPolicies,
  Outcomes <- MCOutcomes, MaxSamples <- 2

ASSUME DeploymentConstants == D!ConstantsAreDeployments /\ M!ConstantsAreDeployments

dvars == <<policy, cursor, samples, pc, order>>
allVars == <<part, vars, dvars>>

MCInit ==
  /\ Init /\ D!Init
  /\ \/ part = "breaker" /\ policy = Policy("cost", -1)
     \/ part = "racing"
     \/ part = "means" /\ policy \in {Policy("latency", -1), Policy("throughput", -1)}

MCNext ==
  /\ UNCHANGED part
  /\ \/ part = "breaker" /\ Next /\ UNCHANGED dvars
     \/ part = "racing" /\ D!Next /\ UNCHANGED vars
     \/ part = "means" /\ M!Next /\ UNCHANGED vars /\ pc'[c2] = "idle"

MCSpec ==
  /\ MCInit
  /\ [][MCNext]_allVars
  /\ Fairness
  /\ WF_dvars(part = "racing" /\ D!Tick) /\ WF_dvars(part = "means" /\ M!Tick)
  /\ \A c \in {c1, c2} :
       WF_dvars(part = "racing" /\ D!Progress(c)) /\ WF_dvars(part = "means" /\ M!Progress(c))

\* While requests keep coming and shadow comparisons do not take their turns for
\* ever, no deployment within the price ceiling is left out for good by the signal
\* that orders them (deployment_selection.rs), under any strategy but cost.
NoStarvation == (part # "breaker") => D!NoStarvation
=============================================================================
