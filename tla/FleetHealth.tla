---------------------------- MODULE FleetHealth -----------------------------
(***************************************************************************)
(* The fleet-wide provider circuit kept in Redis: the BEGIN_, COMPLETE_ and *)
(* RELEASE_HEALTH scripts of wayfinder-gateway/src/state.rs and the         *)
(* SharedHealthGuard that calls them in lib.rs.                             *)
(*                                                                         *)
(* Each script is atomic and reads the Redis server clock, so time is kept  *)
(* relative: what is left of a key's TTL and of an open circuit.  Calls may *)
(* be lost before or after they take effect, a request may be cancelled     *)
(* while it waits for one, and a replica may crash while it holds a guard.  *)
(***************************************************************************)
EXTENDS Integers, FiniteSets

CONSTANTS
  Probes,      \* request ids, each at most one attempt at a time
  Targets,     \* concrete deployments
  Threshold,   \* breaker_threshold, at least one
  Cooldown,    \* breaker_cooldown_ms
  KeyTTL,      \* PEXPIRE set by BEGIN: max(2 * cooldown, one second)
  NoProbe      \* the hash has no probe field

ASSUME ThresholdAssumption == Threshold \in Nat \ {0}
ASSUME CooldownAssumption == Cooldown \in Nat \ {0}
ASSUME KeyTTLAssumption == KeyTTL \in Nat /\ KeyTTL >= 2 * Cooldown
ASSUME NoProbeAssumption == NoProbe \notin Probes

VARIABLES
  failures,   \* hash field failures; counts above Threshold are not told apart
  open_left,  \* open_until - now while that is positive, else 0
  probe,      \* hash field probe, or NoProbe
  ttl,        \* what is left of the key's TTL; 0: no key, or a key without TTL
  guard,      \* what each request holds or is about to send
  target      \* the target of each request's guard

hash == <<failures, open_left, probe, ttl>>
healthVars == <<failures, open_left, probe, ttl, guard, target>>

\* A guard is held while the attempt runs; then one call settles it.
Verdicts == {"success", "failure", "release"}
Guards == {"none", "held"} \union Verdicts

HealthInit ==
  /\ failures = [t \in Targets |-> 0]
  /\ open_left = [t \in Targets |-> 0]
  /\ probe = [t \in Targets |-> NoProbe]
  /\ ttl = [t \in Targets |-> 0]
  /\ guard = [p \in Probes |-> "none"]
  /\ target \in [Probes -> Targets]

-----------------------------------------------------------------------------
(* The scripts. *)

\* BEGIN_HEALTH: neither an open circuit nor somebody else's probe.
BeginAllowed(p, t) ==
  /\ ~(open_left[t] > 0 /\ probe[t] # p)
  /\ ~(probe[t] # NoProbe /\ probe[t] # p)

\* BEGIN_HEALTH without the PEXPIRE.
BUG_claim_without_ttl(p, t) ==
  /\ probe' = [probe EXCEPT ![t] = p]
  /\ UNCHANGED <<failures, open_left, ttl>>

\* BEGIN_HEALTH: claim the probe and renew the key.
Claim(p, t) ==
  /\ probe' = [probe EXCEPT ![t] = p]
  /\ ttl' = [ttl EXCEPT ![t] = KeyTTL]
  /\ UNCHANGED <<failures, open_left>>

\* COMPLETE_HEALTH that does not look at the probe's owner.
BUG_any_owner(p, t) == TRUE
\* COMPLETE_HEALTH ignores a result while another request owns the probe.
CompleteAllowed(p, t) == probe[t] \in {NoProbe, p}

CompleteSuccess(t) ==
  /\ failures' = [failures EXCEPT ![t] = 0]
  /\ open_left' = [open_left EXCEPT ![t] = 0]
  /\ probe' = [probe EXCEPT ![t] = NoProbe]
  /\ UNCHANGED ttl

CountUp(n) == IF n < Threshold THEN n + 1 ELSE n
\* COMPLETE_HEALTH of a failure opens the circuit at the threshold.
CompleteFailure(t) ==
  /\ failures' = [failures EXCEPT ![t] = CountUp(failures[t])]
  /\ open_left' = IF CountUp(failures[t]) >= Threshold
                  THEN [open_left EXCEPT ![t] = Cooldown] ELSE open_left
  /\ probe' = [probe EXCEPT ![t] = NoProbe]
  /\ UNCHANGED ttl

\* RELEASE_HEALTH: drop the probe without an outcome, if it is still ours.
Release(p, t) ==
  /\ probe' = [probe EXCEPT ![t] = IF @ = p THEN NoProbe ELSE @]
  /\ UNCHANGED <<failures, open_left, ttl>>

-----------------------------------------------------------------------------
(* The guards. *)

\* A request asks for a target once; its id is fresh there.
Fresh(p, t) == guard[p] = "none" /\ probe[t] # p

\* begin_provider_health is granted and its reply arrives.
BeginGranted(p, t) ==
  /\ Fresh(p, t)
  /\ BeginAllowed(p, t)
  /\ Claim(p, t)
  /\ guard' = [guard EXCEPT ![p] = "held"]
  /\ target' = [target EXCEPT ![p] = t]

\* The script ran but the reply was lost, or the request was cancelled while
\* it waited: the probe is claimed and nobody holds a guard for it.
BeginReplyLost(p, t) ==
  /\ Fresh(p, t)
  /\ BeginAllowed(p, t)
  /\ Claim(p, t)
  /\ UNCHANGED <<guard, target>>

\* The attempt ends: complete, Drop (a failure), or release when the local
\* breaker refuses or the error says nothing about the target.
Finish(p, verdict) ==
  /\ guard[p] = "held"
  /\ guard' = [guard EXCEPT ![p] = verdict]
  /\ UNCHANGED <<hash, target>>

\* The settling call reaches Redis.
Settle(p) ==
  /\ guard[p] \in Verdicts
  /\ LET t == target[p]
     IN  CASE guard[p] = "release" -> Release(p, t)
           [] guard[p] # "release" /\ ~CompleteAllowed(p, t) -> UNCHANGED hash
           [] guard[p] = "success" /\ CompleteAllowed(p, t) -> CompleteSuccess(t)
           [] guard[p] = "failure" /\ CompleteAllowed(p, t) -> CompleteFailure(t)
  /\ guard' = [guard EXCEPT ![p] = "none"]
  /\ UNCHANGED target

\* The replica crashes, or the settling call never reaches Redis.
Vanish(p) ==
  /\ guard[p] # "none"
  /\ guard' = [guard EXCEPT ![p] = "none"]
  /\ UNCHANGED <<hash, target>>

\* Redis time passes; a key whose TTL runs out is gone with all its fields.
Expiring(t) == ttl[t] = 1
Tick ==
  /\ ttl' = [t \in Targets |-> IF ttl[t] > 0 THEN ttl[t] - 1 ELSE 0]
  /\ failures' = [t \in Targets |-> IF Expiring(t) THEN 0 ELSE failures[t]]
  /\ probe' = [t \in Targets |-> IF Expiring(t) THEN NoProbe ELSE probe[t]]
  /\ open_left' = [t \in Targets |->
                     IF Expiring(t) \/ open_left[t] = 0 THEN 0 ELSE open_left[t] - 1]
  /\ UNCHANGED <<guard, target>>

HealthNext ==
  \/ Tick
  \/ \E p \in Probes :
       \/ \E t \in Targets : BeginGranted(p, t) \/ BeginReplyLost(p, t)
       \/ \E v \in Verdicts : Finish(p, v)
       \/ Settle(p)
       \/ Vanish(p)

HealthSpec == HealthInit /\ [][HealthNext]_healthVars

(* Only time is fair: a crashed replica or a lost call never settles.        *)
HealthFairSpec == HealthSpec /\ WF_healthVars(Tick)

-----------------------------------------------------------------------------
(* Properties. *)

\* Type correctness of the hash and the guards.
HealthTypeOK ==
  /\ failures \in [Targets -> 0..Threshold]
  /\ open_left \in [Targets -> 0..Cooldown]
  /\ probe \in [Targets -> Probes \union {NoProbe}]
  /\ ttl \in [Targets -> 0..KeyTTL]
  /\ guard \in [Probes -> Guards]
  /\ target \in [Probes -> Targets]

\* A claimed probe always has a deadline.  The claim makes BEGIN refuse every
\* other replica, and its owner may crash, be cancelled in the await, or lose
\* its settling call, so a claim without a TTL would block the target for ever.
ClaimHasDeadline == \A t \in Targets : probe[t] # NoProbe => ttl[t] > 0

\* The fleet circuit is open only with a full count of failures.
OpenNeedsThreshold ==
  \A t \in Targets : open_left[t] > 0 => failures[t] >= Threshold

\* While a request owns the probe, nobody else's late or duplicated result
\* changes the circuit: the count and the opening change only by the owner's
\* settling call or by time.
OwnerDecides ==
  [][\A t \in Targets :
       probe[t] # NoProbe /\ <<failures[t], open_left[t]>> # <<failures'[t], open_left'[t]>>
         => \/ guard[probe[t]] \in {"success", "failure"} /\ target[probe[t]] = t
            \/ ttl'[t] < ttl[t]]_healthVars

\* Whatever is lost, a claimed probe is given back: the target does not stay
\* refused to the fleet after a crash.
ClaimReturned ==
  \A t \in Targets : \A p \in Probes :
    probe[t] = p ~> (probe[t] # p \/ guard[p] # "none")

\* "one half-open probe owner": at most one request holds a guard per target.
OneOwner ==
  \A t \in Targets :
    Cardinality({p \in Probes : guard[p] = "held" /\ target[p] = t}) =< 1

=============================================================================
