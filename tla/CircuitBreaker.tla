--------------------------- MODULE CircuitBreaker ---------------------------
(***************************************************************************)
(* The per-target circuit breaker of one gateway process                   *)
(* (wayfinder-providers/src/reliability.rs) and the attempts that hold it   *)
(* (ReliabilityAttempt in wayfinder-gateway/src/reliability.rs).            *)
(*                                                                         *)
(* The breaker is a mutex-protected record.  An attempt reads the           *)
(* monotonic clock BEFORE it takes the mutex, so every begin and every      *)
(* record is two steps: the clock read, then the locked update with a       *)
(* possibly stale timestamp.                                               *)
(***************************************************************************)
EXTENDS Integers, FiniteSets, TLAPS

CONSTANTS
  Attempts,    \* tasks that may hold one target-level attempt each
  Targets,     \* concrete provider deployments
  Threshold,   \* configured breaker_threshold; zero behaves as one
  Cooldown,    \* configured breaker_cooldown, in clock units
  MaxCount,    \* usize::MAX, where the failure count saturates
  MaxTime      \* bound on the modelled clock

ASSUME ThresholdAssumption == Threshold \in Nat
ASSUME CooldownAssumption == Cooldown \in Nat
ASSUME MaxCountAssumption == MaxCount \in Nat \ {0} /\ Threshold =< MaxCount
ASSUME MaxTimeAssumption == MaxTime \in Nat

VARIABLES
  failures,    \* CircuitBreaker.failures: consecutive failures per target
  opened_at,   \* CircuitBreaker.opened_at, NoTime when the key is absent
  half_open,   \* CircuitBreaker.half_open: targets with a probe mark
  clock,       \* the monotonic clock
  phase,       \* where each attempt task is
  target,      \* ReliabilityAttempt.target
  state,       \* ReliabilityAttempt.state
  stamp,       \* the clock value read before the mutex was taken
  succeeded    \* the outcome an attempt is about to record

breakerVars == <<failures, opened_at, half_open>>
attemptVars == <<phase, target, state, stamp, succeeded>>
vars == <<failures, opened_at, half_open, clock,
          phase, target, state, stamp, succeeded>>

NoTime == -1
threshold == IF Threshold = 0 THEN 1 ELSE Threshold

Phases == {"idle", "beginning", "running", "recording"}
CircuitAttempt == {"Closed", "HalfOpen"}

-----------------------------------------------------------------------------
(* Pure queries of the breaker. *)

\* May the target be tried at time now (used to build a delivery plan)?
allow_at(t, now) ==
  /\ t \notin half_open
  /\ opened_at[t] = NoTime \/ now - opened_at[t] >= Cooldown

\* May begin_at grant an attempt of a closed target, or the half-open probe?
begins_closed(t) == opened_at[t] = NoTime
BUG_no_cooldown(t, now) == opened_at[t] # NoTime /\ t \notin half_open
begins_half_open(t, now) ==
  /\ opened_at[t] # NoTime
  /\ now - opened_at[t] >= Cooldown
  /\ t \notin half_open

-----------------------------------------------------------------------------
Init ==
  /\ failures = [t \in Targets |-> 0]
  /\ opened_at = [t \in Targets |-> NoTime]
  /\ half_open = {}
  /\ clock = 0
  /\ phase = [a \in Attempts |-> "idle"]
  /\ target \in [Attempts -> Targets]
  /\ state = [a \in Attempts |-> "Closed"]
  /\ stamp = [a \in Attempts |-> 0]
  /\ succeeded = [a \in Attempts |-> FALSE]

\* Monotonic time passes.
Tick ==
  /\ clock < MaxTime
  /\ clock' = clock + 1
  /\ UNCHANGED <<breakerVars, attemptVars>>

\* begin_attempt reads the clock, before the mutex.
ReadBeginClock(a, t) ==
  /\ phase[a] = "idle"
  /\ phase' = [phase EXCEPT ![a] = "beginning"]
  /\ target' = [target EXCEPT ![a] = t]
  /\ stamp' = [stamp EXCEPT ![a] = clock]
  /\ UNCHANGED <<breakerVars, clock, state, succeeded>>

\* begin_at under the mutex: the target is closed.
BeginClosed(a) ==
  /\ phase[a] = "beginning"
  /\ begins_closed(target[a])
  /\ phase' = [phase EXCEPT ![a] = "running"]
  /\ state' = [state EXCEPT ![a] = "Closed"]
  /\ UNCHANGED <<breakerVars, clock, target, stamp, succeeded>>

\* begin_at under the mutex: the cooldown is over and nobody probes.
BeginHalfOpen(a) ==
  /\ phase[a] = "beginning"
  /\ begins_half_open(target[a], stamp[a])
  /\ phase' = [phase EXCEPT ![a] = "running"]
  /\ state' = [state EXCEPT ![a] = "HalfOpen"]
  /\ half_open' = half_open \union {target[a]}
  /\ UNCHANGED <<failures, opened_at, clock, target, stamp, succeeded>>

\* begin_at under the mutex: no attempt is granted.
BeginRefused(a) ==
  /\ phase[a] = "beginning"
  /\ ~begins_closed(target[a])
  /\ ~begins_half_open(target[a], stamp[a])
  /\ phase' = [phase EXCEPT ![a] = "idle"]
  /\ UNCHANGED <<breakerVars, clock, target, state, stamp, succeeded>>

\* ReliabilityAttempt::complete reads the clock, before the mutex.
Complete(a, ok) ==
  /\ phase[a] = "running"
  /\ phase' = [phase EXCEPT ![a] = "recording"]
  /\ stamp' = [stamp EXCEPT ![a] = clock]
  /\ succeeded' = [succeeded EXCEPT ![a] = ok]
  /\ UNCHANGED <<breakerVars, clock, target, state>>

\* A drop that forgets that a probe owns the half-open mark.
BUG_drop_forgets_probe(a) ==
  /\ phase[a] = "running"
  /\ phase' = [phase EXCEPT ![a] = "idle"]
  /\ UNCHANGED <<breakerVars, clock, target, state, stamp, succeeded>>

\* Drop of an unfinished attempt: a probe is abandoned as a failure, a
\* closed attempt leaves the breaker alone.
DropAttempt(a) ==
  /\ phase[a] = "running"
  /\ IF state[a] = "HalfOpen"
     THEN /\ phase' = [phase EXCEPT ![a] = "recording"]
          /\ stamp' = [stamp EXCEPT ![a] = clock]
          /\ succeeded' = [succeeded EXCEPT ![a] = FALSE]
     ELSE /\ phase' = [phase EXCEPT ![a] = "idle"]
          /\ UNCHANGED <<stamp, succeeded>>
  /\ UNCHANGED <<breakerVars, clock, target, state>>

\* record_at of a success: close the breaker.
record_success(t) ==
  /\ half_open' = half_open \ {t}
  /\ failures' = [failures EXCEPT ![t] = 0]
  /\ opened_at' = [opened_at EXCEPT ![t] = NoTime]

\* usize::saturating_add(1)
saturating_inc(n) == IF n < MaxCount THEN n + 1 ELSE n

\* record_at of a failure: count it and (re)start the cooldown at the limit.
record_failure(t, now) ==
  /\ half_open' = half_open \ {t}
  /\ failures' = [failures EXCEPT ![t] = saturating_inc(failures[t])]
  /\ opened_at' = IF saturating_inc(failures[t]) >= threshold
                  THEN [opened_at EXCEPT ![t] = now]
                  ELSE opened_at

\* record_at under the mutex, with the timestamp read earlier.
Record(a) ==
  /\ phase[a] = "recording"
  /\ IF succeeded[a] THEN record_success(target[a])
                     ELSE record_failure(target[a], stamp[a])
  /\ phase' = [phase EXCEPT ![a] = "idle"]
  /\ UNCHANGED <<clock, target, state, stamp, succeeded>>

Begin(a) == BeginClosed(a) \/ BeginHalfOpen(a) \/ BeginRefused(a)
Finish(a) == DropAttempt(a) \/ \E ok \in BOOLEAN : Complete(a, ok)

Next ==
  \/ Tick
  \/ \E a \in Attempts :
       \/ \E t \in Targets : ReadBeginClock(a, t)
       \/ Begin(a)
       \/ Finish(a)
       \/ Record(a)

Spec == Init /\ [][Next]_vars

(* A task that holds or waits for the mutex gets it, and every running      *)
(* attempt ends: an upstream call has a deadline, and a cancelled request   *)
(* drops its attempt.                                                      *)
Fairness ==
  \A a \in Attempts : WF_vars(Begin(a)) /\ WF_vars(Finish(a)) /\ WF_vars(Record(a))

FairSpec == Spec /\ Fairness

-----------------------------------------------------------------------------
(* Properties. *)

\* Attempts that own a half-open probe of t and have not recorded it yet.
Probers(t) ==
  {a \in Attempts : /\ phase[a] \in {"running", "recording"}
                    /\ state[a] = "HalfOpen"
                    /\ target[a] = t}

\* Type correctness of the breaker maps and of the attempts.
TypeOK ==
  /\ failures \in [Targets -> 0..MaxCount]
  /\ opened_at \in [Targets -> Nat \union {NoTime}]
  /\ half_open \in SUBSET Targets
  /\ clock \in Nat
  /\ phase \in [Attempts -> Phases]
  /\ target \in [Attempts -> Targets]
  /\ state \in [Attempts -> CircuitAttempt]
  /\ stamp \in [Attempts -> Nat]
  /\ succeeded \in [Attempts -> BOOLEAN]

\* A half-open mark always belongs to a live probe.  The mark makes begin_at
\* refuse every other attempt, so a mark whose owner is gone would take the
\* target out of service for good (record_at and Drop must clear it on every
\* path out of a probe).
ProbeMarkIsOwned == \A t \in half_open : Probers(t) # {}

\* A probe mark is only ever on a target whose cooldown is really over, even
\* though begin_at and record_at work with timestamps read before the mutex.
ProbeAfterCooldown ==
  \A t \in half_open : opened_at[t] # NoTime /\ clock - opened_at[t] >= Cooldown

\* The two maps of the breaker never disagree: the target has an opening time
\* exactly when its failure count has reached the threshold (record_at updates
\* them in separate branches, and begin_at looks at opened_at only).
OpenIffThreshold ==
  \A t \in Targets : opened_at[t] # NoTime <=> failures[t] >= threshold

\* The plan filter and the admission agree: at one instant allow_at lists a
\* target exactly when begin_at would grant an attempt.  The two test the maps
\* in a different order, so this rests on a mark implying an open target.
PlanAgreesWithBegin ==
  \A t \in Targets :
    allow_at(t, clock) <=> begins_closed(t) \/ begins_half_open(t, clock)

\* An attempt never records an instant that has not come yet, and the opening
\* time is never in the future: cooldowns are finite.
StampsInPast ==
  /\ \A t \in Targets : opened_at[t] =< clock
  /\ \A a \in Attempts : stamp[a] =< clock

\* Every probe mark is eventually cleared: a target is not left half-open
\* for ever when its probe is completed, cancelled or dropped.
ProbeMarkCleared == \A t \in Targets : (t \in half_open) ~> (t \notin half_open)

\* "one single-flight HALF-OPEN probe": at most one live probe per target.
SoleProbe == \A t \in Targets : Cardinality(Probers(t)) =< 1

-----------------------------------------------------------------------------
(* Proofs: the breaker keeps its maps consistent for every number of       *)
(* attempts and targets, any threshold and any cooldown.                    *)

\* The inductive invariant.  StampsInPast is what lets ProbeAfterCooldown
\* speak of the real clock although begin_at compares a stale timestamp.
Inv ==
  /\ TypeOK
  /\ StampsInPast
  /\ ProbeMarkIsOwned
  /\ ProbeAfterCooldown
  /\ OpenIffThreshold

USE ThresholdAssumption, CooldownAssumption, MaxCountAssumption,
    MaxTimeAssumption

\* The effective threshold is at least one failure and within the counter.
LEMMA ThresholdInRange == threshold \in 1..MaxCount
  BY DEF threshold

\* saturating_add stays within the counter and never passes over the threshold.
LEMMA SaturatingInc ==
  ASSUME NEW n \in 0..MaxCount
  PROVE  /\ saturating_inc(n) \in 0..MaxCount
         /\ saturating_inc(n) >= n
  BY DEF saturating_inc

\* Type correctness: every operation keeps the breaker maps and the attempt
\* records within their types, whatever the interleaving.
THEOREM TypeCorrect == Spec => []TypeOK
<1>1. Init => TypeOK
  BY DEF Init, TypeOK, Phases, CircuitAttempt, NoTime
<1>2. TypeOK /\ [Next]_vars => TypeOK'
  <2> SUFFICES ASSUME TypeOK, [Next]_vars
               PROVE  TypeOK'
    OBVIOUS
  <2> USE DEF TypeOK, Phases, CircuitAttempt, NoTime
  <2>1. CASE Tick
    BY <2>1 DEF Tick, breakerVars, attemptVars
  <2>2. ASSUME NEW a \in Attempts, NEW t \in Targets, ReadBeginClock(a, t)
        PROVE  TypeOK'
    BY <2>2 DEF ReadBeginClock, breakerVars
  <2>3. ASSUME NEW a \in Attempts, BeginClosed(a)
        PROVE  TypeOK'
    BY <2>3 DEF BeginClosed, breakerVars
  <2>4. ASSUME NEW a \in Attempts, BeginHalfOpen(a)
        PROVE  TypeOK'
    BY <2>4 DEF BeginHalfOpen
  <2>5. ASSUME NEW a \in Attempts, BeginRefused(a)
        PROVE  TypeOK'
    BY <2>5 DEF BeginRefused, breakerVars
  <2>6. ASSUME NEW a \in Attempts, NEW ok \in BOOLEAN, Complete(a, ok)
        PROVE  TypeOK'
    BY <2>6 DEF Complete, breakerVars
  <2>7. ASSUME NEW a \in Attempts, DropAttempt(a)
        PROVE  TypeOK'
    BY <2>7 DEF DropAttempt, breakerVars
  <2>8. ASSUME NEW a \in Attempts, Record(a)
        PROVE  TypeOK'
    <3>1. CASE succeeded[a]
      BY <2>8, <3>1 DEF Record, record_success
    <3>2. CASE ~succeeded[a]
      BY <2>8, <3>2, SaturatingInc DEF Record, record_failure
    <3> QED
      BY <3>1, <3>2
  <2>9. CASE UNCHANGED vars
    BY <2>9 DEF vars
  <2> QED
    BY <2>1, <2>2, <2>3, <2>4, <2>5, <2>6, <2>7, <2>8, <2>9
       DEF Next, Begin, Finish
<1> QED
  BY <1>1, <1>2, PTL DEF Spec

-----------------------------------------------------------------------------
\* A step that keeps the attempts' phase, target and state for everybody who
\* is not starting keeps every probe of a target whose mark survives.
LEMMA ProbersKept ==
  ASSUME TypeOK, ProbeMarkIsOwned, NEW S \in SUBSET half_open,
         \A b \in Attempts : phase[b] \in {"running", "recording"} /\ target[b] \in S
           => /\ phase'[b] \in {"running", "recording"} \/ state[b] # "HalfOpen"
              /\ target'[b] = target[b]
              /\ state'[b] = state[b]
  PROVE  \A t \in S : Probers(t)' # {}
<1> SUFFICES ASSUME NEW t \in S
             PROVE  Probers(t)' # {}
  OBVIOUS
<1>1. PICK b \in Attempts : /\ phase[b] \in {"running", "recording"}
                            /\ state[b] = "HalfOpen"
                            /\ target[b] = t
  BY DEF ProbeMarkIsOwned, Probers
<1>2. /\ phase'[b] \in {"running", "recording"}
      /\ target'[b] = t
      /\ state'[b] = "HalfOpen"
  BY <1>1
<1> QED
  BY <1>2 DEF Probers

\* The breaker's maps stay consistent: every probe mark has a live owner and
\* lies after the cooldown, and a target is open exactly at the threshold.
THEOREM Consistent == Spec => []Inv
<1>1. Init => Inv
  BY ThresholdInRange
     DEF Init, Inv, TypeOK, StampsInPast, ProbeMarkIsOwned, ProbeAfterCooldown,
         OpenIffThreshold, Phases, CircuitAttempt, NoTime
<1>2. TypeOK' /\ Inv /\ [Next]_vars => Inv'
  <2> SUFFICES ASSUME TypeOK', Inv, [Next]_vars
               PROVE  /\ StampsInPast'
                      /\ ProbeMarkIsOwned'
                      /\ ProbeAfterCooldown'
                      /\ OpenIffThreshold'
    BY DEF Inv
  <2> USE DEF Inv
  <2>1. CASE Tick
    <3>1. StampsInPast' /\ ProbeAfterCooldown' /\ OpenIffThreshold'
      BY <2>1 DEF Tick, TypeOK, StampsInPast, ProbeAfterCooldown,
                  OpenIffThreshold, breakerVars, attemptVars, NoTime
    <3>2. ProbeMarkIsOwned'
      BY <2>1 DEF Tick, ProbeMarkIsOwned, Probers, breakerVars, attemptVars
    <3> QED BY <3>1, <3>2
  <2>2. ASSUME NEW a \in Attempts, NEW t \in Targets, ReadBeginClock(a, t)
        PROVE  StampsInPast' /\ ProbeMarkIsOwned' /\ ProbeAfterCooldown' /\ OpenIffThreshold'
    <3>1. StampsInPast' /\ ProbeAfterCooldown' /\ OpenIffThreshold'
      BY <2>2 DEF ReadBeginClock, TypeOK, StampsInPast, ProbeAfterCooldown,
                  OpenIffThreshold, breakerVars
    <3>2. ProbeMarkIsOwned'
      BY <2>2, ProbersKept DEF ReadBeginClock, TypeOK, ProbeMarkIsOwned, breakerVars
    <3> QED BY <3>1, <3>2
  <2>3. ASSUME NEW a \in Attempts, BeginClosed(a)
        PROVE  StampsInPast' /\ ProbeMarkIsOwned' /\ ProbeAfterCooldown' /\ OpenIffThreshold'
    <3>1. StampsInPast' /\ ProbeAfterCooldown' /\ OpenIffThreshold'
      BY <2>3 DEF BeginClosed, TypeOK, StampsInPast, ProbeAfterCooldown,
                  OpenIffThreshold, breakerVars
    <3>2. ProbeMarkIsOwned'
      BY <2>3, ProbersKept DEF BeginClosed, TypeOK, ProbeMarkIsOwned, breakerVars
    <3> QED BY <3>1, <3>2
  <2>4. ASSUME NEW a \in Attempts, BeginHalfOpen(a)
        PROVE  StampsInPast' /\ ProbeMarkIsOwned' /\ ProbeAfterCooldown' /\ OpenIffThreshold'
    <3>1. StampsInPast' /\ OpenIffThreshold'
      BY <2>4 DEF BeginHalfOpen, TypeOK, StampsInPast, OpenIffThreshold
    <3>2. ProbeAfterCooldown'
      BY <2>4 DEF BeginHalfOpen, begins_half_open, TypeOK, StampsInPast,
                  ProbeAfterCooldown, NoTime
    <3>3. \A t \in half_open : Probers(t)' # {}
      BY <2>4, ProbersKept DEF BeginHalfOpen, TypeOK
    <3>4. a \in Probers(target[a])'
      BY <2>4 DEF BeginHalfOpen, TypeOK, Probers
    <3>5. ProbeMarkIsOwned'
      BY <2>4, <3>3, <3>4 DEF BeginHalfOpen, ProbeMarkIsOwned
    <3> QED BY <3>1, <3>2, <3>5
  <2>5. ASSUME NEW a \in Attempts, BeginRefused(a)
        PROVE  StampsInPast' /\ ProbeMarkIsOwned' /\ ProbeAfterCooldown' /\ OpenIffThreshold'
    <3>1. StampsInPast' /\ ProbeAfterCooldown' /\ OpenIffThreshold'
      BY <2>5 DEF BeginRefused, TypeOK, StampsInPast, ProbeAfterCooldown,
                  OpenIffThreshold, breakerVars
    <3>2. ProbeMarkIsOwned'
      BY <2>5, ProbersKept DEF BeginRefused, TypeOK, ProbeMarkIsOwned, breakerVars
    <3> QED BY <3>1, <3>2
  <2>6. ASSUME NEW a \in Attempts, NEW ok \in BOOLEAN, Complete(a, ok)
        PROVE  StampsInPast' /\ ProbeMarkIsOwned' /\ ProbeAfterCooldown' /\ OpenIffThreshold'
    <3>1. StampsInPast' /\ ProbeAfterCooldown' /\ OpenIffThreshold'
      BY <2>6 DEF Complete, TypeOK, StampsInPast, ProbeAfterCooldown,
                  OpenIffThreshold, breakerVars
    <3>2. ProbeMarkIsOwned'
      BY <2>6, ProbersKept DEF Complete, TypeOK, ProbeMarkIsOwned, breakerVars
    <3> QED BY <3>1, <3>2
  <2>7. ASSUME NEW a \in Attempts, DropAttempt(a)
        PROVE  StampsInPast' /\ ProbeMarkIsOwned' /\ ProbeAfterCooldown' /\ OpenIffThreshold'
    <3>1. StampsInPast' /\ ProbeAfterCooldown' /\ OpenIffThreshold'
      BY <2>7 DEF DropAttempt, TypeOK, StampsInPast, ProbeAfterCooldown,
                  OpenIffThreshold, breakerVars
    <3>2. ProbeMarkIsOwned'
      BY <2>7, ProbersKept DEF DropAttempt, TypeOK, ProbeMarkIsOwned, breakerVars
    <3> QED BY <3>1, <3>2
  <2>8. ASSUME NEW a \in Attempts, Record(a)
        PROVE  StampsInPast' /\ ProbeMarkIsOwned' /\ ProbeAfterCooldown' /\ OpenIffThreshold'
    <3>1. half_open' = half_open \ {target[a]}
      BY <2>8 DEF Record, record_success, record_failure
    <3>2. ProbeMarkIsOwned'
      BY <2>8, <3>1, ProbersKept DEF Record, TypeOK, ProbeMarkIsOwned
    <3>3. CASE succeeded[a]
      BY <2>8, <3>2, <3>3, ThresholdInRange
         DEF Record, record_success, TypeOK, StampsInPast, ProbeAfterCooldown,
             OpenIffThreshold, NoTime
    <3>4. CASE ~succeeded[a]
      <4>1. StampsInPast' /\ ProbeAfterCooldown'
        BY <2>8, <3>4 DEF Record, record_failure, TypeOK, StampsInPast,
                          ProbeAfterCooldown, NoTime
      <4>2. OpenIffThreshold'
        BY <2>8, <3>4, SaturatingInc, ThresholdInRange
           DEF Record, record_failure, TypeOK, OpenIffThreshold, NoTime
      <4> QED BY <3>2, <4>1, <4>2
    <3> QED BY <3>3, <3>4
  <2>9. CASE UNCHANGED vars
    BY <2>9 DEF vars, StampsInPast, ProbeMarkIsOwned, ProbeAfterCooldown,
                OpenIffThreshold, Probers
  <2> QED
    BY <2>1, <2>2, <2>3, <2>4, <2>5, <2>6, <2>7, <2>8, <2>9
       DEF Next, Begin, Finish
<1> QED
  BY <1>1, <1>2, TypeCorrect, PTL DEF Spec

\* No probe mark outlives its probe: begin_at never refuses a cooled-down
\* target on behalf of an attempt that has already ended.
THEOREM ProbeMarkAlwaysOwned == Spec => []ProbeMarkIsOwned
BY Consistent, PTL DEF Inv

\* A target that is being probed has really served its cooldown.
THEOREM ProbeAlwaysAfterCooldown == Spec => []ProbeAfterCooldown
BY Consistent, PTL DEF Inv

\* opened_at and failures never disagree about whether a target is open.
THEOREM OpenExactlyAtThreshold == Spec => []OpenIffThreshold
BY Consistent, PTL DEF Inv

\* allow_at and begin_at agree in every reachable state, so a delivery plan
\* never lists a target that the breaker would refuse at that instant, and
\* never hides one it would grant.
THEOREM PlanAlwaysAgreesWithBegin == Spec => []PlanAgreesWithBegin
<1>1. Inv => PlanAgreesWithBegin
  BY DEF Inv, TypeOK, ProbeAfterCooldown, PlanAgreesWithBegin, allow_at,
         begins_closed, begins_half_open, NoTime
<1> QED
  BY <1>1, Consistent, PTL

=============================================================================
