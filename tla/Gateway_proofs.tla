--------------------------- MODULE Gateway_proofs ---------------------------
(***************************************************************************)
(* What TLAPS proves about the request handler, for any configuration, any *)
(* requests and any number of them.                                        *)
(***************************************************************************)
EXTENDS Gateway, FiniteSetTheorems, SequenceTheorems, TLAPS

-----------------------------------------------------------------------------
(* The shape of the state.  What a field holds is left open unless a proof  *)
(* needs it.                                                               *)

SlotFields == {"pc", "lease", "budget", "permit", "guard", "at"}
StoreFields == {"spend", "counted", "reserved", "leases", "counts", "canary"}

IsSlot(q) ==
  /\ SlotFields \subseteq DOMAIN q
  /\ q.lease \in BOOLEAN /\ q.budget \in BOOLEAN /\ q.permit \in BOOLEAN
  /\ q.at # "" => q.pc = "done"
  /\ q.pc = "done" => ~q.permit

IsStore(r) ==
  /\ StoreFields \subseteq DOMAIN r
  /\ r.leases \subseteq Slots /\ DOMAIN r.reserved \subseteq Slots

Shape ==
  /\ DOMAIN st = Slots /\ \A s \in Slots : IsSlot(st[s])
  /\ IsStore(redis)
  /\ faults \in Nat /\ drops \in Nat
  /\ world.maxInFlight \in Nat

LeaseCovered(s) ==
  st[s].lease \/ Awaited("release_lease", s) \/ st[s].at = "lease" \/ faults > 0

BudgetCovered(s) ==
  \/ st[s].budget \/ Awaited("release_budget", s)
  \/ st[s].at \in {"reserve", "settle"} \/ faults > 0

Permits == {s \in Slots : st[s].permit}

(* The inductive invariant: NothingLeaks, the shape, and that only a       *)
(* request that is over says where its client left.                        *)
LeakInv ==
  /\ Shape
  /\ \A s \in redis.leases : LeaseCovered(s)
  /\ \A s \in DOMAIN redis.reserved : BudgetCovered(s)
  /\ Cardinality(Permits) <= world.maxInFlight

(* What a step of request s may do to everyone's holdings.                 *)
FrameOf(s) ==
  /\ world' = world
  /\ DOMAIN st' = Slots /\ \A x \in Slots \ {s} : st'[x] = st[x]
  /\ tasks \subseteq tasks'
  /\ faults' \in Nat /\ faults <= faults'
  /\ drops' \in Nat

(* The parts of the shared state that record who holds what are as before. *)
SameHoldings(r) ==
  /\ StoreFields \subseteq DOMAIN r
  /\ r.leases = redis.leases /\ r.reserved = redis.reserved

-----------------------------------------------------------------------------
LEMMA Sets ==
  ASSUME NEW T, IsFiniteSet(T), NEW s
  PROVE  /\ IsFiniteSet(T \cup {s}) /\ IsFiniteSet(T \ {s})
         /\ Cardinality(T \cup {s}) <= Cardinality(T) + 1
         /\ Cardinality(T \ {s}) <= Cardinality(T)
         /\ Cardinality(T) \in Nat
PROOF
  <1>1. Cardinality(T) \in Nat
    BY FS_CardinalityType
  <1>2. IsFiniteSet(T \cup {s}) /\ Cardinality(T \cup {s}) = IF s \in T THEN Cardinality(T) ELSE Cardinality(T) + 1
    BY FS_AddElement
  <1>3. IsFiniteSet(T \ {s}) /\ Cardinality(T \ {s}) = IF s \in T THEN Cardinality(T) - 1 ELSE Cardinality(T)
    BY FS_RemoveElement
  <1> QED
    BY <1>1, <1>2, <1>3

(* A step that leaves every request covered keeps the invariant.           *)
LEMMA StepKeeps ==
  ASSUME LeakInv, NEW s \in Slots, FrameOf(s),
         IsSlot(st'[s]), IsStore(redis'),
         redis'.leases \subseteq redis.leases \cup {s},
         DOMAIN redis'.reserved \subseteq DOMAIN redis.reserved \cup {s},
         s \in redis'.leases => LeaseCovered(s)',
         s \in DOMAIN redis'.reserved => BudgetCovered(s)',
         st'[s].permit => st[s].permit \/ ~Full
  PROVE  LeakInv'
PROOF
  <1>1. Shape'
    BY DEF LeakInv, Shape, FrameOf, IsSlot, IsStore
  <1>2. \A x \in redis'.leases : LeaseCovered(x)'
    <2> SUFFICES ASSUME NEW x \in redis'.leases, x # s PROVE LeaseCovered(x)'
      OBVIOUS
    <2>1. x \in Slots /\ x \in redis.leases /\ st'[x] = st[x] /\ LeaseCovered(x)
      BY DEF LeakInv, Shape, IsStore, FrameOf
    <2>2. Awaited("release_lease", x) => Awaited("release_lease", x)'
      BY DEF Awaited, FrameOf
    <2>3. faults > 0 => faults' > 0
      BY DEF LeakInv, Shape, FrameOf
    <2> QED
      BY <2>1, <2>2, <2>3 DEF LeaseCovered
  <1>3. \A x \in DOMAIN redis'.reserved : BudgetCovered(x)'
    <2> SUFFICES ASSUME NEW x \in DOMAIN redis'.reserved, x # s PROVE BudgetCovered(x)'
      OBVIOUS
    <2>1. x \in Slots /\ x \in DOMAIN redis.reserved /\ st'[x] = st[x] /\ BudgetCovered(x)
      BY DEF LeakInv, Shape, IsStore, FrameOf
    <2>2. Awaited("release_budget", x) => Awaited("release_budget", x)'
      BY DEF Awaited, FrameOf
    <2>3. faults > 0 => faults' > 0
      BY DEF LeakInv, Shape, FrameOf
    <2> QED
      BY <2>1, <2>2, <2>3 DEF BudgetCovered
  <1>4. Cardinality(Permits') <= world'.maxInFlight
    <2> DEFINE P == Permits
               Q == Permits'
    <2>1. IsFiniteSet(P) /\ IsFiniteSet(Q)
      BY GatewayAssumption, FS_Subset DEF Permits
    <2>2. \A x \in Slots \ {s} : x \in Q <=> x \in P
      BY DEF FrameOf, Permits
    <2>3. Q \subseteq Slots /\ P \subseteq Slots
      BY DEF Permits
    <2>4. Cardinality(P) <= world.maxInFlight /\ Cardinality(P) \in Nat /\ world.maxInFlight \in Nat
      BY <2>1, FS_CardinalityType DEF LeakInv, Shape
    <2>5. CASE s \notin Q
      <3>1. Q = P \ {s}
        BY <2>2, <2>3, <2>5
      <3>2. Cardinality(P \ {s}) <= Cardinality(P) /\ Cardinality(P \ {s}) \in Nat
        BY <2>1, Sets, FS_CardinalityType
      <3> QED
        BY <3>1, <3>2, <2>4 DEF FrameOf
    <2>6. CASE s \in Q /\ s \in P
      <3>1. Q = P
        BY <2>2, <2>3, <2>6
      <3> QED
        BY <3>1, <2>4 DEF FrameOf
    <2>7. CASE s \in Q /\ s \notin P
      <3>1. Q = P \cup {s}
        BY <2>2, <2>3, <2>7
      <3>2. ~Full
        BY <2>7 DEF Permits
      <3>3. Cardinality(P) < world.maxInFlight
        BY <3>2, <2>4 DEF Full, Permits
      <3>4. Cardinality(P \cup {s}) <= Cardinality(P) + 1 /\ Cardinality(P \cup {s}) \in Nat
        BY <2>1, Sets, FS_CardinalityType
      <3> QED
        BY <3>1, <3>3, <3>4, <2>4 DEF FrameOf
    <2> QED
      BY <2>5, <2>6, <2>7
  <1> QED
    BY <1>1, <1>2, <1>3, <1>4 DEF LeakInv

(* What Goes and Ends do to the slots.                                     *)
LEMMA GoesFrame ==
  ASSUME Shape, NEW s \in Slots, NEW q, SlotFields \subseteq DOMAIN q, NEW to, Goes(s, q, to)
  PROVE  /\ DOMAIN st' = Slots /\ \A x \in Slots \ {s} : st'[x] = st[x]
         /\ SlotFields \subseteq DOMAIN st'[s]
         /\ st'[s].pc = to /\ st'[s].lease = q.lease /\ st'[s].budget = q.budget
         /\ st'[s].permit = q.permit /\ st'[s].at = q.at
PROOF
  <1>1. st' = [st EXCEPT ![s] = [q EXCEPT !.pc = to]]
    BY DEF Goes
  <1>2. DOMAIN st = Slots
    BY DEF Shape
  <1>3. st'[s] = [q EXCEPT !.pc = to]
    BY <1>1, <1>2
  <1> QED
    BY <1>1, <1>2, <1>3 DEF SlotFields

LEMMA EndsFrame ==
  ASSUME Shape, NEW s \in Slots, NEW q, SlotFields \subseteq DOMAIN q, NEW reply, Ends(s, q, reply)
  PROVE  /\ DOMAIN st' = Slots /\ \A x \in Slots \ {s} : st'[x] = st[x]
         /\ SlotFields \subseteq DOMAIN st'[s]
         /\ st'[s].pc = "done" /\ ~st'[s].lease /\ ~st'[s].budget /\ ~st'[s].permit
         /\ st'[s].at = q.at /\ IsSlot(st'[s])
         /\ tasks \subseteq tasks'
         /\ q.lease => Awaited("release_lease", s)'
         /\ q.budget => Awaited("release_budget", s)'
PROOF
  <1> DEFINE r == [q EXCEPT !.pc = "done", !.reply = reply, !.permit = FALSE,
                            !.lease = FALSE, !.budget = FALSE, !.guard = FALSE]
  <1>1. st' = [st EXCEPT ![s] = r] /\ tasks' = tasks \cup Orphans(s, q)
    BY DEF Ends
  <1>2. DOMAIN st = Slots
    BY DEF Shape
  <1>3. st'[s] = r /\ DOMAIN st' = Slots /\ \A x \in Slots \ {s} : st'[x] = st[x]
    <2> HIDE DEF r
    <2> QED
      BY <1>1, <1>2
  <1>4. /\ DOMAIN r = DOMAIN q
        /\ r.pc = "done" /\ r.permit = FALSE /\ r.lease = FALSE /\ r.budget = FALSE /\ r.at = q.at
    BY DEF SlotFields
  <1>5. q.lease => Task("release_lease", s) \in tasks'
    BY <1>1 DEF Orphans
  <1>6. q.budget => Task("release_budget", s) \in tasks'
    BY <1>1 DEF Orphans
  <1>7. q.lease => Awaited("release_lease", s)'
    BY <1>5 DEF Awaited, Task
  <1>8. q.budget => Awaited("release_budget", s)'
    BY <1>6 DEF Awaited, Task
  <1> HIDE DEF r
  <1> QED
    BY <1>1, <1>3, <1>4, <1>7, <1>8 DEF IsSlot

(* A step in which the request goes on with what it holds.                 *)
LEMMA GoingOn ==
  ASSUME LeakInv, NEW s \in Slots, NEW q, DOMAIN q = DOMAIN st[s],
         q.lease = st[s].lease, q.budget = st[s].budget, q.at = st[s].at,
         q.permit = st[s].permit,
         NEW to, to # "done", st[s].pc # "done", Goes(s, q, to),
         SameHoldings(redis'), world' = world, tasks' = tasks,
         faults' \in Nat, faults <= faults', drops' = drops
  PROVE  LeakInv'
PROOF
  <1>1. Shape /\ IsSlot(st[s])
    BY DEF LeakInv, Shape
  <1>2. SlotFields \subseteq DOMAIN q
    BY <1>1 DEF IsSlot
  <1>3. /\ DOMAIN st' = Slots /\ \A x \in Slots \ {s} : st'[x] = st[x]
        /\ SlotFields \subseteq DOMAIN st'[s]
        /\ st'[s].pc = to /\ st'[s].lease = q.lease /\ st'[s].budget = q.budget
        /\ st'[s].permit = q.permit /\ st'[s].at = q.at
    BY <1>1, <1>2, GoesFrame
  <1>4. FrameOf(s)
    BY <1>1, <1>3 DEF FrameOf, Shape
  <1>5. IsSlot(st'[s])
    BY <1>1, <1>3 DEF IsSlot
  <1>6. IsStore(redis')
    BY <1>1 DEF IsStore, SameHoldings, Shape
  <1>7. Awaited("release_lease", s)' = Awaited("release_lease", s)
        /\ Awaited("release_budget", s)' = Awaited("release_budget", s)
    BY DEF Awaited
  <1>8. faults > 0 => faults' > 0
    BY <1>1 DEF Shape
  <1>9. s \in redis'.leases => LeaseCovered(s)'
    BY <1>3, <1>7, <1>8 DEF LeakInv, LeaseCovered, SameHoldings
  <1>10. s \in DOMAIN redis'.reserved => BudgetCovered(s)'
    BY <1>3, <1>7, <1>8 DEF LeakInv, BudgetCovered, SameHoldings
  <1> QED
    BY <1>3, <1>4, <1>5, <1>6, <1>9, <1>10, StepKeeps DEF SameHoldings

(* A step in which the handler returns: what it held becomes a task.       *)
LEMMA Returning ==
  ASSUME LeakInv, NEW s \in Slots, NEW q, DOMAIN q = DOMAIN st[s],
         q.lease = st[s].lease, q.budget = st[s].budget, q.at = st[s].at,
         NEW reply, st[s].pc # "done", Ends(s, q, reply),
         SameHoldings(redis'), world' = world,
         faults' \in Nat, faults <= faults', drops' = drops
  PROVE  LeakInv'
PROOF
  <1>1. Shape /\ IsSlot(st[s])
    BY DEF LeakInv, Shape
  <1>2. SlotFields \subseteq DOMAIN q
    BY <1>1 DEF IsSlot
  <1>3. /\ DOMAIN st' = Slots /\ \A x \in Slots \ {s} : st'[x] = st[x]
        /\ ~st'[s].permit /\ st'[s].at = q.at /\ IsSlot(st'[s])
        /\ tasks \subseteq tasks'
        /\ q.lease => Awaited("release_lease", s)'
        /\ q.budget => Awaited("release_budget", s)'
    BY <1>1, <1>2, EndsFrame
  <1>4. FrameOf(s)
    BY <1>1, <1>3 DEF FrameOf, Shape
  <1>6. IsStore(redis')
    BY <1>1 DEF IsStore, SameHoldings, Shape
  <1>7. /\ Awaited("release_lease", s) => Awaited("release_lease", s)'
        /\ Awaited("release_budget", s) => Awaited("release_budget", s)'
    BY <1>3 DEF Awaited
  <1>8. faults > 0 => faults' > 0
    BY <1>1 DEF Shape
  <1>9. s \in redis'.leases => LeaseCovered(s)'
    BY <1>3, <1>7, <1>8 DEF LeakInv, LeaseCovered, SameHoldings
  <1>10. s \in DOMAIN redis'.reserved => BudgetCovered(s)'
    BY <1>3, <1>7, <1>8 DEF LeakInv, BudgetCovered, SameHoldings
  <1> QED
    BY <1>3, <1>4, <1>6, <1>9, <1>10, StepKeeps DEF SameHoldings

(* Calls that leave the holdings alone, whether they fail or not.          *)
LEMMA CallsKeepHoldings ==
  ASSUME Shape, NEW effect, NEW partial, NEW ok \in BOOLEAN,
         RedisCalls(effect, partial, ok), SameHoldings(effect), \A r \in partial : SameHoldings(r)
  PROVE  SameHoldings(redis') /\ faults' \in Nat /\ faults <= faults'
PROOF
  <1>1. SameHoldings(redis)
    BY DEF SameHoldings, Shape, IsStore
  <1> QED
    BY <1>1 DEF RedisCalls, Shape

LEMMA CallKeepsHoldings ==
  ASSUME Shape, NEW effect, NEW ok \in BOOLEAN, Redis(effect, ok), SameHoldings(effect)
  PROVE  SameHoldings(redis') /\ faults' \in Nat /\ faults <= faults'
PROOF
  BY CallsKeepHoldings DEF Redis

LEMMA NoCallKeepsHoldings ==
  ASSUME Shape, NoRedis
  PROVE  SameHoldings(redis') /\ faults' \in Nat /\ faults <= faults'
PROOF
  BY DEF NoRedis, SameHoldings, Shape, IsStore

LEMMA OtherFields ==
  ASSUME Shape
  PROVE  /\ SameHoldings(redis)
         /\ \A c : SameHoldings(WithCounts(c)) /\ SameHoldings(WithCanary(c))
         /\ \A s : SameHoldings(RecordCost(s))
PROOF
  <1>1. SameHoldings(redis)
    BY DEF SameHoldings, Shape, IsStore
  <1>2. \A c : SameHoldings(WithCounts(c)) /\ SameHoldings(WithCanary(c))
    BY DEF SameHoldings, Shape, IsStore, StoreFields, WithCounts, WithCanary
  <1>3. ASSUME NEW s PROVE SameHoldings(RecordCost(s))
    <2> DEFINE spend == [x \in DOMAIN redis.spend \cup SpendScopes(s, st[s].served) |->
                           At(redis.spend, x, 0)
                           + IF x \in SpendScopes(s, st[s].served) THEN CostOf(s).realized ELSE 0]
               r == [[redis EXCEPT !.counted = redis.counted \cup {s}] EXCEPT !.spend = spend]
    <2>1. RecordCost(s) = IF s \in redis.counted THEN redis ELSE r
      BY DEF RecordCost
    <2> HIDE DEF spend
    <2>2. SameHoldings(r)
      BY DEF SameHoldings, Shape, IsStore, StoreFields
    <2> HIDE DEF r
    <2> QED
      BY <1>1, <2>1, <2>2
  <1> QED
    BY <1>1, <1>2, <1>3

-----------------------------------------------------------------------------
(* The steps of a request, action by action.                               *)

LEMMA PreflightKeepsLeakInv ==
  ASSUME LeakInv, NEW s \in Slots,
         Refuse(s) \/ PreflightLocal(s) \/ PreflightGlobal(s) \/ PreflightKey(s)
  PROVE  LeakInv'
PROOF
  <1>1. Shape
    BY DEF LeakInv
  <1>2. DOMAIN [st[s] EXCEPT !.grant = 0] = DOMAIN st[s]
    OBVIOUS
  <1>3. ASSUME NEW stage, Authenticated(s, stage), st[s].pc # "done", SameHoldings(redis'),
               world' = world, faults' \in Nat, faults <= faults', drops' = drops
        PROVE  LeakInv'
    <2> DEFINE q == [st[s] EXCEPT !.grant = stage.grant]
    <2>1. CASE stage.reply # ""
      <3>1. Ends(s, st[s], stage.reply)
        BY <1>3, <2>1 DEF Authenticated
      <3> QED
        BY <3>1, <1>3, Returning
    <2>2. CASE stage.reply = ""
      <3>1. Goes(s, q, "decide") /\ tasks' = tasks
        BY <1>3, <2>2 DEF Authenticated
      <3>2. /\ DOMAIN q = DOMAIN st[s] /\ q.lease = st[s].lease /\ q.budget = st[s].budget
            /\ q.at = st[s].at /\ q.permit = st[s].permit
        BY <1>1 DEF Shape, IsSlot, SlotFields
      <3> HIDE DEF q
      <3> QED
        BY <3>1, <3>2, <1>3, GoingOn
    <2> QED
      BY <2>1, <2>2
  <1>4. CASE Refuse(s)
    <2>1. Ends(s, st[s], BodyRefusal(calls[s])) /\ st[s].pc # "done" /\ NoRedis
          /\ world' = world /\ drops' = drops
      BY <1>4 DEF Refuse, At_, fixed
    <2> QED
      BY <2>1, <1>1, NoCallKeepsHoldings, Returning
  <1>5. CASE PreflightLocal(s)
    <2> DEFINE g == admit_global(A, counts)
               stage == KeyStage(s, g.counts)
    <2>1. /\ st[s].pc # "done" /\ NoRedis /\ world' = world /\ drops' = drops
          /\ IF ~A.active THEN Goes(s, st[s], "decide") /\ UNCHANGED <<tasks, counts>>
             ELSE IF ~g.allowed THEN Ends(s, st[s], "rate_limited") /\ counts' = g.counts
             ELSE Authenticated(s, stage) /\ counts' = stage.counts
      BY <1>5 DEF PreflightLocal, At_, fixed
    <2> HIDE DEF g, stage
    <2>2. SameHoldings(redis') /\ faults' \in Nat /\ faults <= faults'
      BY <2>1, <1>1, NoCallKeepsHoldings
    <2>3. CASE ~A.active
      <3>1. Goes(s, st[s], "decide") /\ tasks' = tasks
        BY <2>1, <2>3
      <3> QED
        BY <3>1, <2>1, <2>2, GoingOn
    <2>4. CASE A.active /\ ~g.allowed
      <3>1. Ends(s, st[s], "rate_limited")
        BY <2>1, <2>4
      <3> QED
        BY <3>1, <2>1, <2>2, Returning
    <2>5. CASE A.active /\ g.allowed
      <3>1. Authenticated(s, stage)
        BY <2>1, <2>5
      <3> QED
        BY <3>1, <2>1, <2>2, <1>3
    <2> QED
      BY <2>3, <2>4, <2>5
  <1>6. CASE PreflightGlobal(s)
    <2>1. PICK ok \in BOOLEAN :
            LET g == admit_global(A, IF ok THEN redis.counts ELSE counts)
            IN /\ Redis(WithCounts(admit_global(A, redis.counts).counts), ok)
               /\ counts' = IF ok THEN counts ELSE g.counts
               /\ IF g.allowed THEN Goes(s, st[s], "auth") /\ UNCHANGED tasks
                  ELSE Ends(s, st[s], "rate_limited")
      BY <1>6 DEF PreflightGlobal
    <2>2. SameHoldings(redis') /\ faults' \in Nat /\ faults <= faults'
      BY <2>1, <1>1, OtherFields, CallKeepsHoldings
    <2>3. st[s].pc # "done" /\ world' = world /\ drops' = drops
      BY <1>6 DEF PreflightGlobal, At_, fixed
    <2>4. (Goes(s, st[s], "auth") /\ tasks' = tasks) \/ Ends(s, st[s], "rate_limited")
      BY <2>1
    <2> QED
      BY <2>2, <2>3, <2>4, GoingOn, Returning
  <1>7. CASE PreflightKey(s)
    <2>1. PICK ok \in BOOLEAN :
            LET stage == KeyStage(s, IF ok THEN redis.counts ELSE counts)
            IN /\ RedisCalls(WithCounts(KeyStage(s, redis.counts).counts), PartialKeyStage(s), ok)
               /\ counts' = IF ok THEN counts ELSE stage.counts
               /\ Authenticated(s, stage)
      BY <1>7 DEF PreflightKey
    <2>2. \A r \in PartialKeyStage(s) : SameHoldings(r)
      BY <1>1, OtherFields DEF PartialKeyStage
    <2>3. SameHoldings(redis') /\ faults' \in Nat /\ faults <= faults'
      BY <2>1, <2>2, <1>1, OtherFields, CallsKeepHoldings
    <2>4. st[s].pc # "done" /\ world' = world /\ drops' = drops
      BY <1>7 DEF PreflightKey, At_, fixed
    <2> QED
      BY <2>1, <2>3, <2>4, <1>3
  <1> QED
    BY <1>4, <1>5, <1>6, <1>7

LEMMA DecisionKeepsLeakInv ==
  ASSUME LeakInv, NEW s \in Slots,
         \/ RefuseOverride(s) \/ Decide(s) \/ CanarySnapshot(s) \/ CanaryExpose(s) \/ Headers(s)
  PROVE  LeakInv'
PROOF
  <1>1. Shape /\ SlotFields \subseteq DOMAIN st[s]
    BY DEF LeakInv, Shape, IsSlot
  <1>2. CASE RefuseOverride(s)
    <2>1. Ends(s, st[s], "bad_override") /\ st[s].pc # "done" /\ NoRedis
          /\ world' = world /\ drops' = drops
      BY <1>2 DEF RefuseOverride, At_, fixed
    <2> QED
      BY <2>1, <1>1, NoCallKeepsHoldings, Returning
  <1>3. CASE Decide(s)
    <2>0. st[s].pc # "done" /\ world' = world /\ drops' = drops
      BY <1>3 DEF Decide, At_, fixed
    <2>1. \/ \E reply : Ends(s, st[s], reply) /\ NoRedis
          \/ \E ok \in BOOLEAN : \E reply : Ends(s, st[s], reply) /\ Redis(redis, ok)
          \/ \E ok \in BOOLEAN : \E d, c, deg :
               /\ Redis(redis, ok)
               /\ Goes(s, [st[s] EXCEPT !.facts = d, !.choice = c, !.baseline = c.model, !.degraded = deg],
                       IF MayCanary(c) THEN "snapshot" ELSE "headers")
               /\ UNCHANGED tasks
      BY <1>3 DEF Decide
    <2>2. ASSUME NEW reply, Ends(s, st[s], reply), NoRedis PROVE LeakInv'
      BY <2>2, <2>0, <1>1, NoCallKeepsHoldings, Returning
    <2>3. ASSUME NEW ok \in BOOLEAN, NEW reply, Ends(s, st[s], reply), Redis(redis, ok) PROVE LeakInv'
      BY <2>3, <2>0, <1>1, OtherFields, CallKeepsHoldings, Returning
    <2>4. ASSUME NEW ok \in BOOLEAN, NEW d, NEW c, NEW deg, Redis(redis, ok),
                 Goes(s, [st[s] EXCEPT !.facts = d, !.choice = c, !.baseline = c.model, !.degraded = deg],
                      IF MayCanary(c) THEN "snapshot" ELSE "headers"),
                 UNCHANGED tasks
          PROVE  LeakInv'
      <3> DEFINE q == [st[s] EXCEPT !.facts = d, !.choice = c, !.baseline = c.model, !.degraded = deg]
                 to == IF MayCanary(c) THEN "snapshot" ELSE "headers"
      <3>1. Goes(s, q, to) /\ tasks' = tasks /\ to # "done"
        BY <2>4
      <3> HIDE DEF to
      <3>2. SameHoldings(redis') /\ faults' \in Nat /\ faults <= faults'
        BY <2>4, <1>1, OtherFields, CallKeepsHoldings
      <3>3. /\ DOMAIN q = DOMAIN st[s] /\ q.lease = st[s].lease /\ q.budget = st[s].budget
            /\ q.at = st[s].at /\ q.permit = st[s].permit
        BY <1>1 DEF SlotFields
      <3> HIDE DEF q
      <3> QED
        BY <3>1, <3>2, <3>3, <2>0, GoingOn
    <2> QED
      BY <2>1, <2>2, <2>3, <2>4
  <1>4. CASE CanarySnapshot(s)
    <2>1. PICK ok \in BOOLEAN :
            LET c == canary_snapshot(redis.canary, world.canary.window, now)
                identity == assignment_identity(world.canary, calls[s], WorkspaceIdOf(s), KeyOf(s))
            IN /\ Redis(WithCanary(c), ok)
               /\ Goes(s, st[s], IF ok /\ c.hash.tripped = "" /\ Eligible(world.canary, identity)
                                 THEN "expose" ELSE "headers")
      BY <1>4 DEF CanarySnapshot
    <2>2. Goes(s, st[s], "expose") \/ Goes(s, st[s], "headers")
      BY <2>1
    <2>3. SameHoldings(redis') /\ faults' \in Nat /\ faults <= faults'
      BY <2>1, <1>1, OtherFields, CallKeepsHoldings
    <2>4. st[s].pc # "done" /\ world' = world /\ tasks' = tasks /\ drops' = drops
      BY <1>4 DEF CanarySnapshot, At_, fixed
    <2> QED
      BY <2>2, <2>3, <2>4, GoingOn
  <1>5. CASE CanaryExpose(s)
    <2> DEFINE cfg == world.canary
               limited == exposure_limited(redis.canary, cfg.max_requests, cfg.window, now)
               route == SelectSeq(world.routes[cfg.candidate], LAMBDA m : Acceptable(world, m, D(s)))
               q == [st[s] EXCEPT !.choice = [st[s].choice EXCEPT !.model = route[1], !.mode = "canary"],
                                  !.canary = TRUE, !.guard = TRUE]
    <2>1. PICK ok \in BOOLEAN :
          /\ Redis(IF limited THEN redis
                   ELSE WithCanary(admit_exposure(redis.canary, cfg.window, now)), ok)
          /\ IF ok /\ ~limited /\ route # <<>> THEN Goes(s, q, "headers")
             ELSE Goes(s, st[s], "headers")
      BY <1>5 DEF CanaryExpose
    <2> HIDE DEF route
    <2>2. /\ DOMAIN q = DOMAIN st[s] /\ q.lease = st[s].lease /\ q.budget = st[s].budget
          /\ q.at = st[s].at /\ q.permit = st[s].permit
      BY <1>1 DEF SlotFields
    <2> HIDE DEF q, limited, cfg
    <2>3. SameHoldings(IF limited THEN redis ELSE WithCanary(admit_exposure(redis.canary, cfg.window, now)))
      BY <1>1, OtherFields
    <2>4. SameHoldings(redis') /\ faults' \in Nat /\ faults <= faults'
      BY <2>1, <2>3, <1>1, CallKeepsHoldings
    <2>5. st[s].pc # "done" /\ world' = world /\ tasks' = tasks /\ drops' = drops
      BY <1>5 DEF CanaryExpose, At_, fixed
    <2>6. Goes(s, q, "headers") \/ Goes(s, st[s], "headers")
      BY <2>1
    <2> QED
      BY <2>2, <2>4, <2>5, <2>6, GoingOn
  <1>6. CASE Headers(s)
    <2>1. PICK ok \in BOOLEAN :
            /\ Redis(redis, ok)
            /\ \E h : Goes(s, [st[s] EXCEPT !.head = h], "record")
      BY <1>6 DEF Headers
    <2>2. PICK h : Goes(s, [st[s] EXCEPT !.head = h], "record")
      BY <2>1
    <2> DEFINE q == [st[s] EXCEPT !.head = h]
    <2>3. /\ DOMAIN q = DOMAIN st[s] /\ q.lease = st[s].lease /\ q.budget = st[s].budget
          /\ q.at = st[s].at /\ q.permit = st[s].permit
      BY <1>1 DEF SlotFields
    <2>4. Goes(s, q, "record")
      BY <2>2
    <2> HIDE DEF q
    <2>5. SameHoldings(redis') /\ faults' \in Nat /\ faults <= faults'
      BY <2>1, <1>1, OtherFields, CallKeepsHoldings
    <2>6. st[s].pc # "done" /\ world' = world /\ tasks' = tasks /\ drops' = drops
      BY <1>6 DEF Headers, At_, fixed
    <2> QED
      BY <2>3, <2>4, <2>5, <2>6, GoingOn
  <1> QED
    BY <1>2, <1>3, <1>4, <1>5, <1>6

LEMMA RecordKeepsLeakInv ==
  ASSUME LeakInv, NEW s \in Slots, Record(s)
  PROVE  LeakInv'
PROOF
  <1>1. Shape /\ SlotFields \subseteq DOMAIN st[s]
    BY DEF LeakInv, Shape, IsSlot
  <1>2. st[s].pc # "done" /\ world' = world /\ drops' = drops /\ NoRedis
    BY DEF Record, At_, fixed
  <1>3. SameHoldings(redis') /\ faults' \in Nat /\ faults <= faults'
    BY <1>1, <1>2, NoCallKeepsHoldings
  <1>4. \/ \E reply : Ends(s, st[s], reply)
        \/ \E reply : Ends(s, decision_only_response(s), reply)
        \/ \E served, head : Ends(s, [st[s] EXCEPT !.served = served, !.head = head], "cached")
        \/ \E plan, miss : /\ Goes(s, [st[s] EXCEPT !.plan = plan, !.miss = miss],
                                   IF NeedsReservation(s) THEN "reserve" ELSE "admit")
                           /\ UNCHANGED tasks
    BY DEF Record
  <1>5. ASSUME NEW reply, Ends(s, st[s], reply) PROVE LeakInv'
    BY <1>2, <1>3, <1>5, Returning
  <1>6. ASSUME NEW reply, Ends(s, decision_only_response(s), reply) PROVE LeakInv'
    <2> DEFINE q == decision_only_response(s)
    <2>1. /\ DOMAIN q = DOMAIN st[s] /\ q.lease = st[s].lease /\ q.budget = st[s].budget
          /\ q.at = st[s].at
      BY <1>1 DEF decision_only_response, SlotFields
    <2> HIDE DEF q
    <2>2. Ends(s, q, reply)
      BY <1>6 DEF q
    <2> QED
      BY <2>1, <2>2, <1>2, <1>3, Returning
  <1>7. ASSUME NEW served, NEW head, Ends(s, [st[s] EXCEPT !.served = served, !.head = head], "cached")
        PROVE  LeakInv'
    <2> DEFINE q == [st[s] EXCEPT !.served = served, !.head = head]
    <2>1. /\ DOMAIN q = DOMAIN st[s] /\ q.lease = st[s].lease /\ q.budget = st[s].budget
          /\ q.at = st[s].at
      BY <1>1 DEF SlotFields
    <2>2. Ends(s, q, "cached")
      BY <1>7
    <2> HIDE DEF q
    <2> QED
      BY <2>1, <2>2, <1>2, <1>3, Returning
  <1>8. ASSUME NEW plan, NEW miss, tasks' = tasks,
               Goes(s, [st[s] EXCEPT !.plan = plan, !.miss = miss],
                    IF NeedsReservation(s) THEN "reserve" ELSE "admit")
        PROVE  LeakInv'
    <2> DEFINE q == [st[s] EXCEPT !.plan = plan, !.miss = miss]
               to == IF NeedsReservation(s) THEN "reserve" ELSE "admit"
    <2>1. /\ DOMAIN q = DOMAIN st[s] /\ q.lease = st[s].lease /\ q.budget = st[s].budget
          /\ q.at = st[s].at /\ q.permit = st[s].permit
      BY <1>1 DEF SlotFields
    <2>2. Goes(s, q, to) /\ to # "done"
      BY <1>8
    <2> HIDE DEF q, to
    <2> QED
      BY <2>1, <2>2, <1>2, <1>3, <1>8, GoingOn
  <1> QED
    BY <1>4, <1>5, <1>6, <1>7, <1>8

(* The reservation and the lease: the flag of a guard is set exactly when  *)
(* the call was heard to succeed.                                          *)
LEMMA StoreUpdates ==
  ASSUME Shape, NEW s \in Slots
  PROVE  /\ StoreFields \subseteq DOMAIN ReserveBudget(s)
         /\ ReserveBudget(s).leases = redis.leases
         /\ DOMAIN ReserveBudget(s).reserved
              = IF BudgetFits(s) THEN DOMAIN redis.reserved \cup {s} ELSE DOMAIN redis.reserved
         /\ ~BudgetFits(s) => ReserveBudget(s).reserved = redis.reserved
         /\ StoreFields \subseteq DOMAIN Unreserved(s)
         /\ Unreserved(s).leases = redis.leases
         /\ DOMAIN Unreserved(s).reserved = DOMAIN redis.reserved \ {s}
         /\ StoreFields \subseteq DOMAIN AcquireAdmission(s)
         /\ AcquireAdmission(s).leases = IF FleetFull THEN redis.leases ELSE redis.leases \cup {s}
         /\ AcquireAdmission(s).reserved = redis.reserved
PROOF
  <1>1. StoreFields \subseteq DOMAIN redis
    BY DEF Shape, IsStore
  <1>2. /\ StoreFields \subseteq DOMAIN ReserveBudget(s)
        /\ ReserveBudget(s).leases = redis.leases
        /\ DOMAIN ReserveBudget(s).reserved
              = IF BudgetFits(s) THEN DOMAIN redis.reserved \cup {s} ELSE DOMAIN redis.reserved
        /\ ~BudgetFits(s) => ReserveBudget(s).reserved = redis.reserved
    <2> DEFINE more == Put(redis.reserved, s, ReservationOf(s))
               new == IF BudgetFits(s) THEN more ELSE redis.reserved
    <2>1. DOMAIN more = DOMAIN redis.reserved \cup {s}
      BY DEF Put
    <2>2. ReserveBudget(s) = [redis EXCEPT !.reserved = new]
      BY DEF ReserveBudget
    <2> HIDE DEF more
    <2>3. /\ DOMAIN new = IF BudgetFits(s) THEN DOMAIN redis.reserved \cup {s} ELSE DOMAIN redis.reserved
          /\ ~BudgetFits(s) => new = redis.reserved
      BY <2>1
    <2> HIDE DEF new
    <2> QED
      BY <1>1, <2>2, <2>3 DEF StoreFields
  <1>3. /\ StoreFields \subseteq DOMAIN Unreserved(s)
        /\ Unreserved(s).leases = redis.leases
        /\ DOMAIN Unreserved(s).reserved = DOMAIN redis.reserved \ {s}
    BY <1>1 DEF Unreserved, StoreFields, Restrict
  <1>4. /\ StoreFields \subseteq DOMAIN AcquireAdmission(s)
        /\ AcquireAdmission(s).leases = IF FleetFull THEN redis.leases ELSE redis.leases \cup {s}
        /\ AcquireAdmission(s).reserved = redis.reserved
    BY <1>1 DEF AcquireAdmission, StoreFields
  <1> QED
    BY <1>2, <1>3, <1>4

LEMMA ReserveKeepsLeakInv ==
  ASSUME LeakInv, NEW s \in Slots, Reserve(s)
  PROVE  LeakInv'
PROOF
  <1>1. Shape /\ IsSlot(st[s]) /\ SlotFields \subseteq DOMAIN st[s] /\ IsStore(redis)
    BY DEF LeakInv, Shape, IsSlot
  <1>2. PICK ok \in BOOLEAN :
       /\ Redis(ReserveBudget(s), ok)
       /\ IF ok /\ ~BudgetFits(s) THEN Ends(s, st[s], "budget_blocked")
          ELSE Goes(s, [st[s] EXCEPT !.budget = ok], "admit") /\ UNCHANGED tasks
    BY DEF Reserve
  <1>3. st[s].pc = "reserve" /\ world' = world /\ drops' = drops
    BY DEF Reserve, At_, fixed
  <1>4. /\ faults' \in Nat /\ faults <= faults' /\ (~ok => faults' > 0)
        /\ redis' = redis \/ redis' = ReserveBudget(s)
        /\ ok => redis' = ReserveBudget(s)
    BY <1>1, <1>2 DEF Redis, RedisCalls, Shape
  <1>5. CASE ok /\ ~BudgetFits(s)
    <2>1. Ends(s, st[s], "budget_blocked")
      BY <1>2, <1>5
    <2>2. SameHoldings(ReserveBudget(s))
      BY <1>1, <1>5, StoreUpdates DEF SameHoldings
    <2>3. SameHoldings(redis')
      BY <2>2, <1>4, <1>5
    <2> QED
      BY <2>1, <2>3, <1>1, <1>3, <1>4, Returning
  <1>6. CASE ~(ok /\ ~BudgetFits(s))
    <2> DEFINE q == [st[s] EXCEPT !.budget = ok]
    <2>1. Goes(s, q, "admit") /\ tasks' = tasks
      BY <1>2, <1>6
    <2>2. SlotFields \subseteq DOMAIN q /\ q.lease = st[s].lease /\ q.budget = ok
          /\ q.at = st[s].at /\ q.permit = st[s].permit
      BY <1>1 DEF SlotFields
    <2> HIDE DEF q
    <2>3. /\ DOMAIN st' = Slots /\ \A x \in Slots \ {s} : st'[x] = st[x]
          /\ SlotFields \subseteq DOMAIN st'[s]
          /\ st'[s].pc = "admit" /\ st'[s].lease = st[s].lease /\ st'[s].budget = ok
          /\ st'[s].permit = st[s].permit /\ st'[s].at = st[s].at
      BY <2>1, <2>2, <1>1, GoesFrame
    <2>4. FrameOf(s)
      BY <2>1, <2>3, <1>1, <1>3, <1>4 DEF FrameOf, Shape
    <2>5. IsSlot(st'[s])
      BY <2>3, <1>1, <1>3 DEF IsSlot
    <2>6. /\ IsStore(redis') /\ redis'.leases = redis.leases
          /\ DOMAIN redis'.reserved \subseteq DOMAIN redis.reserved \cup {s}
      BY <1>1, <1>4, StoreUpdates, ZenonT(40) DEF IsStore
    <2>7. BudgetCovered(s)'
      BY <2>3, <1>4 DEF BudgetCovered
    <2>8. s \in redis'.leases => LeaseCovered(s)'
      <3>1. Awaited("release_lease", s)' = Awaited("release_lease", s)
        BY <2>1 DEF Awaited
      <3>2. faults > 0 => faults' > 0
        BY <1>1, <1>4 DEF Shape
      <3> QED
        BY <3>1, <3>2, <2>3, <2>6 DEF LeaseCovered, LeakInv
    <2> QED
      BY <2>3, <2>4, <2>5, <2>6, <2>7, <2>8, StepKeeps
  <1> QED
    BY <1>5, <1>6

LEMMA LeaseKeepsLeakInv ==
  ASSUME LeakInv, NEW s \in Slots, Lease(s)
  PROVE  LeakInv'
PROOF
  <1>1. Shape /\ IsSlot(st[s]) /\ SlotFields \subseteq DOMAIN st[s] /\ IsStore(redis)
    BY DEF LeakInv, Shape, IsSlot
  <1>2. PICK ok \in BOOLEAN :
       /\ Redis(AcquireAdmission(s), ok)
       /\ IF ok /\ FleetFull THEN Ends(s, st[s], "overloaded")
          ELSE Goes(s, [st[s] EXCEPT !.lease = ok], AfterAdmission(s)) /\ UNCHANGED tasks
    BY DEF Lease
  <1>3. st[s].pc = "lease" /\ world' = world /\ drops' = drops
    BY DEF Lease, At_, fixed
  <1>4. /\ faults' \in Nat /\ faults <= faults' /\ (~ok => faults' > 0)
        /\ redis' = redis \/ redis' = AcquireAdmission(s)
        /\ ok => redis' = AcquireAdmission(s)
    BY <1>1, <1>2 DEF Redis, RedisCalls, Shape
  <1>5. CASE ok /\ FleetFull
    <2>1. Ends(s, st[s], "overloaded")
      BY <1>2, <1>5
    <2>2. SameHoldings(AcquireAdmission(s))
      BY <1>1, <1>5, StoreUpdates DEF SameHoldings
    <2>3. SameHoldings(redis')
      BY <2>2, <1>4, <1>5
    <2> QED
      BY <2>1, <2>3, <1>1, <1>3, <1>4, Returning
  <1>6. CASE ~(ok /\ FleetFull)
    <2> DEFINE q == [st[s] EXCEPT !.lease = ok]
    <2>1. Goes(s, q, AfterAdmission(s)) /\ tasks' = tasks /\ AfterAdmission(s) \in {"tokens", "deliver"}
      BY <1>2, <1>6 DEF AfterAdmission
    <2>2. SlotFields \subseteq DOMAIN q /\ q.budget = st[s].budget /\ q.lease = ok
          /\ q.at = st[s].at /\ q.permit = st[s].permit
      BY <1>1 DEF SlotFields
    <2> HIDE DEF q
    <2>3. /\ DOMAIN st' = Slots /\ \A x \in Slots \ {s} : st'[x] = st[x]
          /\ SlotFields \subseteq DOMAIN st'[s]
          /\ st'[s].pc \in {"tokens", "deliver"} /\ st'[s].budget = st[s].budget /\ st'[s].lease = ok
          /\ st'[s].permit = st[s].permit /\ st'[s].at = st[s].at
      BY <2>1, <2>2, <1>1, GoesFrame
    <2>4. FrameOf(s)
      BY <2>1, <2>3, <1>1, <1>3, <1>4 DEF FrameOf, Shape
    <2>5. IsSlot(st'[s])
      BY <2>3, <1>1, <1>3 DEF IsSlot
    <2>6. /\ IsStore(redis') /\ redis'.reserved = redis.reserved
          /\ redis'.leases \subseteq redis.leases \cup {s}
      BY <1>1, <1>4, StoreUpdates DEF IsStore
    <2>7. LeaseCovered(s)'
      BY <2>3, <1>4 DEF LeaseCovered
    <2>8. s \in DOMAIN redis'.reserved => BudgetCovered(s)'
      <3>1. Awaited("release_budget", s)' = Awaited("release_budget", s)
        BY <2>1 DEF Awaited
      <3>2. faults > 0 => faults' > 0
        BY <1>1, <1>4 DEF Shape
      <3> QED
        BY <3>1, <3>2, <2>3, <2>6 DEF BudgetCovered, LeakInv
    <2> QED
      BY <2>3, <2>4, <2>5, <2>6, <2>7, <2>8, StepKeeps
  <1> QED
    BY <1>5, <1>6

LEMMA AdmissionKeepsLeakInv ==
  ASSUME LeakInv, NEW s \in Slots, Admit_(s) \/ Overloaded(s) \/ Tokens(s)
  PROVE  LeakInv'
PROOF
  <1>1. Shape /\ IsSlot(st[s]) /\ SlotFields \subseteq DOMAIN st[s]
    BY DEF LeakInv, Shape, IsSlot
  <1>2. CASE Admit_(s)
    <2> DEFINE q == [st[s] EXCEPT !.permit = TRUE]
               to == IF world.redis THEN "lease" ELSE AfterAdmission(s)
    <2>1. Goes(s, q, to) /\ to # "done" /\ ~Full /\ st[s].pc = "admit"
          /\ redis' = redis /\ faults' = faults /\ drops' = drops /\ tasks' = tasks /\ world' = world
      BY <1>2 DEF Admit_, AfterAdmission, NoRedis, At_, fixed
    <2> HIDE DEF to
    <2>2. SlotFields \subseteq DOMAIN q /\ q.budget = st[s].budget /\ q.lease = st[s].lease
          /\ q.at = st[s].at /\ q.permit = TRUE
      BY <1>1 DEF SlotFields
    <2> HIDE DEF q
    <2>3. /\ DOMAIN st' = Slots /\ \A x \in Slots \ {s} : st'[x] = st[x]
          /\ SlotFields \subseteq DOMAIN st'[s]
          /\ st'[s].pc = to /\ st'[s].budget = st[s].budget /\ st'[s].lease = st[s].lease
          /\ st'[s].permit = TRUE /\ st'[s].at = st[s].at
      BY <2>1, <2>2, <1>1, GoesFrame
    <2>4. FrameOf(s)
      BY <2>1, <2>3, <1>1 DEF FrameOf, Shape
    <2>5. IsSlot(st'[s]) /\ IsStore(redis')
      BY <2>1, <2>3, <1>1 DEF IsSlot, Shape
    <2>6. s \in redis'.leases => LeaseCovered(s)'
      BY <2>1, <2>3 DEF LeaseCovered, LeakInv, Awaited
    <2>7. s \in DOMAIN redis'.reserved => BudgetCovered(s)'
      BY <2>1, <2>3 DEF BudgetCovered, LeakInv, Awaited
    <2> QED
      BY <2>1, <2>4, <2>5, <2>6, <2>7, StepKeeps
  <1>3. CASE Overloaded(s)
    <2>1. Ends(s, st[s], "overloaded") /\ st[s].pc # "done" /\ NoRedis
          /\ world' = world /\ drops' = drops
      BY <1>3 DEF Overloaded, At_, fixed
    <2> QED
      BY <2>1, <1>1, NoCallKeepsHoldings, Returning
  <1>4. CASE Tokens(s)
    <2>0. st[s].pc # "done" /\ world' = world /\ drops' = drops
      BY <1>4 DEF Tokens, At_, fixed
    <2>1. \/ Ends(s, st[s], "token_bound_required") /\ NoRedis
          \/ \E ok \in BOOLEAN :
               /\ Redis(IF world.redis THEN SharedTokens(s) ELSE redis, ok)
               /\ \/ Ends(s, st[s], "rate_limited")
                  \/ \E kind : Goes(s, [st[s] EXCEPT !.reserved = kind], "deliver") /\ UNCHANGED tasks
      BY <1>4 DEF Tokens
    <2>2. CASE Ends(s, st[s], "token_bound_required") /\ NoRedis
      BY <2>0, <2>2, <1>1, NoCallKeepsHoldings, Returning
    <2>3. ASSUME NEW ok \in BOOLEAN, Redis(IF world.redis THEN SharedTokens(s) ELSE redis, ok)
          PROVE  SameHoldings(redis') /\ faults' \in Nat /\ faults <= faults'
      <3>1. SharedTokens(s) = WithCounts(reserve_tokens(A, redis.counts, st[s].grant,
                                          conservative_token_reservation(calls[s])).counts)
        BY DEF SharedTokens, WithCounts
      <3>2. SameHoldings(IF world.redis THEN SharedTokens(s) ELSE redis)
        BY <3>1, <1>1, OtherFields
      <3> QED
        BY <3>2, <2>3, <1>1, CallKeepsHoldings
    <2>4. ASSUME NEW kind, Goes(s, [st[s] EXCEPT !.reserved = kind], "deliver"), tasks' = tasks,
                 SameHoldings(redis'), faults' \in Nat, faults <= faults'
          PROVE  LeakInv'
      <3> DEFINE q == [st[s] EXCEPT !.reserved = kind]
      <3>1. /\ DOMAIN q = DOMAIN st[s] /\ q.lease = st[s].lease /\ q.budget = st[s].budget
            /\ q.at = st[s].at /\ q.permit = st[s].permit
        BY <1>1 DEF SlotFields
      <3>2. Goes(s, q, "deliver")
        BY <2>4
      <3> HIDE DEF q
      <3> QED
        BY <3>1, <3>2, <2>0, <2>4, GoingOn
    <2> QED
      BY <2>0, <2>1, <2>2, <2>3, <2>4, Returning
  <1> QED
    BY <1>2, <1>3, <1>4

LEMMA DeliveryKeepsLeakInv ==
  ASSUME LeakInv, NEW s \in Slots,
         \/ Delivered(s) \/ DeliveredError(s) \/ NotDelivered(s) \/ NotEstablished(s)
         \/ Established(s) \/ StreamEnds(s) \/ StreamFails(s)
  PROVE  LeakInv'
PROOF
  <1>1. Shape /\ IsSlot(st[s]) /\ SlotFields \subseteq DOMAIN st[s]
    BY DEF LeakInv, Shape, IsSlot
  <1>2. st[s].pc # "done" /\ world' = world /\ drops' = drops /\ NoRedis
    BY DEF Delivered, DeliveredError, NotDelivered, NotEstablished, Established, StreamEnds,
           StreamFails, At_, fixed
  <1>3. SameHoldings(redis') /\ faults' \in Nat /\ faults <= faults'
    BY <1>1, <1>2, NoCallKeepsHoldings
  <1>4. ASSUME NEW q, NEW to, DOMAIN q = DOMAIN st[s], q.lease = st[s].lease,
               q.budget = st[s].budget, q.at = st[s].at, q.permit = st[s].permit,
               Goes(s, q, to), to # "done", tasks' = tasks
        PROVE  LeakInv'
    BY <1>2, <1>3, <1>4, GoingOn
  <1>5. ASSUME NEW q, NEW reply, DOMAIN q = DOMAIN st[s], q.lease = st[s].lease,
               q.budget = st[s].budget, q.at = st[s].at, Ends(s, q, reply)
        PROVE  LeakInv'
    BY <1>2, <1>3, <1>5, Returning
  <1>6. ASSUME NEW k, NEW usage
        PROVE  LET q == Answered(s, k, usage)
               IN /\ DOMAIN q = DOMAIN st[s] /\ q.lease = st[s].lease /\ q.budget = st[s].budget
                  /\ q.at = st[s].at /\ q.permit = st[s].permit
    <2> DEFINE tokens == usage_tokens(usage, D(s).estimate, world.completion)
               q == [st[s] EXCEPT !.served = st[s].plan[k], !.tried = Attempted(s, k),
                       !.tokens = tokens.tokens, !.estimated = tokens.estimated \/ calls[s].stream]
    <2>1. Answered(s, k, usage) = q
      BY DEF Answered
    <2> HIDE DEF tokens
    <2>2. /\ DOMAIN q = DOMAIN st[s] /\ q.lease = st[s].lease /\ q.budget = st[s].budget
          /\ q.at = st[s].at /\ q.permit = st[s].permit
      BY <1>1 DEF SlotFields
    <2> HIDE DEF q
    <2> QED
      BY <2>1, <2>2
  <1>7. CASE Delivered(s)
    <2>1. PICK k, usage, status : Goes(s, [Answered(s, k, usage) EXCEPT !.status = status], "charge")
      BY <1>7 DEF Delivered
    <2> DEFINE a == Answered(s, k, usage)
               q == [a EXCEPT !.status = status]
    <2>2. Goes(s, q, "charge") /\ tasks' = tasks
      BY <1>7, <2>1 DEF Delivered
    <2>3. /\ DOMAIN a = DOMAIN st[s] /\ a.lease = st[s].lease /\ a.budget = st[s].budget
          /\ a.at = st[s].at /\ a.permit = st[s].permit
      BY <1>6
    <2> HIDE DEF a
    <2>4. /\ DOMAIN q = DOMAIN st[s] /\ q.lease = st[s].lease /\ q.budget = st[s].budget
          /\ q.at = st[s].at /\ q.permit = st[s].permit
      BY <2>3, <1>1 DEF SlotFields
    <2> HIDE DEF q
    <2> QED
      BY <2>2, <2>4, <1>4
  <1>8. CASE Established(s)
    <2>1. PICK k : Goes(s, inject_debug_decision(s, [Answered(s, k, Unreported) EXCEPT !.status = "2xx"]), "relay")
      BY <1>8 DEF Established
    <2> DEFINE a == Answered(s, k, Unreported)
               b == [a EXCEPT !.status = "2xx"]
               q == inject_debug_decision(s, b)
    <2>2. Goes(s, q, "relay") /\ tasks' = tasks
      BY <1>8, <2>1 DEF Established
    <2>3. /\ DOMAIN a = DOMAIN st[s] /\ a.lease = st[s].lease /\ a.budget = st[s].budget
          /\ a.at = st[s].at /\ a.permit = st[s].permit
      BY <1>6
    <2> HIDE DEF a
    <2>4. /\ DOMAIN b = DOMAIN st[s] /\ b.lease = st[s].lease /\ b.budget = st[s].budget
          /\ b.at = st[s].at /\ b.permit = st[s].permit
      BY <2>3, <1>1 DEF SlotFields
    <2> HIDE DEF b
    <2>5. /\ DOMAIN q = DOMAIN st[s] /\ q.lease = st[s].lease /\ q.budget = st[s].budget
          /\ q.at = st[s].at /\ q.permit = st[s].permit
      BY <2>4, <1>1 DEF SlotFields, inject_debug_decision
    <2> HIDE DEF q
    <2> QED
      BY <2>2, <2>5, <1>4
  <1>9. CASE NotDelivered(s) \/ NotEstablished(s)
    <2> DEFINE q == [st[s] EXCEPT !.tried = Attempted(s, Len(st[s].plan))]
    <2>1. Ends(s, q, "upstream_error")
      BY <1>9 DEF NotDelivered, NotEstablished
    <2>2. /\ DOMAIN q = DOMAIN st[s] /\ q.lease = st[s].lease /\ q.budget = st[s].budget
          /\ q.at = st[s].at
      BY <1>1 DEF SlotFields
    <2> HIDE DEF q
    <2> QED
      BY <2>1, <2>2, <1>5
  <1>10. CASE StreamEnds(s)
    <2>1. Goes(s, st[s], "charge") /\ tasks' = tasks
      BY <1>10 DEF StreamEnds
    <2> QED
      BY <2>1, <1>4
  <1>11. CASE StreamFails(s)
    <2>1. Ends(s, st[s], "stream_failed")
      BY <1>11 DEF StreamFails
    <2> QED
      BY <2>1, <1>5
  <1>12. CASE DeliveredError(s)
    <2>1. PICK k :
            LET q == [st[s] EXCEPT !.served = st[s].plan[k], !.tried = Attempted(s, k), !.status = "4xx"]
            IN IF q.guard /\ ~calls[s].stream
               THEN /\ Goes(s, [q EXCEPT !.guard = FALSE, !.budget = FALSE], "c_record")
                    /\ tasks' = tasks \cup (IF q.budget THEN {Task("release_budget", s)} ELSE {})
               ELSE Ends(s, q, "upstream_status")
      BY <1>12 DEF DeliveredError
    <2> DEFINE q == [st[s] EXCEPT !.served = st[s].plan[k], !.tried = Attempted(s, k), !.status = "4xx"]
               r == [q EXCEPT !.guard = FALSE, !.budget = FALSE]
    <2>2. /\ DOMAIN q = DOMAIN st[s] /\ q.lease = st[s].lease /\ q.budget = st[s].budget
          /\ q.at = st[s].at /\ q.permit = st[s].permit
      BY <1>1 DEF SlotFields
    <2>3. \/ Ends(s, q, "upstream_status")
          \/ /\ Goes(s, r, "c_record")
             /\ tasks' = tasks \cup (IF q.budget THEN {Task("release_budget", s)} ELSE {})
      BY <2>1
    <2> HIDE DEF q
    <2>4. SlotFields \subseteq DOMAIN r /\ r.lease = q.lease /\ ~r.budget /\ r.at = q.at
          /\ r.permit = q.permit /\ r.budget = FALSE
      BY <2>2, <1>1 DEF SlotFields
    <2> HIDE DEF r
    <2>5. CASE /\ Goes(s, r, "c_record")
               /\ tasks' = tasks \cup (IF q.budget THEN {Task("release_budget", s)} ELSE {})
      <3>1. /\ DOMAIN st' = Slots /\ \A x \in Slots \ {s} : st'[x] = st[x]
            /\ SlotFields \subseteq DOMAIN st'[s]
            /\ st'[s].pc = "c_record" /\ st'[s].lease = st[s].lease /\ st'[s].budget = FALSE
            /\ st'[s].permit = st[s].permit /\ st'[s].at = st[s].at
        BY <2>2, <2>4, <2>5, <1>1, GoesFrame
      <3>2. FrameOf(s)
        BY <3>1, <2>5, <1>1, <1>2, <1>3 DEF FrameOf, Shape
      <3>3. IsSlot(st'[s]) /\ IsStore(redis')
        BY <3>1, <1>1, <1>2, <1>3 DEF IsSlot, Shape, IsStore, SameHoldings
      <3>4. faults > 0 => faults' > 0
        BY <1>1, <1>3 DEF Shape
      <3>5. Awaited("release_lease", s) => Awaited("release_lease", s)'
        BY <3>2 DEF Awaited, FrameOf
      <3>6. Awaited("release_budget", s) => Awaited("release_budget", s)'
        BY <3>2 DEF Awaited, FrameOf
      <3>7. st[s].budget => Awaited("release_budget", s)'
        <4>1. st[s].budget => Task("release_budget", s) \in tasks'
          BY <2>2, <2>5
        <4> QED
          BY <4>1 DEF Awaited, Task
      <3>8. s \in redis'.leases => LeaseCovered(s)'
        BY <3>1, <3>4, <3>5, <1>3 DEF LeakInv, LeaseCovered, SameHoldings
      <3>9. s \in DOMAIN redis'.reserved => BudgetCovered(s)'
        BY <3>1, <3>4, <3>6, <3>7, <1>3 DEF LeakInv, BudgetCovered, SameHoldings
      <3> QED
        BY <3>1, <3>2, <3>3, <3>8, <3>9, <1>3, StepKeeps DEF SameHoldings
    <2> QED
      BY <2>2, <2>3, <2>5, <1>5
  <1> QED
    BY <1>7, <1>8, <1>9, <1>10, <1>11, <1>12

LEMMA AccountingKeepsLeakInv ==
  ASSUME LeakInv, NEW s \in Slots,
         \/ Charge_(s) \/ ShareCost(s) \/ Usage_(s) \/ Answer(s)
         \/ CanaryRecord(s) \/ CanaryCheck(s) \/ CanaryTrip(s)
  PROVE  LeakInv'
PROOF
  <1>1. Shape /\ IsSlot(st[s]) /\ SlotFields \subseteq DOMAIN st[s]
    BY DEF LeakInv, Shape, IsSlot
  <1>2. st[s].pc # "done" /\ world' = world /\ drops' = drops
    BY DEF Charge_, ShareCost, Usage_, Answer, CanaryRecord, CanaryCheck, CanaryTrip, At_, fixed
  <1>3. ASSUME NEW q, NEW to, DOMAIN q = DOMAIN st[s], q.lease = st[s].lease,
               q.budget = st[s].budget, q.at = st[s].at, q.permit = st[s].permit,
               Goes(s, q, to), to # "done", tasks' = tasks,
               SameHoldings(redis'), faults' \in Nat, faults <= faults'
        PROVE  LeakInv'
    BY <1>2, <1>3, GoingOn
  <1>4. CASE Charge_(s)
    <2>1. NoRedis /\ tasks' = tasks /\ (Goes(s, st[s], "record_cost") \/ Goes(s, st[s], "usage"))
      BY <1>4 DEF Charge_
    <2> QED
      BY <2>1, <1>1, <1>3, NoCallKeepsHoldings
  <1>5. CASE ShareCost(s)
    <2>1. PICK ok \in BOOLEAN : Redis(RecordCost(s), ok)
      BY <1>5 DEF ShareCost
    <2>2. tasks' = tasks /\ (Goes(s, st[s], "settle") \/ Goes(s, st[s], "usage"))
      BY <1>5 DEF ShareCost
    <2>3. SameHoldings(redis') /\ faults' \in Nat /\ faults <= faults'
      BY <2>1, <1>1, OtherFields, CallKeepsHoldings
    <2> QED
      BY <2>2, <2>3, <1>3
  <1>6. CASE Usage_(s)
    <2>1. PICK ok \in BOOLEAN :
            /\ RedisCalls(UsageEffect(s), PartialUsage(s), ok)
            /\ Goes(s, [st[s] EXCEPT !.accounted = ok \/ ~Corrects(s), !.guard = FALSE],
                    IF st[s].guard THEN "c_record" ELSE "answer")
      BY <1>6 DEF Usage_
    <2> DEFINE q == [st[s] EXCEPT !.accounted = ok \/ ~Corrects(s), !.guard = FALSE]
    <2>2. Goes(s, q, "c_record") \/ Goes(s, q, "answer")
      BY <2>1
    <2>3. /\ DOMAIN q = DOMAIN st[s] /\ q.lease = st[s].lease /\ q.budget = st[s].budget
          /\ q.at = st[s].at /\ q.permit = st[s].permit
      BY <1>1 DEF SlotFields
    <2> HIDE DEF q
    <2>4. SameHoldings(UsageEffect(s))
      BY <1>1, OtherFields DEF UsageEffect
    <2>5. \A r \in PartialUsage(s) : SameHoldings(r)
      BY <1>1, OtherFields DEF PartialUsage
    <2>6. SameHoldings(redis') /\ faults' \in Nat /\ faults <= faults'
      BY <2>1, <2>4, <2>5, <1>1, CallsKeepHoldings
    <2>7. tasks' = tasks
      BY <1>6 DEF Usage_
    <2> QED
      BY <2>2, <2>3, <2>6, <2>7, <1>3
  <1>7. CASE Answer(s)
    <2> DEFINE q == AnswerHeaders(s)
    <2>1. NoRedis /\ \E reply : Ends(s, q, reply)
      BY <1>7 DEF Answer
    <2>2. /\ DOMAIN q = DOMAIN st[s] /\ q.lease = st[s].lease /\ q.budget = st[s].budget
          /\ q.at = st[s].at
      <3>1. PICK h : AnswerHeaders(s) = IF calls[s].stream THEN st[s]
                       ELSE inject_debug_decision(s, [st[s] EXCEPT !.head = h])
        BY DEF AnswerHeaders
      <3> DEFINE r == [st[s] EXCEPT !.head = h]
      <3>2. /\ DOMAIN r = DOMAIN st[s] /\ r.lease = st[s].lease /\ r.budget = st[s].budget
            /\ r.at = st[s].at
        BY <1>1 DEF SlotFields
      <3>3. q = IF calls[s].stream THEN st[s] ELSE inject_debug_decision(s, r)
        BY <3>1
      <3> HIDE DEF r, q
      <3> QED
        BY <3>2, <3>3, <1>1 DEF inject_debug_decision, SlotFields
    <2> HIDE DEF q
    <2> QED
      BY <2>1, <2>2, <1>1, <1>2, NoCallKeepsHoldings, Returning
  <1>8. CASE CanaryRecord(s)
    <2>1. PICK ok \in BOOLEAN, latency \in world.canary.latencies :
            Redis(Observed(s, st[s].status = "2xx", latency), ok)
      BY <1>8 DEF CanaryRecord
    <2>2. tasks' = tasks /\ Goes(s, st[s], "c_snapshot")
      BY <1>8 DEF CanaryRecord
    <2>3. SameHoldings(Observed(s, st[s].status = "2xx", latency))
      BY <1>1, OtherFields DEF Observed
    <2>4. SameHoldings(redis') /\ faults' \in Nat /\ faults <= faults'
      BY <2>1, <2>3, <1>1, CallKeepsHoldings
    <2> QED
      BY <2>2, <2>4, <1>3
  <1>9. CASE CanaryCheck(s)
    <2>1. PICK ok \in BOOLEAN :
            LET reason == IF ok THEN tripwire(world.canary, Snapshot.hash) ELSE ""
            IN /\ Redis(WithCanary(Snapshot), ok)
               /\ Goes(s, [st[s] EXCEPT !.reason = reason], IF reason = "" THEN "answer" ELSE "c_trip")
      BY <1>9 DEF CanaryCheck
    <2> DEFINE reason == IF ok THEN tripwire(world.canary, Snapshot.hash) ELSE ""
               q == [st[s] EXCEPT !.reason = reason]
    <2>2. Goes(s, q, "answer") \/ Goes(s, q, "c_trip")
      BY <2>1
    <2> HIDE DEF reason
    <2>3. /\ DOMAIN q = DOMAIN st[s] /\ q.lease = st[s].lease /\ q.budget = st[s].budget
          /\ q.at = st[s].at /\ q.permit = st[s].permit
      BY <1>1 DEF SlotFields
    <2> HIDE DEF q
    <2>4. SameHoldings(redis') /\ faults' \in Nat /\ faults <= faults'
      BY <2>1, <1>1, OtherFields, CallKeepsHoldings
    <2>5. tasks' = tasks
      BY <1>9 DEF CanaryCheck
    <2> QED
      BY <2>2, <2>3, <2>4, <2>5, <1>3
  <1>10. CASE CanaryTrip(s)
    <2>1. PICK ok \in BOOLEAN : Redis(Tripped(st[s].reason), ok)
      BY <1>10 DEF CanaryTrip
    <2>2. tasks' = tasks /\ Goes(s, st[s], "answer")
      BY <1>10 DEF CanaryTrip
    <2>3. SameHoldings(Tripped(st[s].reason))
      BY <1>1, OtherFields DEF Tripped
    <2>4. SameHoldings(redis') /\ faults' \in Nat /\ faults <= faults'
      BY <2>1, <2>3, <1>1, CallKeepsHoldings
    <2> QED
      BY <2>2, <2>4, <1>3
  <1> QED
    BY <1>4, <1>5, <1>6, <1>7, <1>8, <1>9, <1>10

LEMMA SettleKeepsLeakInv ==
  ASSUME LeakInv, NEW s \in Slots, Settle(s)
  PROVE  LeakInv'
PROOF
  <1>1. Shape /\ IsSlot(st[s]) /\ SlotFields \subseteq DOMAIN st[s] /\ IsStore(redis)
    BY DEF LeakInv, Shape, IsSlot
  <1>2. PICK ok \in BOOLEAN : Redis(Unreserved(s), ok)
    BY DEF Settle
  <1>3. st[s].pc = "settle" /\ world' = world /\ drops' = drops /\ tasks' = tasks
        /\ Goes(s, [st[s] EXCEPT !.budget = FALSE], "usage")
    BY DEF Settle, At_, fixed
  <1>4. /\ faults' \in Nat /\ faults <= faults' /\ (~ok => faults' > 0)
        /\ redis' = redis \/ redis' = Unreserved(s)
        /\ ok => redis' = Unreserved(s)
    BY <1>1, <1>2 DEF Redis, RedisCalls, Shape
  <1> DEFINE q == [st[s] EXCEPT !.budget = FALSE]
  <1>5. SlotFields \subseteq DOMAIN q /\ q.budget = FALSE /\ q.lease = st[s].lease
        /\ q.at = st[s].at /\ q.permit = st[s].permit
    BY <1>1 DEF SlotFields
  <1>6. Goes(s, q, "usage")
    BY <1>3
  <1> HIDE DEF q
  <1>7. /\ DOMAIN st' = Slots /\ \A x \in Slots \ {s} : st'[x] = st[x]
        /\ SlotFields \subseteq DOMAIN st'[s]
        /\ st'[s].pc = "usage" /\ st'[s].budget = FALSE /\ st'[s].lease = st[s].lease
        /\ st'[s].permit = st[s].permit /\ st'[s].at = st[s].at
    BY <1>1, <1>5, <1>6, GoesFrame
  <1>8. FrameOf(s)
    BY <1>1, <1>3, <1>4, <1>7 DEF FrameOf, Shape
  <1>9. IsSlot(st'[s])
    BY <1>1, <1>3, <1>7 DEF IsSlot
  <1>10. /\ IsStore(redis') /\ redis'.leases = redis.leases
         /\ DOMAIN redis'.reserved \subseteq DOMAIN redis.reserved
         /\ ok => s \notin DOMAIN redis'.reserved
    BY <1>1, <1>4, StoreUpdates DEF IsStore
  <1>11. s \in DOMAIN redis'.reserved => BudgetCovered(s)'
    BY <1>4, <1>10 DEF BudgetCovered
  <1>12. s \in redis'.leases => LeaseCovered(s)'
    <2>1. Awaited("release_lease", s)' = Awaited("release_lease", s)
      BY <1>3 DEF Awaited
    <2>2. faults > 0 => faults' > 0
      BY <1>1, <1>4 DEF Shape
    <2> QED
      BY <2>1, <2>2, <1>7, <1>10 DEF LeaseCovered, LeakInv
  <1> QED
    BY <1>7, <1>8, <1>9, <1>10, <1>11, <1>12, StepKeeps

(* Whatever the pending call still does, it touches only what its kind of  *)
(* call touches.                                                           *)
LEMMA PendingTouches ==
  ASSUME Shape, NEW s \in Slots, Awaits(s), NEW r \in Pending(s)
  PROVE  \/ SameHoldings(r)
         \/ st[s].pc = "reserve" /\ r = ReserveBudget(s)
         \/ st[s].pc = "lease" /\ r = AcquireAdmission(s)
         \/ st[s].pc = "settle" /\ r = Unreserved(s)
PROOF
  <1>1. SharedTokens(s) = WithCounts(reserve_tokens(A, redis.counts, st[s].grant,
                                      conservative_token_reservation(calls[s])).counts)
    BY DEF SharedTokens, WithCounts
  <1>2. \A x \in PartialKeyStage(s) : SameHoldings(x)
    BY OtherFields DEF PartialKeyStage
  <1>3. \A x \in {UsageEffect(s)} \cup PartialUsage(s) : SameHoldings(x)
    BY OtherFields DEF UsageEffect, PartialUsage
  <1>4. \A b, l : SameHoldings(Observed(s, b, l))
    BY OtherFields DEF Observed
  <1>5. SameHoldings(Tripped(st[s].reason)) /\ SameHoldings(redis)
    BY OtherFields DEF Tripped
  <1>6. SameHoldings(IF exposure_limited(redis.canary, world.canary.max_requests, world.canary.window, now)
                     THEN redis ELSE WithCanary(admit_exposure(redis.canary, world.canary.window, now)))
    BY OtherFields
  <1>7. SameHoldings(SharedTokens(s)) /\ SameHoldings(WithCounts(admit_global(A, redis.counts).counts))
        /\ SameHoldings(WithCanary(Snapshot)) /\ SameHoldings(RecordCost(s))
    BY <1>1, OtherFields
  <1>8. CASE st[s].pc = "arrive"
    BY <1>7, <1>8 DEF Pending, At_
  <1>9. CASE st[s].pc = "auth"
    BY <1>2, <1>9 DEF Pending, At_
  <1>10. CASE st[s].pc \in {"snapshot", "c_snapshot"}
    BY <1>7, <1>10 DEF Pending, At_
  <1>11. CASE st[s].pc = "expose"
    BY <1>6, <1>11 DEF Pending, At_
  <1>12. CASE st[s].pc = "tokens"
    BY <1>7, <1>12 DEF Pending, At_
  <1>13. CASE st[s].pc = "record_cost"
    BY <1>7, <1>13 DEF Pending, At_
  <1>14. CASE st[s].pc = "usage"
    BY <1>3, <1>14 DEF Pending, At_
  <1>15. CASE st[s].pc = "c_record"
    BY <1>4, <1>15 DEF Pending, At_
  <1>16. CASE st[s].pc = "c_trip"
    BY <1>5, <1>16 DEF Pending, At_
  <1>17. CASE st[s].pc \in {"reserve", "lease", "settle"}
    BY <1>17 DEF Pending, At_
  <1>18. CASE st[s].pc \in {"deliver", "relay", "decide", "headers", "admit", "charge"}
    BY <1>5, <1>18 DEF Pending, At_
  <1> QED
    BY <1>8, <1>9, <1>10, <1>11, <1>12, <1>13, <1>14, <1>15, <1>16, <1>17, <1>18 DEF Awaits, At_

(* A client leaves: its guards become tasks, and a lease or a reservation  *)
(* that the pending call still takes is owed to that very call.            *)
LEMMA DropKeepsLeakInv ==
  ASSUME LeakInv, NEW s \in Slots, Drop(s)
  PROVE  LeakInv'
PROOF
  <1>1. Shape /\ IsSlot(st[s]) /\ SlotFields \subseteq DOMAIN st[s] /\ IsStore(redis)
    BY DEF LeakInv, Shape, IsSlot
  <1> DEFINE q == [st[s] EXCEPT !.at = st[s].pc, !.budget = st[s].budget /\ ~At_(s, "settle")]
  <1>2. Awaits(s) /\ redis' \in {redis} \cup Pending(s) /\ Ends(s, q, "gone")
        /\ drops' = drops + 1 /\ world' = world /\ faults' = faults
    BY DEF Drop, fixed
  <1>3. /\ SlotFields \subseteq DOMAIN q /\ q.lease = st[s].lease /\ q.at = st[s].pc
        /\ q.budget = (st[s].budget /\ st[s].pc # "settle")
    BY <1>1 DEF SlotFields, At_
  <1> HIDE DEF q
  <1>4. st[s].pc # "done" /\ st[s].at = ""
    BY <1>1, <1>2 DEF Awaits, At_, IsSlot
  <1>5. /\ DOMAIN st' = Slots /\ \A x \in Slots \ {s} : st'[x] = st[x]
        /\ ~st'[s].permit /\ st'[s].at = st[s].pc /\ IsSlot(st'[s])
        /\ tasks \subseteq tasks'
        /\ st[s].lease => Awaited("release_lease", s)'
        /\ st[s].budget /\ st[s].pc # "settle" => Awaited("release_budget", s)'
    BY <1>1, <1>2, <1>3, EndsFrame
  <1>6. FrameOf(s)
    BY <1>1, <1>2, <1>5 DEF FrameOf, Shape
  <1>7. /\ Awaited("release_lease", s) => Awaited("release_lease", s)'
        /\ Awaited("release_budget", s) => Awaited("release_budget", s)'
    BY <1>5 DEF Awaited
  <1>8. \/ SameHoldings(redis')
        \/ st[s].pc = "reserve" /\ redis' = ReserveBudget(s)
        \/ st[s].pc = "lease" /\ redis' = AcquireAdmission(s)
        \/ st[s].pc = "settle" /\ redis' = Unreserved(s)
    BY <1>1, <1>2, PendingTouches, OtherFields
  <1>9. /\ IsStore(redis')
        /\ redis'.leases \subseteq redis.leases \cup {s}
        /\ DOMAIN redis'.reserved \subseteq DOMAIN redis.reserved \cup {s}
        /\ s \in redis'.leases => s \in redis.leases \/ st[s].pc = "lease"
        /\ s \in DOMAIN redis'.reserved => s \in DOMAIN redis.reserved \/ st[s].pc = "reserve"
    BY <1>1, <1>8, StoreUpdates, ZenonT(40) DEF IsStore, SameHoldings
  <1>10. s \in redis'.leases => LeaseCovered(s)'
    BY <1>2, <1>4, <1>5, <1>7, <1>9 DEF LeakInv, LeaseCovered
  <1>11. s \in DOMAIN redis'.reserved => BudgetCovered(s)'
    BY <1>2, <1>4, <1>5, <1>7, <1>9 DEF LeakInv, BudgetCovered
  <1> QED
    BY <1>5, <1>6, <1>9, <1>10, <1>11, StepKeeps

-----------------------------------------------------------------------------
(* The steps of no request.                                                *)

LEMMA BackgroundKeepsLeakInv ==
  ASSUME LeakInv, Background
  PROVE  LeakInv'
PROOF
  <1>1. Shape /\ IsStore(redis)
    BY DEF LeakInv, Shape
  <1>2. PICK t \in tasks : Release(t) \/ BackgroundRecord(t) \/ BackgroundCheck(t) \/ BackgroundTrip(t)
    BY DEF Background
  <1>3. world' = world /\ st' = st /\ drops' = drops
    BY DEF Background, fixed
  <1>4. Permits' = Permits
    BY <1>3 DEF Permits
  <1>5. CASE Release(t)
    <2>1. PICK ok \in BOOLEAN :
            Redis(IF t.kind = "release_lease" THEN [redis EXCEPT !.leases = redis.leases \ {t.id}]
                  ELSE Unreserved(t.id), ok)
      BY <1>5 DEF Release
    <2>2. t.kind \in {"release_lease", "release_budget"} /\ tasks' = tasks \ {t}
      BY <1>5 DEF Release, Becomes
    <2> DEFINE fewer == [redis EXCEPT !.leases = redis.leases \ {t.id}]
    <2>3. StoreFields \subseteq DOMAIN fewer /\ fewer.leases = redis.leases \ {t.id}
          /\ fewer.reserved = redis.reserved
      BY <1>1 DEF IsStore, StoreFields
    <2>4. /\ StoreFields \subseteq DOMAIN Unreserved(t.id)
          /\ Unreserved(t.id).leases = redis.leases
          /\ DOMAIN Unreserved(t.id).reserved = DOMAIN redis.reserved \ {t.id}
      BY <1>1 DEF IsStore, Unreserved, StoreFields, Restrict
    <2> HIDE DEF fewer
    <2>5. Redis(IF t.kind = "release_lease" THEN fewer ELSE Unreserved(t.id), ok)
      BY <2>1 DEF fewer
    <2>6. /\ faults' \in Nat /\ faults <= faults' /\ (~ok => faults' > 0)
          /\ \/ redis' = redis
             \/ t.kind = "release_lease" /\ redis' = fewer
             \/ t.kind = "release_budget" /\ redis' = Unreserved(t.id)
          /\ ok /\ t.kind = "release_lease" => redis' = fewer
          /\ ok /\ t.kind = "release_budget" => redis' = Unreserved(t.id)
      BY <1>1, <2>2, <2>5 DEF Redis, RedisCalls, Shape
    <2>7. /\ IsStore(redis') /\ redis'.leases \subseteq redis.leases
          /\ DOMAIN redis'.reserved \subseteq DOMAIN redis.reserved
          /\ ok /\ t.kind = "release_lease" => t.id \notin redis'.leases
          /\ ok /\ t.kind = "release_budget" => t.id \notin DOMAIN redis'.reserved
      BY <1>1, <2>3, <2>4, <2>6 DEF IsStore
    <2>8. Shape'
      BY <1>1, <1>3, <2>6, <2>7 DEF Shape
    <2>9. \A x : Awaited("release_lease", x) =>
                   Awaited("release_lease", x)' \/ (t.kind = "release_lease" /\ t.id = x)
      BY <2>2 DEF Awaited
    <2>10. \A x : Awaited("release_budget", x) =>
                   Awaited("release_budget", x)' \/ (t.kind = "release_budget" /\ t.id = x)
      BY <2>2 DEF Awaited
    <2>11. \A x \in redis'.leases : LeaseCovered(x)'
      BY <1>1, <1>3, <2>6, <2>7, <2>9 DEF LeakInv, LeaseCovered, Shape
    <2>12. \A x \in DOMAIN redis'.reserved : BudgetCovered(x)'
      BY <1>1, <1>3, <2>6, <2>7, <2>10 DEF LeakInv, BudgetCovered, Shape
    <2> QED
      BY <1>3, <1>4, <2>8, <2>11, <2>12 DEF LeakInv
  <1>6. CASE BackgroundRecord(t) \/ BackgroundCheck(t) \/ BackgroundTrip(t)
    <2>1. SameHoldings(redis') /\ faults' \in Nat /\ faults <= faults'
      <3>1. CASE BackgroundRecord(t)
        <4>1. PICK ok \in BOOLEAN : \E o :
                Redis(WithCanary(record_canary(redis.canary, o, world.canary.window, now)), ok)
          BY <3>1 DEF BackgroundRecord
        <4> QED
          BY <4>1, <1>1, OtherFields, CallKeepsHoldings
      <3>2. CASE BackgroundCheck(t)
        <4>1. PICK ok \in BOOLEAN : Redis(WithCanary(Snapshot), ok)
          BY <3>2 DEF BackgroundCheck
        <4> QED
          BY <4>1, <1>1, OtherFields, CallKeepsHoldings
      <3>3. CASE BackgroundTrip(t)
        <4>1. PICK ok \in BOOLEAN : Redis(Tripped(t.reason), ok)
          BY <3>3 DEF BackgroundTrip
        <4> QED
          BY <4>1, <1>1, OtherFields, CallKeepsHoldings DEF Tripped
      <3> QED
        BY <1>6, <3>1, <3>2, <3>3
    <2>2. t.kind \in {"c_record", "c_snapshot", "c_trip"} /\ tasks \ {t} \subseteq tasks'
      BY <1>6 DEF BackgroundRecord, BackgroundCheck, BackgroundTrip, Becomes
    <2>3. \A x : /\ Awaited("release_lease", x) => Awaited("release_lease", x)'
                 /\ Awaited("release_budget", x) => Awaited("release_budget", x)'
      BY <2>2 DEF Awaited
    <2>4. faults > 0 => faults' > 0
      BY <1>1, <2>1 DEF Shape
    <2>5. Shape'
      BY <1>1, <1>3, <2>1 DEF Shape, IsStore, SameHoldings
    <2>6. \A x \in redis'.leases : LeaseCovered(x)'
      BY <1>3, <2>1, <2>3, <2>4 DEF LeakInv, LeaseCovered, SameHoldings
    <2>7. \A x \in DOMAIN redis'.reserved : BudgetCovered(x)'
      BY <1>3, <2>1, <2>3, <2>4 DEF LeakInv, BudgetCovered, SameHoldings
    <2> QED
      BY <1>3, <1>4, <2>5, <2>6, <2>7 DEF LeakInv
  <1> QED
    BY <1>2, <1>5, <1>6

LEMMA StandingStillKeepsLeakInv ==
  ASSUME LeakInv, UNCHANGED <<world, st, redis, tasks, faults, drops>>
  PROVE  LeakInv'
PROOF
  BY DEF LeakInv, Shape, IsSlot, IsStore, Permits, LeaseCovered, BudgetCovered, Awaited

LEMMA InitLeakInv == Init => LeakInv
PROOF
  <1> SUFFICES ASSUME Init PROVE LeakInv
    OBVIOUS
  <1>1. world.maxInFlight \in Nat
    BY GatewayAssumption DEF Init, IsBurst, IsWorld
  <1>2. redis.leases = {} /\ DOMAIN redis.reserved = {} /\ StoreFields \subseteq DOMAIN redis
    <2>1. DOMAIN NoMap = {}
      BY DEF NoMap
    <2> QED
      BY <2>1 DEF Init, StoreFields
  <1> DEFINE Gone == [Fresh EXCEPT !.pc = "done"]
  <1>3. DOMAIN st = Slots /\ \A s \in Slots : st[s] \in {Fresh, Gone}
    BY DEF Init
  <1>4. IsSlot(Fresh) /\ ~Fresh.permit /\ IsSlot(Gone) /\ ~Gone.permit
    BY DEF Fresh, IsSlot, SlotFields
  <1> HIDE DEF Gone
  <1>5. Shape
    BY <1>1, <1>2, <1>3, <1>4 DEF Shape, IsStore, Init
  <1>6. Permits = {}
    BY <1>3, <1>4 DEF Permits
  <1>7. Cardinality(Permits) = 0
    BY <1>6, FS_EmptySet
  <1> QED
    BY <1>1, <1>2, <1>5, <1>7 DEF LeakInv

LEMMA NextKeepsLeakInv == LeakInv /\ [Next]_vars => LeakInv'
PROOF
  <1> SUFFICES ASSUME LeakInv, [Next]_vars PROVE LeakInv'
    OBVIOUS
  <1>1. ASSUME NEW s \in Slots, Label(s) PROVE LeakInv'
    BY <1>1, StandingStillKeepsLeakInv DEF Label, NoRedis, fixed
  <1>2. CASE Tick
    BY <1>2, StandingStillKeepsLeakInv DEF Tick, fixed
  <1>3. CASE UNCHANGED vars
    BY <1>3, StandingStillKeepsLeakInv DEF vars
  <1> QED
    BY <1>1, <1>2, <1>3, PreflightKeepsLeakInv, DecisionKeepsLeakInv, RecordKeepsLeakInv,
       ReserveKeepsLeakInv, LeaseKeepsLeakInv, AdmissionKeepsLeakInv, DeliveryKeepsLeakInv,
       AccountingKeepsLeakInv, SettleKeepsLeakInv, DropKeepsLeakInv, BackgroundKeepsLeakInv
       DEF Next

(* Every lease and every reservation in Redis has an owner or a release    *)
(* under way, unless a call failed or a client left during that call; no   *)
(* more permits are out than max_in_flight allows (chat_completions and    *)
(* the Drop of its guards).                                                *)
THEOREM NothingEverLeaks == Spec => []NothingLeaks
PROOF
  <1>1. LeakInv => NothingLeaks
    BY DEF LeakInv, NothingLeaks, LeaseCovered, BudgetCovered, Permits, Shape, IsSlot
  <1> QED
    BY <1>1, InitLeakInv, NextKeepsLeakInv, PTL DEF Spec

-----------------------------------------------------------------------------
(* What ElementsAt computes: the positions of a finite set of numbers,     *)
(* counted from the smallest, take each value once.                        *)

Below(at, i) == {j \in at : j <= i}

LEMMA EveryRankIsTaken ==
  ASSUME NEW at \in SUBSET Nat, IsFiniteSet(at), NEW k \in 1 .. Cardinality(at)
  PROVE  \E i \in at : Cardinality(Below(at, i)) = k
PROOF
  <1> DEFINE n == Cardinality(at)
             rank == [i \in at |-> Cardinality(Below(at, i))]
  <1>1. n \in Nat
    BY FS_CardinalityType
  <1>2. ASSUME NEW i \in at
        PROVE  IsFiniteSet(Below(at, i)) /\ Cardinality(Below(at, i)) \in 1 .. n
    <2>1. Below(at, i) \in SUBSET at /\ i \in Below(at, i)
      BY DEF Below
    <2>2. IsFiniteSet(Below(at, i)) /\ Cardinality(Below(at, i)) <= n
      BY <2>1, FS_Subset
    <2>3. Cardinality(Below(at, i)) \in Nat /\ Cardinality(Below(at, i)) # 0
      BY <2>1, <2>2, FS_CardinalityType, FS_EmptySet
    <2> QED
      BY <2>2, <2>3, <1>1
  <1>3. ASSUME NEW i \in at, NEW j \in at, i < j
        PROVE  Cardinality(Below(at, i)) # Cardinality(Below(at, j))
    <2>0. i \in Nat /\ j \in Nat /\ \A x \in at : x \in Nat
      OBVIOUS
    <2>1. j \in Below(at, j) /\ j \notin Below(at, i)
      BY <1>3, <2>0 DEF Below
    <2>2. \A x \in at : x <= i => x <= j
      BY <1>3, <2>0
    <2>3. Below(at, i) \in SUBSET Below(at, j)
      BY <2>2 DEF Below
    <2> QED
      BY <2>1, <2>3, <1>2, FS_Subset
  <1>4. rank \in [at -> 1 .. n]
    BY <1>2
  <1>5. \A i, j \in at : rank[i] = rank[j] => i = j
    BY <1>3
  <1>6. rank \in Injection(at, 1 .. n)
    BY <1>4, <1>5 DEF Injection, IsInjective
  <1>7. IsFiniteSet(1 .. n) /\ Cardinality(1 .. n) = n
    BY <1>1, FS_Interval
  <1>8. rank \in Surjection(at, 1 .. n)
    BY <1>6, <1>7, FS_Injection
  <1> HIDE DEF n
  <1>9. \E i \in at : rank[i] = k
    BY <1>8 DEF Surjection, n
  <1> QED
    BY <1>9

LEMMA PositionsAreFinite ==
  ASSUME NEW n \in Nat, NEW at \in SUBSET (1 .. n)
  PROVE  at \in SUBSET Nat /\ IsFiniteSet(at)
PROOF
  <1>1. IsFiniteSet(1 .. n)
    BY FS_Interval
  <1>2. IsFiniteSet(at)
    BY <1>1, FS_Subset
  <1> QED
    BY <1>2

LEMMA ElementsAtPicks ==
  ASSUME NEW s, NEW at \in SUBSET Nat, IsFiniteSet(at), NEW e, e = ElementsAt(s, at)
  PROVE  /\ Len(e) \in Nat /\ DOMAIN e = 1 .. Len(e)
         /\ \A k \in 1 .. Len(e) : \E i \in at : e[k] = s[i]
PROOF
  <1> DEFINE Pick(k) == CHOOSE i \in at : Cardinality({j \in at : j <= i}) = k
  <1>2. Cardinality(at) \in Nat
    BY FS_CardinalityType
  <1>3. ASSUME NEW k \in 1 .. Cardinality(at) PROVE Pick(k) \in at
    <2>1. \E i \in at : Cardinality({j \in at : j <= i}) = k
      BY EveryRankIsTaken DEF Below
    <2> QED
      BY <2>1
  <1>4. e = [k \in 1 .. Cardinality(at) |-> s[Pick(k)]]
    BY DEF ElementsAt
  <1> HIDE DEF Pick
  <1>5. e \in [1 .. Cardinality(at) -> {s[i] : i \in at}]
    BY <1>3, <1>4
  <1>6. e \in Seq({s[i] : i \in at})
    BY <1>2, <1>5, SeqDef
  <1>7. Len(e) \in Nat /\ DOMAIN e = 1 .. Len(e) /\ Len(e) = Cardinality(at)
    BY <1>2, <1>5, <1>6
  <1>8. \A k \in 1 .. Len(e) : \E i \in at : e[k] = s[i]
    BY <1>3, <1>4, <1>7
  <1> QED
    BY <1>7, <1>8

LEMMA ElementsAtIn ==
  ASSUME NEW s, NEW at \in SUBSET Nat, IsFiniteSet(at), NEW e, e = ElementsAt(s, at),
         NEW S, \A i \in at : s[i] \in S
  PROVE  e \in Seq(S)
PROOF
  <1>1. /\ Len(e) \in Nat /\ DOMAIN e = 1 .. Len(e)
        /\ \A k \in 1 .. Len(e) : \E i \in at : e[k] = s[i]
    BY ElementsAtPicks
  <1>2. \A k \in 1 .. Len(e) : e[k] \in S
    BY <1>1
  <1>3. e = [k \in 1 .. Len(e) |-> e[k]]
    BY <1>1 DEF ElementsAt
  <1>4. e \in [1 .. Len(e) -> S]
    BY <1>1, <1>2, <1>3
  <1> QED
    BY <1>1, <1>4, SeqDef
-----------------------------------------------------------------------------
(* What is known of a request once it is decided.                          *)

Exempt == {"budget-degraded", "key-scoped"}

RouteOf(w, name) == ToSet(w.routes[name])

(* The caller is the one its key names.                                    *)
GrantFits(w, r, q) ==
  /\ q.grant = IF w.access.active THEN authenticate(w.access, r.authorization) ELSE Anonymous
  /\ q.grant # Unauthorized

(* The facts are those of this call, this caller and this configuration.   *)
FactsFit(w, r, q) ==
  LET d == q.facts
  IN /\ d.posture = parse_privacy_posture(r.posture, w.offline \/ r.offline)
     /\ d.request.posture = d.posture
     /\ d.estimate = estimate_tokens(extract_prompt(d.messages, "all"))
     /\ d.allowed = allowed_models(w.access, q.grant)
     /\ d.selection = resolve_request_selection(w, r.model)
     /\ Len(d.scored.tiers) \in Nat

(* A named model is pinned, a named preset is followed, or the budget or   *)
(* the key took the choice out of the caller's hands.                      *)
ChoiceFits(w, d, c) ==
  LET asked == d.selection
  IN /\ {"model", "mode", "preset"} \subseteq DOMAIN c
     /\ c.preset # <<>> <=> c.mode = "preset"
     /\ c.mode = "preset" => asked.kind = "preset"
     /\ asked.kind = "model" => (c.mode = "pinned" /\ c.model = asked.name) \/ c.mode \in Exempt
     /\ asked.kind = "preset" =>
          \/ c.mode = "preset" /\ c.model \in RouteOf(w, asked.name)
             /\ c.preset \in Seq(RouteOf(w, asked.name))
          \/ c.mode \in Exempt

Decided(w, r, q) == GrantFits(w, r, q) /\ FactsFit(w, r, q) /\ ChoiceFits(w, q.facts, q.choice)

Good(w, r, q, m) ==
  Acceptable(w, m, q.facts) /\ (m \in AskedFor(w, r) \/ q.choice.mode \in Exempt)

PlanFits(w, r, q) ==
  Len(q.plan) \in Nat /\ \A i \in 1 .. Len(q.plan) : Good(w, r, q, q.plan[i])

(* What lies between a posture and the boundary of an acceptable model.    *)
LEMMA AcceptableIsInside ==
  ASSUME NEW w, NEW m, NEW d, Acceptable(w, m, d)
  PROVE  LET boundary == model_execution_boundary(w.models[m])
         IN /\ m \in DOMAIN w.models
            /\ d.request.posture = "on-device-only" => boundary = "on-device"
            /\ d.request.posture = "local-devices" => boundary # "hosted"
            /\ w.models[m].window # 0 => d.estimate <= w.models[m].window
            /\ d.allowed = <<>> \/ m \in ToSet(d.allowed)
PROOF
  <1> DEFINE model == w.models[m]
             dest == destination_snapshot(model)
  <1>1. /\ m \in DOMAIN w.models /\ CanTake(d.request, d.offline, d.estimate, model)
        /\ d.allowed = <<>> \/ m \in ToSet(d.allowed)
    BY DEF Acceptable
  <1>2. assess_model(d.request, model) = {} /\ precheck_ok(d.estimate, model.window)
    BY <1>1 DEF CanTake
  <1>3. assess_destination(d.request, dest) \subseteq {"context-window-unknown"}
    BY <1>2 DEF assess_model
  <1>4. "privacy-boundary-denied" \notin assess_destination(d.request, dest)
    BY <1>3
  <1>5. permits(d.request.posture, dest.boundary)
    BY <1>4 DEF assess_destination
  <1>6. dest.boundary = model_execution_boundary(model)
    BY DEF destination_snapshot
  <1> HIDE DEF model, dest
  <1>7. /\ d.request.posture = "on-device-only" => model_execution_boundary(model) = "on-device"
        /\ d.request.posture = "local-devices" => model_execution_boundary(model) # "hosted"
    BY <1>5, <1>6 DEF permits
  <1>8. model.window # 0 => d.estimate <= model.window
    BY <1>2 DEF precheck_ok
  <1> QED
    BY <1>1, <1>7, <1>8 DEF model

(* The models of a caller's list are the ones it is shown.                 *)
LEMMA AllowedIsShown ==
  ASSUME NEW w, NEW r, NEW q, GrantFits(w, r, q), NEW m \in DOMAIN w.models,
         LET allowed == allowed_models(w.access, q.grant)
         IN allowed = <<>> \/ m \in ToSet(allowed)
  PROVE  m \in ModelsShownTo(w, r)
PROOF
  <1> DEFINE allowed == allowed_models(w.access, q.grant)
  <1>1. m \in openai_model_list(w, allowed) /\ m \in openai_model_list(w, <<>>)
    BY DEF openai_model_list
  <1>2. CASE w.access.active
    <2>1. q.grant = authenticate(w.access, r.authorization) /\ q.grant # Unauthorized
      BY <1>2 DEF GrantFits
    <2> QED
      BY <1>1, <1>2, <2>1 DEF ModelsShownTo, authenticated_openai_models
  <1>3. CASE ~w.access.active
    BY <1>1, <1>3 DEF ModelsShownTo
  <1> QED
    BY <1>2, <1>3

LEMMA GoodIsPermitted ==
  ASSUME NEW w, NEW r, NEW q, GrantFits(w, r, q), FactsFit(w, r, q), NEW m, Good(w, r, q, m)
  PROVE  Permitted(w, r, q, m)
PROOF
  <1> DEFINE boundary == model_execution_boundary(w.models[m])
             d == q.facts
  <1>1. /\ m \in DOMAIN w.models
        /\ d.request.posture = "on-device-only" => boundary = "on-device"
        /\ d.request.posture = "local-devices" => boundary # "hosted"
        /\ w.models[m].window # 0 => d.estimate <= w.models[m].window
        /\ d.allowed = <<>> \/ m \in ToSet(d.allowed)
    BY AcceptableIsInside DEF Good
  <1>2. /\ d.request.posture = parse_privacy_posture(r.posture, w.offline \/ r.offline)
        /\ d.allowed = allowed_models(w.access, q.grant)
    BY DEF FactsFit
  <1>3. m \in ModelsShownTo(w, r)
    BY <1>1, <1>2, AllowedIsShown
  <1> HIDE DEF boundary
  <1>4. w.offline \/ r.offline \/ r.posture = "on-device-only" => boundary = "on-device"
    BY <1>1, <1>2 DEF parse_privacy_posture
  <1>5. boundary = "on-device" => boundary # "hosted"
    OBVIOUS
  <1>6. r.posture = "local-devices" => boundary # "hosted"
    BY <1>1, <1>2, <1>5 DEF parse_privacy_posture
  <1> QED
    BY <1>1, <1>3, <1>4, <1>6 DEF Good, Permitted, Exempt, boundary

(* An empty model field names no model.                                    *)
NamesOne(field) == field.name # ""
FieldFits(r) == r.model.kind = "model" => NamesOne(r.model)

(* What a model field selects.                                             *)
LEMMA SelectionOfField ==
  ASSUME NEW w, NEW field, NEW asked, asked = resolve_request_selection(w, field)
  PROVE  /\ asked.kind \in {"preset", "unknown", "model", "none"}
         /\ field.kind = "preset" /\ field.name \in DOMAIN w.routes =>
              asked.kind = "preset" /\ asked.name = field.name
         /\ asked.kind = "preset" => asked.name \in DOMAIN w.routes
         /\ field.kind = "model" /\ NamesOne(field)
            /\ field.name \in DOMAIN w.models \ {"prefer-low", "prefer-high"} =>
              asked.kind = "model" /\ asked.name = field.name
PROOF
  <1>1. CASE field.kind = "preset"
    <2>1. asked =
            [kind |-> IF field.name \in DOMAIN w.routes THEN "preset" ELSE "unknown",
             name |-> field.name]
      BY <1>1 DEF resolve_request_selection
    <2> QED
      BY <1>1, <2>1
  <1>2. CASE field.kind # "preset"
    <2> DEFINE named == DirectiveModel(w, w.routing, field.name)
    <2>1. asked =
            IF field.kind = "model" /\ named # "" THEN [kind |-> "model", name |-> named]
            ELSE [kind |-> "none", name |-> ""]
      BY <1>2 DEF resolve_request_selection
    <2>2. field.name \in DOMAIN w.models \ {"prefer-low", "prefer-high"} => named = field.name
      BY DEF DirectiveModel
    <2> HIDE DEF named
    <2>3. CASE field.kind = "model" /\ named # ""
      <3>1. asked = [kind |-> "model", name |-> named]
        BY <2>1, <2>3
      <3>2. asked.kind = "model" /\ asked.name = named
        BY <3>1
      <3> QED
        BY <1>2, <2>2, <3>2
    <2>4. CASE ~(field.kind = "model" /\ named # "")
      <3>1. \E z : asked = [kind |-> "none", name |-> z]
        BY <2>1, <2>4, Zenon
      <3>2. asked.kind = "none"
        BY <3>1
      <3> QED
        BY <1>2, <2>2, <2>4, <3>2 DEF NamesOne
    <2> QED
      BY <2>3, <2>4
  <1> QED
    BY <1>1, <1>2

(* What is chosen where the selection stage does not refuse.               *)
Accepted(chosen) == chosen.refusal = ""

LEMMA AcceptedIsChosen ==
  ASSUME NEW w, NEW r, NEW d, NEW e, e = Chosen(w, r, d), Accepted(Selected(w, r, d))
  PROVE  /\ Selected(w, r, d).choice = e
         /\ d.selection.kind # "unknown"
         /\ ~(e.mode = "preset" /\ e.preset = <<>>)
PROOF
  <1> DEFINE s == Selected(w, r, d)
             refusal == SelectionRefusal(w, r, d, e)
  <1>1. ASSUME NEW reason, reason # "" PROVE ~Accepted(Refused(reason))
    <2>1. Refused(reason).refusal = reason
      <3>1. \E c : Refused(reason) = [choice |-> c, refusal |-> reason]
        BY Zenon DEF Refused
      <3> QED
        BY <3>1
    <2> QED
      BY <1>1, <2>1 DEF Accepted
  <1>2. "unknown_route" # "" /\ "bad_override" # ""
    OBVIOUS
  <1>3. d.selection.kind # "unknown" /\ s = Checked(w, r, d, e)
    BY <1>1, <1>2, Zenon DEF Selected
  <1> HIDE DEF s
  <1>4. s.choice = e /\ s.refusal = refusal
    <2> HIDE DEF refusal
    <2>1. s = [choice |-> e, refusal |-> refusal]
      BY <1>3 DEF Checked, refusal
    <2> QED
      BY <2>1
  <1>5. refusal = ""
    BY <1>4 DEF Accepted, s
  <1>6. ~(e.mode = "preset" /\ e.preset = <<>>)
    BY <1>5 DEF SelectionRefusal
  <1> QED
    BY <1>3, <1>4, <1>6 DEF s

LEMMA PresetModelsFit ==
  ASSUME NEW w, NEW d, IsWorld(w), d.selection.name \in DOMAIN w.routes
  PROVE  /\ PresetModels(w, d) \in Seq(RouteOf(w, d.selection.name))
         /\ \A k \in 1 .. Len(PresetModels(w, d)) :
              d.allowed = <<>> \/ PresetModels(w, d)[k] \in ToSet(d.allowed)
PROOF
  <1> DEFINE route == w.routes[d.selection.name]
             n == Len(route)
             at == {i \in 1 .. n :
                      /\ d.allowed = <<>> \/ route[i] \in ToSet(d.allowed)
                      /\ w.dryRun \/ (route[i] \in DOMAIN w.models
                                      /\ assess_model(d.request, w.models[route[i]]) = {})}
             models == PresetModels(w, d)
             R == RouteOf(w, d.selection.name)
  <1>1. route \in Seq(STRING)
    BY DEF IsWorld
  <1>2. n \in Nat /\ DOMAIN route = 1 .. n
    BY <1>1, LenProperties
  <1>3. at \in SUBSET (1 .. n) /\ \A i \in at : d.allowed = <<>> \/ route[i] \in ToSet(d.allowed)
    OBVIOUS
  <1>3a. at \in SUBSET Nat /\ IsFiniteSet(at)
    BY <1>2, <1>3, PositionsAreFinite
  <1>4. \A i \in at : route[i] \in R
    BY <1>2 DEF RouteOf, ToSet
  <1>5. models = ElementsAt(route, at)
    BY DEF PresetModels
  <1> HIDE DEF at, n, route, models, R
  <1>6. \A k \in 1 .. Len(models) : \E i \in at : models[k] = route[i]
    BY <1>3a, <1>5, ElementsAtPicks
  <1>7. models \in Seq(R)
    BY <1>3a, <1>4, <1>5, ElementsAtIn
  <1>8. \A k \in 1 .. Len(models) : d.allowed = <<>> \/ models[k] \in ToSet(d.allowed)
    BY <1>3, <1>6
  <1> QED
    BY <1>7, <1>8 DEF models, R

LEMMA ChosenFits ==
  ASSUME NEW w, NEW r, NEW d, NEW c, IsWorld(w), c = Chosen(w, r, d),
         d.selection = resolve_request_selection(w, r.model), d.selection.kind # "unknown",
         ~(c.mode = "preset" /\ c.preset = <<>>)
  PROVE  /\ ChoiceFits(w, d, c)
         /\ c.preset # <<>> => d.allowed = <<>> \/ c.model \in ToSet(d.allowed)
PROOF
  <1> DEFINE asked == d.selection
  <1>1. asked.kind \in {"preset", "model", "none"}
    <2>1. asked.kind \in {"preset", "unknown", "model", "none"}
      BY SelectionOfField
    <2> QED
      BY <2>1
  <1>4. CASE asked.kind = "preset"
    <2> DEFINE models == PresetModels(w, d)
    <2>1. c = FirstOfPreset(models)
      BY <1>4 DEF Chosen
    <2>2. asked.name \in DOMAIN w.routes
      BY <1>4, SelectionOfField
    <2>7. /\ models \in Seq(RouteOf(w, asked.name))
          /\ \A k \in 1 .. Len(models) : d.allowed = <<>> \/ models[k] \in ToSet(d.allowed)
      BY <2>2, PresetModelsFit
    <2> HIDE DEF models
    <2>8. PICK first : c = [model |-> first, mode |-> "preset", preset |-> models]
                       /\ (models # <<>> => first = models[1])
      BY <2>1, Zenon DEF FirstOfPreset
    <2>8a. c.model = first /\ c.mode = "preset" /\ c.preset = models /\ {"model", "mode", "preset"} \subseteq DOMAIN c
      BY <2>8
    <2>8b. models # <<>>
      BY <2>8a
    <2>9. 1 \in 1 .. Len(models)
      BY <2>7, <2>8b, LenProperties, EmptySeq
    <2>12. models[1] \in RouteOf(w, asked.name)
      BY <2>7, <2>9, ElementOfSeq
    <2>13. d.allowed = <<>> \/ models[1] \in ToSet(d.allowed)
      BY <2>7, <2>9
    <2>14. ChoiceFits(w, d, c)
      BY <1>4, <2>8, <2>8a, <2>8b, <2>7, <2>12 DEF ChoiceFits
    <2> QED
      BY <2>8, <2>8a, <2>8b, <2>13, <2>14
  <1>5. CASE asked.kind = "model"
    <2>1. c = [model |-> asked.name, mode |-> "pinned", preset |-> <<>>]
      BY <1>5 DEF Chosen
    <2> QED
      BY <1>5, <2>1 DEF ChoiceFits
  <1>6. CASE asked.kind = "none"
    <2>1. \E m : c = [model |-> m, mode |-> "slash-pinned", preset |-> <<>>]
                 \/ c = [model |-> m, mode |-> ScoredChoice(w, r, d).mode, preset |-> <<>>]
      BY <1>6, Zenon DEF Chosen
    <2>2. ScoredChoice(w, r, d).mode \in {"sticky", "threshold-override", "scored"}
      BY DEF ScoredChoice
    <2>3. \E m : \E mode \in {"slash-pinned", "sticky", "threshold-override", "scored"} :
            c = [model |-> m, mode |-> mode, preset |-> <<>>]
      BY <2>1, <2>2
    <2> QED
      BY <1>6, <2>3 DEF ChoiceFits
  <1> QED
    BY <1>1, <1>4, <1>5, <1>6

(* A soft budget, then the key's clamp, leave a choice that fits.          *)
LEMMA CorrectedFits ==
  ASSUME NEW w, NEW d, NEW c, NEW names, ChoiceFits(w, d, c),
         c.preset # <<>> => d.allowed = <<>> \/ c.model \in ToSet(d.allowed)
  PROVE  /\ ChoiceFits(w, d, Clamped(c, d, names))
         /\ ChoiceFits(w, d, Clamped(Degraded(c, d), d, names))
PROOF
  <1>1. ASSUME NEW e, ChoiceFits(w, d, e),
               e.preset # <<>> => d.allowed = <<>> \/ e.model \in ToSet(d.allowed)
        PROVE  ChoiceFits(w, d, Clamped(e, d, names))
    <2> DEFINE model == clamp_to_allowed(e.model, Ladder(d), d.allowed, names)
    <2>1. Clamped(e, d, names) =
            IF model = e.model THEN e ELSE [e EXCEPT !.model = model, !.mode = "key-scoped"]
      BY DEF Clamped
    <2>2. d.allowed = <<>> \/ e.model \in ToSet(d.allowed) => model = e.model
      BY DEF clamp_to_allowed
    <2> HIDE DEF model
    <2>3. CASE model = e.model
      BY <1>1, <2>1, <2>3
    <2>4. CASE model # e.model
      <3> DEFINE f == [e EXCEPT !.model = model, !.mode = "key-scoped"]
      <3>1. e.preset = <<>>
        BY <1>1, <2>2, <2>4
      <3>2. DOMAIN f = DOMAIN e /\ f.mode = "key-scoped" /\ f.preset = <<>>
        BY <1>1, <3>1 DEF ChoiceFits
      <3>3. Clamped(e, d, names) = f
        BY <2>1, <2>4
      <3> HIDE DEF f
      <3> QED
        BY <1>1, <3>2, <3>3 DEF ChoiceFits, Exempt
    <2> QED
      BY <2>3, <2>4
  <1>2. /\ ChoiceFits(w, d, Degraded(c, d))
        /\ Degraded(c, d).preset # <<>> =>
             d.allowed = <<>> \/ Degraded(c, d).model \in ToSet(d.allowed)
    <2> DEFINE f == [model |-> Cheapest(d.scored.tiers), mode |-> "budget-degraded", preset |-> <<>>]
    <2>1. Degraded(c, d) = c \/ Degraded(c, d) = f
      BY DEF Degraded
    <2>2. ChoiceFits(w, d, f) /\ f.preset = <<>>
      BY DEF ChoiceFits, Exempt
    <2> HIDE DEF f
    <2> QED
      BY <2>1, <2>2
  <1> QED
    BY <1>1, <1>2

(* What the handler works out first.                                       *)
LEMMA FactsAreFit ==
  ASSUME NEW w, NEW r, NEW grant, NEW allowed, IsWorld(w), NEW d, d = Facts(w, r, grant, allowed)
  PROVE  /\ d.posture = parse_privacy_posture(r.posture, w.offline \/ r.offline)
         /\ d.request.posture = d.posture
         /\ d.estimate = estimate_tokens(extract_prompt(d.messages, "all"))
         /\ d.allowed = allowed
         /\ d.selection = resolve_request_selection(w, r.model)
         /\ Len(d.scored.tiers) \in Nat
PROOF
  <1> DEFINE base == BaseRouting(w, grant)
             routing == apply_scoring_overrides(base, r.tuning)
             slash == IF w.slash
                      THEN resolve_slash_directive_for_names(w, routing, r.messages)
                      ELSE [found |-> FALSE, pin |-> "", messages |-> r.messages]
             routeOn == IF r.routeOn = "absent" THEN w.routeOn ELSE r.routeOn
             messages == slash.messages
             pin == slash.pin
             estimate == estimate_tokens(extract_prompt(messages, "all"))
             posture == parse_privacy_posture(r.posture, w.offline \/ r.offline)
             scored == score_complexity(extract_prompt(messages, routeOn), routing)
             request == request_requirements(r, messages, estimate, posture)
             selection == resolve_request_selection(w, r.model)
  <1>1. d = [routing |-> routing, messages |-> messages, slashPin |-> pin,
             offline |-> w.offline \/ r.offline, posture |-> posture, estimate |-> estimate,
             request |-> request, scored |-> scored, selection |-> selection, allowed |-> allowed]
    BY DEF Facts
  <1>2. request.posture = posture
    BY DEF request_requirements
  <1>3. Len(base.tiers) \in Nat /\ {"tiers", "weights", "lexicon", "classifier"} \subseteq DOMAIN base
    BY DEF IsWorld, BaseRouting
  <1> HIDE DEF base
  <1>4. routing.tiers = base.tiers
    BY <1>3 DEF apply_scoring_overrides
  <1> HIDE DEF routing
  <1>5. scored.tiers = IF HasClassifier(routing) THEN <<>> ELSE routing.tiers
    BY DEF score_complexity
  <1> HIDE DEF scored
  <1>6. Len(<<>>) \in Nat
    OBVIOUS
  <1>7. Len(scored.tiers) \in Nat
    BY <1>3, <1>4, <1>5, <1>6
  <1>8. estimate = estimate_tokens(extract_prompt(messages, "all"))
    OBVIOUS
  <1> HIDE DEF messages, pin, estimate, posture, request, selection, slash, routeOn
  <1>9. /\ d.posture = posture /\ d.request = request /\ d.estimate = estimate /\ d.messages = messages
        /\ d.allowed = allowed /\ d.selection = selection /\ d.scored = scored
    BY <1>1
  <1> QED
    BY <1>2, <1>7, <1>8, <1>9 DEF posture, selection

-----------------------------------------------------------------------------
(* The plan: its names are picked from the pinned model, the models of the *)
(* preset, or the fallbacks and the tiers.                                 *)

LEMMA FirstAndLast ==
  ASSUME NEW at \in SUBSET Nat, IsFiniteSet(at), at # {}
  PROVE  /\ \E i \in at : \A j \in at : i <= j
         /\ \E i \in at : \A j \in at : i >= j
PROOF
  <1>1. Cardinality(at) \in Nat /\ Cardinality(at) # 0
    BY FS_CardinalityType, FS_EmptySet
  <1>2. \A i \in at : Below(at, i) \in SUBSET at /\ i \in Below(at, i)
    BY DEF Below
  <1>3. \E i \in at : \A j \in at : i <= j
    <2>1. 1 \in 1 .. Cardinality(at)
      BY <1>1
    <2>2. PICK i \in at : Cardinality(Below(at, i)) = 1
      BY <2>1, EveryRankIsTaken
    <2>3. IsFiniteSet(Below(at, i))
      BY <1>2, FS_Subset
    <2>4. PICK x : Below(at, i) = {x}
      BY <2>2, <2>3, FS_Singleton
    <2>5. \A j \in at : j <= i => j = i
      BY <1>2, <2>4 DEF Below
    <2>6. i \in Nat /\ \A j \in at : j \in Nat
      OBVIOUS
    <2> QED
      BY <2>5, <2>6
  <1>4. \E i \in at : \A j \in at : i >= j
    <2>1. Cardinality(at) \in 1 .. Cardinality(at)
      BY <1>1
    <2>2. PICK i \in at : Cardinality(Below(at, i)) = Cardinality(at)
      BY <2>1, EveryRankIsTaken
    <2>3. Below(at, i) = at
      BY <1>2, <2>2, FS_Subset
    <2>4. \A j \in at : j <= i
      BY <2>3 DEF Below
    <2>5. i \in Nat /\ \A j \in at : j \in Nat
      OBVIOUS
    <2> QED
      BY <2>4, <2>5
  <1> QED
    BY <1>3, <1>4

LEMMA FailoverIsSequence ==
  ASSUME NEW S, NEW ladder \in Seq(S), NEW chosen, NEW policy
  PROVE  failover_candidates(chosen, ladder, policy) \in Seq(S)
PROOF
  <1> DEFINE at == {i \in 1 .. Len(ladder) : ladder[i] = chosen}
             f == FirstOf(at)
             lower == SubSeq(ladder, 1, f - 1)
  <1>1. Len(ladder) \in Nat
    BY LenProperties
  <1>2. <<>> \in Seq(S)
    BY EmptySeq
  <1>3. ASSUME at # {} PROVE f \in 1 .. Len(ladder)
    <2>1. at \in SUBSET (1 .. Len(ladder))
      OBVIOUS
    <2>2. at \in SUBSET Nat /\ IsFiniteSet(at)
      BY <1>1, <2>1, PositionsAreFinite
    <2> HIDE DEF at
    <2>3. \E i \in at : \A j \in at : i <= j
      BY <1>3, <2>2, FirstAndLast
    <2> QED
      BY <2>1, <2>3 DEF FirstOf
  <1>4. failover_candidates(chosen, ladder, policy) =
          IF at = {} \/ policy = "same-tier" THEN <<>>
          ELSE IF policy = "degrade" THEN Reverse(lower) ELSE SubSeq(ladder, f + 1, Len(ladder))
    BY DEF failover_candidates
  <1> HIDE DEF at, f
  <1>5. ASSUME at # {} PROVE lower \in Seq(S) /\ SubSeq(ladder, f + 1, Len(ladder)) \in Seq(S)
    BY <1>1, <1>3, <1>5, SubSeqProperties
  <1> HIDE DEF lower
  <1>6. ASSUME lower \in Seq(S) PROVE Reverse(lower) \in Seq(S)
    <2>1. Len(lower) \in Nat /\ lower \in [1 .. Len(lower) -> S]
      BY <1>6, LenProperties
    <2>2. \A i \in 1 .. Len(lower) : (Len(lower) - i) + 1 \in 1 .. Len(lower)
      BY <2>1
    <2>3. Reverse(lower) \in [1 .. Len(lower) -> S]
      BY <2>1, <2>2 DEF Reverse
    <2> QED
      BY <2>1, <2>3, SeqDef
  <1> QED
    BY <1>2, <1>4, <1>5, <1>6

(* The names a plan is picked from: the pinned model, models of the        *)
(* preset, or any.                                                         *)
LEMMA NamesFit ==
  ASSUME NEW w, NEW r, NEW d, NEW c, IsWorld(w), ChoiceFits(w, d, c), Len(d.scored.tiers) \in Nat,
         DeliveryName(c, d) \in DOMAIN w.models,
         NEW names, names = <<DeliveryName(c, d)>> \o Candidates(w, r, c, d)
  PROVE  \E T : /\ names \in Seq(T)
                /\ d.selection.kind = "model" /\ c.mode \notin Exempt => T = {d.selection.name}
                /\ d.selection.kind = "preset" /\ c.mode \notin Exempt =>
                     T = RouteOf(w, d.selection.name)
PROOF
  <1> DEFINE asked == d.selection
             name == DeliveryName(c, d)
             rest == Candidates(w, r, c, d)
  <1>1. \A T : name \in T /\ rest \in Seq(T) => names \in Seq(T)
    <2> SUFFICES ASSUME NEW T, name \in T, rest \in Seq(T) PROVE names \in Seq(T)
      OBVIOUS
    <2> HIDE DEF name, rest
    <2>1. <<name>> \in Seq(T)
      OBVIOUS
    <2>2. names = <<name>> \o rest
      BY DEF name, rest
    <2> QED
      BY <2>1, <2>2, ConcatProperties
  <1>2. CASE Pinned(c.mode)
    <2>1. name = c.model /\ rest = <<>>
      BY <1>2 DEF DeliveryName, Candidates
    <2>2. <<>> \in Seq({c.model})
      BY EmptySeq
    <2>3. names \in Seq({c.model})
      BY <1>1, <2>1, <2>2
    <2>4. c.mode # "preset" /\ c.mode \notin Exempt
      BY <1>2 DEF Pinned, Exempt
    <2>5. asked.kind = "model" => c.model = asked.name
      BY <2>4 DEF ChoiceFits
    <2>6. asked.kind # "preset"
      BY <2>4 DEF ChoiceFits
    <2> QED
      BY <2>3, <2>5, <2>6
  <1>3. CASE ~Pinned(c.mode) /\ c.preset # <<>>
    <2> DEFINE R == RouteOf(w, asked.name)
               at == {i \in 1 .. Len(c.preset) : c.preset[i] # name}
    <2>1. name = c.model
      BY <1>3 DEF DeliveryName
    <2>2. c.mode = "preset" /\ asked.kind = "preset"
      BY <1>3 DEF ChoiceFits
    <2>3. c.mode \notin Exempt
      BY <2>2 DEF Exempt
    <2>4. c.model \in R /\ c.preset \in Seq(R)
      BY <2>2, <2>3 DEF ChoiceFits
    <2>5. rest = ElementsAt(c.preset, at)
      BY <1>3 DEF Candidates
    <2>6. Len(c.preset) \in Nat /\ \A i \in 1 .. Len(c.preset) : c.preset[i] \in R
      BY <2>4, LenProperties, ElementOfSeq
    <2>7. at \in SUBSET (1 .. Len(c.preset))
      OBVIOUS
    <2> HIDE DEF at, rest, name, R
    <2>8. at \in SUBSET Nat /\ IsFiniteSet(at)
      BY <2>6, <2>7, PositionsAreFinite
    <2>9. \A i \in at : c.preset[i] \in R
      BY <2>6, <2>7
    <2>10. rest \in Seq(R)
      BY <2>5, <2>8, <2>9, ElementsAtIn
    <2>11. names \in Seq(R)
      BY <1>1, <2>1, <2>4, <2>10
    <2> QED
      BY <2>2, <2>11 DEF R
  <1>4. CASE ~Pinned(c.mode) /\ c.preset = <<>>
    <2> DEFINE ladder == Ladder(d)
               L == {ladder[i] : i \in 1 .. Len(d.scored.tiers)}
               T == {name} \cup STRING \cup L
               policy == IF r.failover = "absent" THEN w.failover ELSE r.failover
               more == IF ~d.offline \/ ladder = <<>>
                       THEN failover_candidates(c.model, ladder, policy) ELSE <<>>
               own == w.models[name].fallbacks
    <2>1. rest = own \o more
      BY <1>4 DEF Candidates
    <2>2. own \in Seq(T)
      <3>1. own \in Seq(STRING)
        <4>1. name \in DOMAIN w.models
          OBVIOUS
        <4>2. \A m \in DOMAIN w.models : w.models[m].fallbacks \in Seq(STRING)
          BY Zenon DEF IsWorld
        <4> HIDE DEF name
        <4> QED
          BY <4>1, <4>2
      <3>2. STRING \subseteq T
        OBVIOUS
      <3> HIDE DEF own, T
      <3> QED
        BY <3>1, <3>2, SeqMonotonic
    <2>3. ladder \in Seq(T)
      <3> DEFINE n == Len(d.scored.tiers)
      <3>1. ladder \in [1 .. n -> T] /\ n \in Nat
        BY DEF Ladder
      <3> HIDE DEF ladder, T, n
      <3>2. \A k \in Nat : \A f \in [1 .. k -> T] : f \in Seq(T)
        OBVIOUS
      <3> QED
        BY <3>1, <3>2
    <2>4. more \in Seq(T)
      <3> HIDE DEF ladder, T, policy
      <3>1. failover_candidates(c.model, ladder, policy) \in Seq(T)
        BY <2>3, FailoverIsSequence
      <3>2. <<>> \in Seq(T)
        BY EmptySeq
      <3> QED
        BY <3>1, <3>2
    <2>4a. name \in T
      OBVIOUS
    <2> HIDE DEF own, more, T, rest, name
    <2>5. rest \in Seq(T)
      BY <2>1, <2>2, <2>4, ConcatProperties
    <2>6. names \in Seq(T)
      BY <1>1, <2>4a, <2>5
    <2>7. asked.kind \in {"model", "preset"} => c.mode \in Exempt
      BY <1>4 DEF ChoiceFits, Pinned
    <2> QED
      BY <2>6, <2>7
  <1> QED
    BY <1>2, <1>3, <1>4

LEMMA AskedForFits ==
  ASSUME NEW w, NEW r, NEW asked, asked = resolve_request_selection(w, r.model),
         FieldFits(r),
         NEW m \in DOMAIN w.models,
         asked.kind = "model" => m = asked.name,
         asked.kind = "preset" => m \in RouteOf(w, asked.name)
  PROVE  m \in AskedFor(w, r)
PROOF
  <1> DEFINE field == r.model
             named == field.kind = "model" /\ field.name \in DOMAIN w.models \ {"prefer-low", "prefer-high"}
             preset == field.kind = "preset" /\ field.name \in DOMAIN w.routes
  <1>1. named => asked.kind = "model" /\ asked.name = field.name
    BY SelectionOfField DEF FieldFits
  <1>2. preset => asked.kind = "preset" /\ asked.name = field.name
    BY SelectionOfField
  <1>3. ~(named /\ preset)
    OBVIOUS
  <1>4. AskedFor(w, r) = CASE named -> {field.name}
                           [] preset -> ToSet(w.routes[field.name])
                           [] OTHER -> DOMAIN w.models
    BY DEF AskedFor
  <1> HIDE DEF named, preset, field
  <1>5. CASE named
    BY <1>1, <1>3, <1>4, <1>5
  <1>6. CASE preset
    BY <1>2, <1>3, <1>4, <1>6 DEF RouteOf
  <1>7. CASE ~named /\ ~preset
    BY <1>4, <1>7
  <1> QED
    BY <1>5, <1>6, <1>7

LEMMA PlanIsGood ==
  ASSUME NEW w, NEW r, NEW q, IsWorld(w), Decided(w, r, q),
         FieldFits(r),
         DeliveryName(q.choice, q.facts) \in DOMAIN w.models,
         NEW open, NEW plan, plan = delivery_plan(w, r, q.choice, q.facts, open)
  PROVE  Len(plan) \in Nat /\ \A i \in 1 .. Len(plan) : Good(w, r, q, plan[i])
PROOF
  <1> DEFINE c == q.choice
             d == q.facts
             asked == d.selection
             names == <<DeliveryName(c, d)>> \o Candidates(w, r, c, d)
             at == {i \in 1 .. Len(names) :
                      /\ \A j \in 1 .. i - 1 : names[j] # names[i]
                      /\ names[i] \notin open /\ Acceptable(w, names[i], d)}
  <1>1. /\ ChoiceFits(w, d, c) /\ Len(d.scored.tiers) \in Nat
        /\ asked = resolve_request_selection(w, r.model)
    BY DEF Decided, FactsFit
  <1>2. plan = ElementsAt(names, at)
    BY DEF delivery_plan
  <1>3. \A i \in at : i \in 1 .. Len(names) /\ Acceptable(w, names[i], d)
    OBVIOUS
  <1>4. at \in SUBSET (1 .. Len(names))
    OBVIOUS
  <1> HIDE DEF at
  <1>5. PICK T : /\ names \in Seq(T)
                 /\ asked.kind = "model" /\ c.mode \notin Exempt => T = {asked.name}
                 /\ asked.kind = "preset" /\ c.mode \notin Exempt => T = RouteOf(w, asked.name)
    BY <1>1, NamesFit
  <1> HIDE DEF names
  <1>6. Len(names) \in Nat /\ \A i \in 1 .. Len(names) : names[i] \in T
    BY <1>5, LenProperties, ElementOfSeq
  <1>7. at \in SUBSET Nat /\ IsFiniteSet(at)
    BY <1>4, <1>6, PositionsAreFinite
  <1>8. /\ Len(plan) \in Nat
        /\ \A k \in 1 .. Len(plan) : \E i \in at : plan[k] = names[i]
    BY <1>2, <1>7, ElementsAtPicks
  <1>9. ASSUME NEW m, NEW i \in at, m = names[i] PROVE Good(w, r, q, m)
    <2>1. Acceptable(w, m, d) /\ m \in T
      BY <1>3, <1>6, <1>9
    <2>2. m \in DOMAIN w.models
      BY <2>1 DEF Acceptable
    <2>3. ASSUME c.mode \notin Exempt PROVE m \in AskedFor(w, r)
      <3>1. asked.kind = "model" => m = asked.name
        BY <1>5, <2>1, <2>3
      <3>2. asked.kind = "preset" => m \in RouteOf(w, asked.name)
        BY <1>5, <2>1, <2>3
      <3> HIDE DEF asked
      <3> QED
        BY <1>1, <2>2, <3>1, <3>2, AskedForFits
    <2> QED
      BY <2>1, <2>3 DEF Good
  <1> QED
    BY <1>8, <1>9

-----------------------------------------------------------------------------
(* The key of a cached answer.                                             *)

Blank == ""

Partition(w, q) ==
  IF key_id(w.access, q.grant) = Blank THEN "local" ELSE key_id(w.access, q.grant)

RoutePart(r, q) ==
  IF q.choice.preset # <<>> THEN <<"preset", r.model.name>>
  ELSE <<q.choice.mode, DeliveryName(q.choice, q.facts)>>

KeyFor(w, r, q, model) ==
  <<Partition(w, q), q.facts.posture, RoutePart(r, q), w.models[model].provider_model,
    <<r.model, q.facts.messages, r.output>>>>

LEMMA KeyIsKeyFor ==
  ASSUME NEW s, NEW m PROVE CacheKey(s, m) = KeyFor(world, calls[s], st[s], m)
PROOF
  <1>1. CacheKey(s, m) =
          <<IF KeyOf(s) = "" THEN "local" ELSE KeyOf(s), D(s).posture,
            RoutePart(calls[s], st[s]), world.models[m].provider_model,
            <<calls[s].model, D(s).messages, calls[s].output>>>>
    BY Zenon DEF CacheKey, RoutePart, D
  <1> QED
    BY <1>1, Zenon DEF KeyFor, Partition, Blank, KeyOf, D, A

(* An authenticated caller has a key of the policy, or needs none.         *)
LEMMA GrantIsOfKeys ==
  ASSUME NEW w, NEW r, NEW q, IsWorld(w), GrantFits(w, r, q)
  PROVE  /\ q.grant \in {0} \cup 1 .. Len(w.access.keys)
         /\ q.grant = 0 => ~w.access.active \/ w.access.keys = <<>> \/ w.access.open
         /\ q.grant # 0 => w.access.active /\ w.access.keys # <<>>
PROOF
  <1> DEFINE p == w.access
             keys == p.keys
             a == r.authorization
             token == extract_bearer(a)
             matches == {i \in 1 .. Len(keys) : token # "" /\ keys[i].secret = token}
  <1>1. Len(keys) \in Nat
    BY Zenon DEF IsWorld
  <1>2. matches # {} => Max(matches) \in matches
    <2>1. matches \in SUBSET (1 .. Len(keys))
      BY Zenon
    <2> HIDE DEF matches
    <2>2. matches \in SUBSET Nat /\ IsFiniteSet(matches)
      BY <1>1, <2>1, PositionsAreFinite
    <2>3. matches # {} => \E i \in matches : \A j \in matches : i >= j
      BY <2>2, FirstAndLast
    <2> QED
      BY <2>3 DEF Max
  <1>3. match_key(keys, token) = IF matches = {} THEN Unauthorized ELSE Max(matches)
    BY DEF match_key
  <1>4. matches \subseteq 1 .. Len(keys)
    BY Zenon
  <1> HIDE DEF matches, token
  <1>5. authenticate(p, a) =
          IF keys = <<>> \/ (a.scheme = "absent" /\ p.open) THEN Anonymous
          ELSE IF a.scheme = "absent" THEN Unauthorized ELSE match_key(keys, token)
    BY DEF authenticate, token
  <1>6. match_key(keys, token) \in {Unauthorized} \cup 1 .. Len(keys)
    BY <1>2, <1>3, <1>4
  <1>7. Anonymous = 0 /\ Unauthorized = -1 /\ 0 \notin 1 .. Len(keys) /\ 0 # -1
    BY <1>1 DEF Anonymous, Unauthorized
  <1>8. q.grant = (IF p.active THEN authenticate(p, a) ELSE Anonymous) /\ q.grant # Unauthorized
    BY DEF GrantFits
  <1> QED
    BY <1>5, <1>6, <1>7, <1>8

LEMMA SameGrant ==
  ASSUME NEW w, NEW r, NEW q, NEW r2, NEW q2, IsWorld(w), GrantFits(w, r, q), GrantFits(w, r2, q2),
         Partition(w, q) = Partition(w, q2)
  PROVE  q.grant = q2.grant
PROOF
  <1> DEFINE keys == w.access.keys
  <1>1. /\ Len(keys) \in Nat
        /\ \A i, j \in 1 .. Len(keys) : keys[i].id = keys[j].id => i = j
        /\ \A i \in 1 .. Len(keys) : keys[i].id # Blank /\ (w.access.open => keys[i].id # "local")
    BY Zenon DEF IsWorld, Blank
  <1>1a. \A x : key_id(w.access, x.grant) = IF x.grant > 0 THEN keys[x.grant].id ELSE Blank
    BY Zenon DEF key_id, Blank
  <1>2. ASSUME NEW x, x.grant \in 1 .. Len(keys) PROVE Partition(w, x) = keys[x.grant].id
    <2>1. x.grant > 0
      BY <1>1, <1>2
    <2> QED
      BY <1>1, <1>1a, <1>2, <2>1 DEF Partition
  <1>3. ASSUME NEW x, x.grant = 0 PROVE Partition(w, x) = "local"
    BY <1>1a, <1>3 DEF Partition
  <1>4. ASSUME NEW a, NEW x, NEW b, NEW y, GrantFits(w, a, x), GrantFits(w, b, y),
               Partition(w, x) = Partition(w, y), x.grant = 0, y.grant # 0
        PROVE  FALSE
    <2>1. y.grant \in 1 .. Len(keys) /\ w.access.active /\ keys # <<>>
      BY <1>4, GrantIsOfKeys
    <2>2. ~w.access.active \/ keys = <<>> \/ w.access.open
      BY <1>4, GrantIsOfKeys
    <2>3. keys[y.grant].id = "local"
      BY <1>2, <1>3, <1>4, <2>1
    <2> QED
      BY <1>1, <2>1, <2>2, <2>3
  <1>5. q.grant \in {0} \cup 1 .. Len(keys) /\ q2.grant \in {0} \cup 1 .. Len(keys)
    BY GrantIsOfKeys
  <1>6. q.grant = 0 <=> q2.grant = 0
    BY <1>4
  <1>7. CASE q.grant # 0 /\ q2.grant # 0
    <2>1. q.grant \in 1 .. Len(keys) /\ q2.grant \in 1 .. Len(keys)
      BY <1>5, <1>7
    <2>2. keys[q.grant].id = keys[q2.grant].id
      BY <1>2, <2>1
    <2> QED
      BY <1>1, <2>1, <2>2
  <1> QED
    BY <1>6, <1>7

(* Who finds an answer in the cache could have been given it.              *)
LEMMA ReplayIsPermitted ==
  ASSUME NEW w, NEW r, NEW q, NEW r2, NEW q2, IsWorld(w), Decided(w, r, q), Decided(w, r2, q2),
         NEW m, Good(w, r2, q2, m), NEW name, KeyFor(w, r, q, name) = KeyFor(w, r2, q2, m)
  PROVE  Permitted(w, r, q, m)
PROOF
  <1> DEFINE boundary == model_execution_boundary(w.models[m])
             d == q.facts
             d2 == q2.facts
  <1>1. /\ Partition(w, q) = Partition(w, q2) /\ d.posture = d2.posture
        /\ RoutePart(r, q) = RoutePart(r2, q2) /\ r.model = r2.model /\ d.messages = d2.messages
    BY DEF KeyFor
  <1>2. /\ GrantFits(w, r, q) /\ GrantFits(w, r2, q2) /\ FactsFit(w, r, q) /\ FactsFit(w, r2, q2)
        /\ ChoiceFits(w, d, q.choice) /\ ChoiceFits(w, d2, q2.choice)
    BY DEF Decided
  <1>3. q.grant = q2.grant
    BY <1>1, <1>2, SameGrant
  <1>4. /\ m \in DOMAIN w.models
        /\ d2.request.posture = "on-device-only" => boundary = "on-device"
        /\ d2.request.posture = "local-devices" => boundary # "hosted"
        /\ w.models[m].window # 0 => d2.estimate <= w.models[m].window
        /\ d2.allowed = <<>> \/ m \in ToSet(d2.allowed)
    BY AcceptableIsInside DEF Good
  <1>5. d2.allowed = allowed_models(w.access, q.grant)
    BY <1>2, <1>3 DEF FactsFit
  <1>6. m \in ModelsShownTo(w, r)
    BY <1>2, <1>4, <1>5, AllowedIsShown
  <1>7. d2.estimate = d.estimate
    BY <1>1, <1>2 DEF FactsFit
  <1>8. d2.request.posture = parse_privacy_posture(r.posture, w.offline \/ r.offline)
    BY <1>1, <1>2 DEF FactsFit
  <1>9. AskedFor(w, r) = AskedFor(w, r2)
    BY <1>1 DEF AskedFor
  <1>10. m \in AskedFor(w, r) \/ q.choice.mode \in Exempt
    <2>1. CASE m \in AskedFor(w, r2)
      BY <1>9, <2>1
    <2>2. CASE q2.choice.mode \in Exempt
      <3>1. q2.choice.preset = <<>> /\ q2.choice.mode # "preset"
        BY <1>2, <2>2 DEF ChoiceFits, Exempt
      <3>2. RoutePart(r2, q2)[1] = q2.choice.mode
        BY <3>1 DEF RoutePart
      <3>3. RoutePart(r, q)[1] = IF q.choice.preset # <<>> THEN "preset" ELSE q.choice.mode
        BY DEF RoutePart
      <3> QED
        BY <1>1, <2>2, <3>1, <3>2, <3>3
    <2> QED
      BY <2>1, <2>2 DEF Good
  <1> HIDE DEF boundary
  <1>11. w.offline \/ r.offline \/ r.posture = "on-device-only" => boundary = "on-device"
    BY <1>4, <1>8 DEF parse_privacy_posture
  <1>12. boundary = "on-device" => boundary # "hosted"
    OBVIOUS
  <1>13. r.posture = "local-devices" => boundary # "hosted"
    BY <1>4, <1>8, <1>12 DEF parse_privacy_posture
  <1> QED
    BY <1>4, <1>6, <1>7, <1>10, <1>11, <1>13 DEF Permitted, Exempt, boundary

-----------------------------------------------------------------------------
(* The inductive invariant: what is known of a request at each step, and   *)
(* where the cache's answers come from.                                    *)

AskFields == {"pc", "grant", "facts", "choice", "plan", "tried", "served"}

Undelivered == {"arrive", "auth", "decide", "snapshot", "expose", "headers", "record"}
Planned == {"reserve", "admit", "lease", "tokens", "deliver"}
Late == {"relay", "charge", "record_cost", "settle", "usage", "answer", "c_record", "c_snapshot",
         "c_trip"}

SentTo(q) == q.tried \cup ({q.served} \ {""})

SlotFits(w, r, q) ==
  /\ AskFields \subseteq DOMAIN q
  /\ q.pc # "done" => FieldFits(r)
  /\ q.pc \in {"arrive", "auth"} => q.grant = Anonymous
  /\ q.pc = "auth" => w.access.active
  /\ q.pc \notin {"arrive", "auth", "done"} => GrantFits(w, r, q)
  /\ q.pc \notin {"arrive", "auth", "decide", "done"} => Decided(w, r, q)
  /\ q.pc \in {"snapshot", "expose"} => q.choice.mode = "scored"
  /\ q.pc \in Undelivered => SentTo(q) = {}
  /\ q.pc \in Planned => PlanFits(w, r, q)
  /\ q.pc \in Late => Good(w, r, q, q.served)
  /\ \A m \in SentTo(q) : Permitted(w, r, q, m)

\* Request x, which is over, left answer e under key k.
CameFrom(w, r, q, k, e) ==
  /\ q.pc = "done" /\ Decided(w, r, q) /\ Good(w, r, q, q.served)
  /\ k = KeyFor(w, r, q, q.served) /\ e.served = q.served

CacheFits == \A k \in DOMAIN cache : \E x \in Slots : CameFrom(world, calls[x], st[x], k, cache[k])

PermitInv ==
  /\ IsWorld(world)
  /\ DOMAIN st = Slots /\ DOMAIN calls \subseteq Slots
  /\ \A s \in Slots : SlotFits(world, calls[s], st[s])
  /\ CacheFits

(* What decides where a request may go is as before.                       *)
SameAsk(q, p) ==
  /\ AskFields \subseteq DOMAIN p
  /\ p.grant = q.grant /\ p.facts = q.facts /\ p.choice = q.choice
  /\ p.plan = q.plan /\ p.tried = q.tried /\ p.served = q.served

MovedTo(s, q, to) ==
  /\ DOMAIN st' = Slots /\ \A x \in Slots \ {s} : st'[x] = st[x]
  /\ SameAsk(q, st'[s]) /\ st'[s].pc = to

LEMMA GoesMoves ==
  ASSUME DOMAIN st = Slots, NEW s \in Slots, NEW q, AskFields \subseteq DOMAIN q,
         NEW to, Goes(s, q, to)
  PROVE  MovedTo(s, q, to)
PROOF
  <1>1. st' = [st EXCEPT ![s] = [q EXCEPT !.pc = to]]
    BY DEF Goes
  <1>2. st'[s] = [q EXCEPT !.pc = to]
    BY <1>1
  <1> QED
    BY <1>1, <1>2 DEF AskFields, MovedTo, SameAsk

LEMMA EndsMoves ==
  ASSUME DOMAIN st = Slots, NEW s \in Slots, NEW q, AskFields \subseteq DOMAIN q,
         NEW reply, Ends(s, q, reply)
  PROVE  MovedTo(s, q, "done")
PROOF
  <1> DEFINE p == [q EXCEPT !.pc = "done", !.reply = reply, !.permit = FALSE,
                            !.lease = FALSE, !.budget = FALSE, !.guard = FALSE]
  <1>1. st' = [st EXCEPT ![s] = p]
    BY DEF Ends
  <1>2. SameAsk(q, p) /\ p.pc = "done"
    BY DEF AskFields, SameAsk
  <1> HIDE DEF p
  <1>3. st'[s] = p /\ DOMAIN st' = Slots /\ \A x \in Slots \ {s} : st'[x] = st[x]
    BY <1>1
  <1> QED
    BY <1>2, <1>3 DEF MovedTo

(* The same request with the same decision, wherever it was sent.          *)
SameDecision(q, p) ==
  /\ AskFields \subseteq DOMAIN p
  /\ p.grant = q.grant /\ p.facts = q.facts /\ p.choice = q.choice

LEMMA SameDecisionSame ==
  ASSUME NEW w, NEW r, NEW q, NEW p, SameDecision(q, p)
  PROVE  /\ GrantFits(w, r, p) = GrantFits(w, r, q)
         /\ Decided(w, r, p) = Decided(w, r, q)
         /\ \A m : Good(w, r, p, m) = Good(w, r, q, m)
         /\ \A m : Permitted(w, r, p, m) = Permitted(w, r, q, m)
         /\ \A m : KeyFor(w, r, p, m) = KeyFor(w, r, q, m)
PROOF
  <1>1. GrantFits(w, r, p) = GrantFits(w, r, q)
    BY DEF SameDecision, GrantFits
  <1>2. FactsFit(w, r, p) = FactsFit(w, r, q)
    BY DEF SameDecision, FactsFit
  <1>3. Decided(w, r, p) = Decided(w, r, q)
    BY <1>1, <1>2 DEF SameDecision, Decided
  <1>4. \A m : Good(w, r, p, m) = Good(w, r, q, m)
    BY DEF SameDecision, Good
  <1>5. \A m : Permitted(w, r, p, m) = Permitted(w, r, q, m)
    BY DEF SameDecision, Permitted
  <1>6. \A m : KeyFor(w, r, p, m) = KeyFor(w, r, q, m)
    BY DEF SameDecision, KeyFor, Partition, RoutePart
  <1> QED
    BY <1>1, <1>3, <1>4, <1>5, <1>6

LEMMA SameAskSame ==
  ASSUME NEW w, NEW r, NEW q, NEW p, SameAsk(q, p)
  PROVE  /\ GrantFits(w, r, p) = GrantFits(w, r, q)
         /\ Decided(w, r, p) = Decided(w, r, q)
         /\ PlanFits(w, r, p) = PlanFits(w, r, q)
         /\ \A m : Good(w, r, p, m) = Good(w, r, q, m)
         /\ \A m : Permitted(w, r, p, m) = Permitted(w, r, q, m)
         /\ SentTo(p) = SentTo(q)
         /\ \A m : KeyFor(w, r, p, m) = KeyFor(w, r, q, m)
PROOF
  <1>1. SameDecision(q, p)
    BY DEF SameAsk, SameDecision
  <1>2. /\ GrantFits(w, r, p) = GrantFits(w, r, q) /\ Decided(w, r, p) = Decided(w, r, q)
        /\ \A m : Good(w, r, p, m) = Good(w, r, q, m)
        /\ \A m : Permitted(w, r, p, m) = Permitted(w, r, q, m)
        /\ \A m : KeyFor(w, r, p, m) = KeyFor(w, r, q, m)
    BY <1>1, SameDecisionSame
  <1>3. PlanFits(w, r, p) = PlanFits(w, r, q)
    BY <1>2 DEF SameAsk, PlanFits
  <1>4. SentTo(p) = SentTo(q)
    BY Zenon DEF SameAsk, SentTo
  <1> QED
    BY <1>2, <1>3, <1>4

(* Moves that need nothing new to be known.                                *)
Steady(a, b) ==
  \/ b = "done"
  \/ a = "snapshot" /\ b \in {"expose", "headers"}
  \/ a \in {"expose", "headers"} /\ b \in {"headers", "record"}
  \/ a \in Planned /\ b \in Planned
  \/ a \in Late /\ b \in Late

LEMMA SteadyFits ==
  ASSUME NEW w, NEW r, NEW q, SlotFits(w, r, q), q.pc # "done", NEW p, SameAsk(q, p), Steady(q.pc, p.pc)
  PROVE  SlotFits(w, r, p)
PROOF
  <1>1. /\ GrantFits(w, r, p) = GrantFits(w, r, q) /\ Decided(w, r, p) = Decided(w, r, q)
        /\ PlanFits(w, r, p) = PlanFits(w, r, q) /\ SentTo(p) = SentTo(q)
    BY SameAskSame
  <1>2. Good(w, r, p, p.served) = Good(w, r, q, q.served)
    BY SameAskSame DEF SameAsk
  <1>3. \A m \in SentTo(p) : Permitted(w, r, p, m)
    BY <1>1, SameAskSame DEF SlotFits
  <1> QED
    BY <1>1, <1>2, <1>3 DEF SlotFits, SameAsk, Steady, Undelivered, Planned, Late

(* A step of request s, which is not over, that leaves it as it should be  *)
(* and the cache alone.                                                    *)
LEMMA SlotStep ==
  ASSUME PermitInv, NEW s \in Slots, st[s].pc # "done", NEW q, NEW to, MovedTo(s, q, to),
         SlotFits(world, calls[s], st'[s]), world' = world, calls' = calls, cache' = cache
  PROVE  PermitInv'
PROOF
  <1>1. IsWorld(world') /\ DOMAIN st' = Slots /\ DOMAIN calls' \subseteq Slots
    BY DEF PermitInv, MovedTo
  <1>2. \A x \in Slots : SlotFits(world', calls'[x], st'[x])
    BY DEF PermitInv, MovedTo
  <1>3. CacheFits'
    <2> SUFFICES ASSUME NEW k \in DOMAIN cache
                 PROVE  \E x \in Slots : CameFrom(world, calls[x], st'[x], k, cache[k])
      BY DEF CacheFits
    <2>1. PICK x \in Slots : CameFrom(world, calls[x], st[x], k, cache[k])
      BY DEF PermitInv, CacheFits
    <2>2. st'[x] = st[x]
      BY <2>1 DEF CameFrom, MovedTo
    <2> QED
      BY <2>1, <2>2
  <1> QED
    BY <1>1, <1>2, <1>3 DEF PermitInv

LEMMA SteadyStep ==
  ASSUME PermitInv, NEW s \in Slots, st[s].pc # "done", NEW q, SameAsk(st[s], q),
         world' = world, calls' = calls, cache' = cache,
         (\E to : Goes(s, q, to) /\ Steady(st[s].pc, to)) \/ (\E reply : Ends(s, q, reply))
  PROVE  PermitInv'
PROOF
  <1>1. DOMAIN st = Slots /\ SlotFits(world, calls[s], st[s])
    BY DEF PermitInv
  <1>2. AskFields \subseteq DOMAIN q
    BY DEF SameAsk
  <1>3. PICK to : MovedTo(s, q, to) /\ Steady(st[s].pc, to)
    BY <1>1, <1>2, GoesMoves, EndsMoves DEF Steady
  <1>4. SameAsk(st[s], st'[s]) /\ st'[s].pc = to
    BY <1>3 DEF MovedTo, SameAsk
  <1>5. SlotFits(world, calls[s], st'[s])
    BY <1>1, <1>3, <1>4, SteadyFits
  <1> QED
    BY <1>3, <1>5, SlotStep

-----------------------------------------------------------------------------
(* Action by action.                                                       *)

LEMMA AskOfSlot ==
  ASSUME PermitInv, NEW s \in Slots
  PROVE  AskFields \subseteq DOMAIN st[s] /\ SameAsk(st[s], st[s])
PROOF
  BY DEF PermitInv, SlotFits, SameAsk

LEMMA RefusalSteps ==
  ASSUME PermitInv, NEW s \in Slots, Refuse(s) \/ RefuseOverride(s)
  PROVE  PermitInv'
PROOF
  <1>1. SameAsk(st[s], st[s])
    BY AskOfSlot
  <1>2. st[s].pc \in {"arrive", "decide"}
    BY Zenon DEF Refuse, RefuseOverride, At_
  <1>3. world' = world /\ calls' = calls /\ cache' = cache
    BY Zenon DEF Refuse, RefuseOverride, fixed
  <1>4. \E reply : Ends(s, st[s], reply)
    BY Zenon DEF Refuse, RefuseOverride
  <1>5. st[s].pc # "done"
    BY <1>2
  <1> QED
    BY <1>1, <1>3, <1>4, <1>5, SteadyStep

(* The caller is identified before it goes on.                             *)
LEMMA AuthenticatedStep ==
  ASSUME PermitInv, NEW s \in Slots, NEW c, Authenticated(s, KeyStage(s, c)),
         st[s].pc \in {"arrive", "auth"}, world.access.active,
         world' = world, calls' = calls, cache' = cache
  PROVE  PermitInv'
PROOF
  <1> DEFINE stage == KeyStage(s, c)
             grant == authenticate(A, calls[s].authorization)
             q == [st[s] EXCEPT !.grant = stage.grant]
  <1>1. AskFields \subseteq DOMAIN st[s] /\ SameAsk(st[s], st[s]) /\ st[s].pc # "done"
    BY AskOfSlot
  <1>2. (\E reply : Ends(s, st[s], reply)) \/ (stage.reply = Blank /\ Goes(s, q, "decide"))
    BY Zenon DEF Authenticated, Blank
  <1>3. \E z : KeyStage(s, c) =
               [counts |-> z, grant |-> grant,
                reply |-> IF grant = Unauthorized THEN "unauthorized"
                          ELSE IF ~admit_key(A, c, grant).allowed THEN "rate_limited" ELSE Blank]
    BY Zenon DEF KeyStage, Blank
  <1>4. stage.grant = grant /\ (grant = Unauthorized => stage.reply = "unauthorized")
    BY <1>3
  <1>5. "unauthorized" # Blank
    BY DEF Blank
  <1>6. CASE \E reply : Ends(s, st[s], reply)
    BY <1>1, <1>6, SteadyStep
  <1>7. CASE stage.reply = Blank /\ Goes(s, q, "decide")
    <2>1. grant # Unauthorized
      BY <1>4, <1>5, <1>7
    <2> HIDE DEF stage
    <2>2. AskFields \subseteq DOMAIN q /\ q.grant = grant /\ q.tried = st[s].tried /\ q.served = st[s].served
      BY <1>1, <1>4 DEF AskFields
    <2> HIDE DEF q
    <2>3. MovedTo(s, q, "decide")
      BY <1>7, <2>2, GoesMoves DEF PermitInv
    <2>4. /\ AskFields \subseteq DOMAIN st'[s] /\ st'[s].pc = "decide" /\ st'[s].grant = grant
          /\ st'[s].tried = st[s].tried /\ st'[s].served = st[s].served
      BY <2>2, <2>3 DEF MovedTo, SameAsk
    <2>5. SlotFits(world, calls[s], st[s]) /\ st[s].pc \in Undelivered
      BY DEF PermitInv, Undelivered
    <2>6. SentTo(st'[s]) = SentTo(st[s])
      BY <2>4, Zenon DEF SentTo
    <2>7. GrantFits(world, calls[s], st'[s])
      BY <2>1, <2>4 DEF GrantFits, A
    <2>8. SlotFits(world, calls[s], st'[s])
      BY <1>1, <2>4, <2>5, <2>6, <2>7 DEF SlotFits, Undelivered, Planned, Late
    <2> QED
      BY <1>1, <2>3, <2>8, SlotStep
  <1> QED
    BY <1>2, <1>6, <1>7

LEMMA PreflightSteps ==
  ASSUME PermitInv, NEW s \in Slots, PreflightLocal(s) \/ PreflightGlobal(s) \/ PreflightKey(s)
  PROVE  PermitInv'
PROOF
  <1>1. AskFields \subseteq DOMAIN st[s] /\ SameAsk(st[s], st[s])
    BY AskOfSlot
  <1>2. st[s].pc \in {"arrive", "auth"}
    BY Zenon DEF PreflightLocal, PreflightGlobal, PreflightKey, At_
  <1>3. world' = world /\ calls' = calls /\ cache' = cache
    BY Zenon DEF PreflightLocal, PreflightGlobal, PreflightKey, fixed
  <1>4. st[s].pc # "done" /\ st[s].pc \in Undelivered
    BY <1>2 DEF Undelivered
  <1>5. SlotFits(world, calls[s], st[s]) /\ DOMAIN st = Slots
    BY DEF PermitInv
  <1>6. ASSUME NEW reply, Ends(s, st[s], reply) PROVE PermitInv'
    BY <1>1, <1>3, <1>4, <1>6, SteadyStep
  <1>7. ASSUME NEW to \in {"auth", "decide"}, Goes(s, st[s], to),
               to = "auth" => world.access.active, to = "decide" => ~world.access.active
        PROVE  PermitInv'
    <2>1. MovedTo(s, st[s], to)
      BY <1>1, <1>5, <1>7, GoesMoves
    <2>2. SameAsk(st[s], st'[s]) /\ st'[s].pc = to
      BY <2>1 DEF MovedTo
    <2>3. SentTo(st'[s]) = SentTo(st[s])
      BY <2>2, SameAskSame
    <2>4. st'[s].grant = Anonymous /\ Anonymous # Unauthorized
      BY <1>2, <1>5, <2>2 DEF SlotFits, SameAsk, Anonymous, Unauthorized
    <2>5. to = "decide" => GrantFits(world, calls[s], st'[s])
      BY <1>7, <2>4 DEF GrantFits
    <2>6. SlotFits(world, calls[s], st'[s])
      BY <1>4, <1>5, <1>7, <2>2, <2>3, <2>4, <2>5 DEF SlotFits, SameAsk, Undelivered, Planned, Late
    <2> QED
      BY <1>3, <1>4, <2>1, <2>6, SlotStep
  <1>8. CASE PreflightLocal(s)
    <2>1. \/ ~A.active /\ Goes(s, st[s], "decide")
          \/ \E reply : Ends(s, st[s], reply)
          \/ A.active /\ \E c : Authenticated(s, KeyStage(s, c))
      BY <1>8, Zenon DEF PreflightLocal
    <2>2. A.active = world.access.active
      BY DEF A
    <2> QED
      BY <1>2, <1>3, <1>6, <1>7, <2>1, <2>2, AuthenticatedStep
  <1>9. CASE PreflightGlobal(s)
    <2>1. A.active /\ (Goes(s, st[s], "auth") \/ \E reply : Ends(s, st[s], reply))
      BY <1>9, Zenon DEF PreflightGlobal
    <2>2. A.active = world.access.active
      BY DEF A
    <2> QED
      BY <1>6, <1>7, <2>1, <2>2
  <1>10. CASE PreflightKey(s)
    <2>1. st[s].pc = "auth" /\ \E c : Authenticated(s, KeyStage(s, c))
      BY <1>10, Zenon DEF PreflightKey, At_
    <2>2. world.access.active
      BY <1>5, <2>1 DEF SlotFits
    <2> QED
      BY <1>2, <1>3, <2>1, <2>2, AuthenticatedStep
  <1> QED
    BY <1>8, <1>9, <1>10

LEMMA AdmissionSteps ==
  ASSUME PermitInv, NEW s \in Slots,
         Reserve(s) \/ Admit_(s) \/ Overloaded(s) \/ Lease(s) \/ Tokens(s)
  PROVE  PermitInv'
PROOF
  <1>1. AskFields \subseteq DOMAIN st[s] /\ SameAsk(st[s], st[s])
    BY AskOfSlot
  <1>2. st[s].pc \in {"reserve", "admit", "lease", "tokens"}
    BY Zenon DEF Reserve, Admit_, Overloaded, Lease, Tokens, At_
  <1>3. world' = world /\ calls' = calls /\ cache' = cache
    BY Zenon DEF Reserve, Admit_, Overloaded, Lease, Tokens, fixed
  <1>4. st[s].pc # "done" /\ \A to \in Planned : Steady(st[s].pc, to)
    BY <1>2 DEF Steady, Planned
  <1>5. AfterAdmission(s) \in Planned /\ "admit" \in Planned /\ "lease" \in Planned /\ "deliver" \in Planned
    BY DEF AfterAdmission, Planned
  <1>6. CASE Reserve(s)
    <2>1. PICK ok \in BOOLEAN :
            Ends(s, st[s], "budget_blocked") \/ Goes(s, [st[s] EXCEPT !.budget = ok], "admit")
      BY <1>6 DEF Reserve
    <2> DEFINE q == [st[s] EXCEPT !.budget = ok]
    <2>2. SameAsk(st[s], q)
      BY <1>1 DEF SameAsk, AskFields
    <2>3. Ends(s, st[s], "budget_blocked") \/ Goes(s, q, "admit")
      BY <2>1
    <2> HIDE DEF q
    <2> QED
      BY <1>1, <1>3, <1>4, <1>5, <2>2, <2>3, SteadyStep
  <1>7. CASE Admit_(s)
    <2> DEFINE q == [st[s] EXCEPT !.permit = TRUE]
               to == IF world.redis THEN "lease" ELSE AfterAdmission(s)
    <2>1. Goes(s, q, to)
      BY <1>7 DEF Admit_
    <2>2. to \in Planned
      BY <1>5
    <2>3. SameAsk(st[s], q)
      BY <1>1 DEF SameAsk, AskFields
    <2> HIDE DEF q, to
    <2> QED
      BY <1>3, <1>4, <2>1, <2>2, <2>3, SteadyStep
  <1>8. CASE Overloaded(s)
    <2>1. Ends(s, st[s], "overloaded")
      BY <1>8 DEF Overloaded
    <2> QED
      BY <1>1, <1>3, <1>4, <2>1, SteadyStep
  <1>9. CASE Lease(s)
    <2>1. PICK ok \in BOOLEAN :
            Ends(s, st[s], "overloaded") \/ Goes(s, [st[s] EXCEPT !.lease = ok], AfterAdmission(s))
      BY <1>9 DEF Lease
    <2> DEFINE q == [st[s] EXCEPT !.lease = ok]
    <2>2. SameAsk(st[s], q)
      BY <1>1 DEF SameAsk, AskFields
    <2>3. Ends(s, st[s], "overloaded") \/ Goes(s, q, AfterAdmission(s))
      BY <2>1
    <2> HIDE DEF q
    <2> QED
      BY <1>1, <1>3, <1>4, <1>5, <2>2, <2>3, SteadyStep
  <1>10. CASE Tokens(s)
    <2>1. \/ \E reply : Ends(s, st[s], reply)
          \/ Goes(s, [st[s] EXCEPT !.reserved = "shared"], "deliver")
          \/ Goes(s, [st[s] EXCEPT !.reserved = "local"], "deliver")
      BY <1>10 DEF Tokens
    <2> DEFINE shared == [st[s] EXCEPT !.reserved = "shared"]
               local == [st[s] EXCEPT !.reserved = "local"]
    <2>2. SameAsk(st[s], shared) /\ SameAsk(st[s], local)
      BY <1>1 DEF SameAsk, AskFields
    <2>3. (\E reply : Ends(s, st[s], reply)) \/ Goes(s, shared, "deliver") \/ Goes(s, local, "deliver")
      BY <2>1
    <2> HIDE DEF shared, local
    <2> QED
      BY <1>1, <1>3, <1>4, <1>5, <2>2, <2>3, SteadyStep
  <1> QED
    BY <1>6, <1>7, <1>8, <1>9, <1>10

LEMMA AccountingSteps ==
  ASSUME PermitInv, NEW s \in Slots,
         \/ StreamEnds(s) \/ StreamFails(s) \/ Charge_(s) \/ ShareCost(s) \/ Settle(s) \/ Usage_(s)
         \/ CanaryRecord(s) \/ CanaryCheck(s) \/ CanaryTrip(s)
  PROVE  PermitInv'
PROOF
  <1>1. AskFields \subseteq DOMAIN st[s] /\ SameAsk(st[s], st[s])
    BY AskOfSlot
  <1>2. st[s].pc \in {"relay", "charge", "record_cost", "settle", "usage", "c_record", "c_snapshot", "c_trip"}
    BY Zenon DEF StreamEnds, StreamFails, Charge_, ShareCost, Settle, Usage_, CanaryRecord, CanaryCheck,
                 CanaryTrip, At_
  <1>3. world' = world /\ calls' = calls /\ cache' = cache
    BY Zenon DEF StreamEnds, StreamFails, Charge_, ShareCost, Settle, Usage_, CanaryRecord, CanaryCheck,
                 CanaryTrip, fixed
  <1>4. st[s].pc # "done" /\ \A to \in Late : Steady(st[s].pc, to)
    BY <1>2 DEF Steady, Late
  <1>5. /\ "charge" \in Late /\ "record_cost" \in Late /\ "settle" \in Late /\ "usage" \in Late
        /\ "answer" \in Late /\ "c_record" \in Late /\ "c_snapshot" \in Late /\ "c_trip" \in Late
    BY DEF Late
  <1>6. ASSUME NEW q, SameAsk(st[s], q),
               (\E to \in Late : Goes(s, q, to)) \/ \E reply : Ends(s, q, reply)
        PROVE  PermitInv'
    BY <1>3, <1>4, <1>6, SteadyStep
  <1>7. CASE StreamEnds(s)
    <2>1. Goes(s, st[s], "charge")
      BY <1>7 DEF StreamEnds
    <2> QED
      BY <1>1, <1>5, <1>6, <2>1
  <1>8. CASE StreamFails(s)
    <2>1. Ends(s, st[s], "stream_failed")
      BY <1>8 DEF StreamFails
    <2> QED
      BY <1>1, <1>6, <2>1
  <1>9. CASE Charge_(s)
    <2>1. Goes(s, st[s], "record_cost") \/ Goes(s, st[s], "usage")
      BY <1>9 DEF Charge_
    <2> QED
      BY <1>1, <1>5, <1>6, <2>1
  <1>10. CASE ShareCost(s)
    <2>1. Goes(s, st[s], "settle") \/ Goes(s, st[s], "usage")
      BY <1>10 DEF ShareCost
    <2> QED
      BY <1>1, <1>5, <1>6, <2>1
  <1>11. CASE Settle(s)
    <2> DEFINE q == [st[s] EXCEPT !.budget = FALSE]
    <2>1. Goes(s, q, "usage")
      BY <1>11 DEF Settle
    <2>2. SameAsk(st[s], q)
      BY <1>1 DEF SameAsk, AskFields
    <2> HIDE DEF q
    <2> QED
      BY <1>5, <1>6, <2>1, <2>2
  <1>12. CASE Usage_(s)
    <2>1. PICK ok \in BOOLEAN :
            /\ RedisCalls(UsageEffect(s), PartialUsage(s), ok)
            /\ Goes(s, [st[s] EXCEPT !.accounted = ok \/ ~Corrects(s), !.guard = FALSE],
                    IF st[s].guard THEN "c_record" ELSE "answer")
      BY <1>12, Zenon DEF Usage_
    <2> DEFINE q == [st[s] EXCEPT !.accounted = ok \/ ~Corrects(s), !.guard = FALSE]
    <2>2. Goes(s, q, "c_record") \/ Goes(s, q, "answer")
      BY <2>1
    <2>3. SameAsk(st[s], q)
      BY <1>1 DEF SameAsk, AskFields
    <2> HIDE DEF q
    <2> QED
      BY <1>5, <1>6, <2>2, <2>3
  <1>13. CASE CanaryRecord(s)
    <2>1. Goes(s, st[s], "c_snapshot")
      BY <1>13 DEF CanaryRecord
    <2> QED
      BY <1>1, <1>5, <1>6, <2>1
  <1>14. CASE CanaryCheck(s)
    <2>1. PICK ok \in BOOLEAN :
            LET reason == IF ok THEN tripwire(world.canary, Snapshot.hash) ELSE ""
            IN Goes(s, [st[s] EXCEPT !.reason = reason], IF reason = "" THEN "answer" ELSE "c_trip")
      BY <1>14, Zenon DEF CanaryCheck
    <2> DEFINE reason == IF ok THEN tripwire(world.canary, Snapshot.hash) ELSE ""
               q == [st[s] EXCEPT !.reason = reason]
    <2>2. Goes(s, q, "answer") \/ Goes(s, q, "c_trip")
      BY <2>1, Zenon
    <2> HIDE DEF reason
    <2>3. SameAsk(st[s], q)
      BY <1>1 DEF SameAsk, AskFields
    <2> HIDE DEF q
    <2> QED
      BY <1>5, <1>6, <2>2, <2>3
  <1>15. CASE CanaryTrip(s)
    <2>1. Goes(s, st[s], "answer")
      BY <1>15 DEF CanaryTrip
    <2> QED
      BY <1>1, <1>5, <1>6, <2>1
  <1> QED
    BY <1>7, <1>8, <1>9, <1>10, <1>11, <1>12, <1>13, <1>14, <1>15

LEMMA DropSteps ==
  ASSUME PermitInv, NEW s \in Slots, Drop(s)
  PROVE  PermitInv'
PROOF
  <1> DEFINE q == [st[s] EXCEPT !.at = st[s].pc, !.budget = st[s].budget /\ ~At_(s, "settle")]
  <1>1. Awaits(s) /\ Ends(s, q, "gone") /\ world' = world /\ calls' = calls /\ cache' = cache
    BY DEF Drop, fixed
  <1>2. SameAsk(st[s], q)
    BY AskOfSlot DEF SameAsk, AskFields
  <1> HIDE DEF q
  <1>3. st[s].pc \in {"auth", "snapshot", "expose", "reserve", "lease", "deliver", "relay",
                      "record_cost", "settle", "c_record", "c_snapshot", "c_trip", "arrive",
                      "decide", "headers", "admit", "tokens", "charge", "usage"}
    BY <1>1, Zenon DEF Awaits, At_
  <1>4. st[s].pc # "done"
    BY <1>3
  <1> QED
    BY <1>1, <1>2, <1>4, SteadyStep

(* The decision is one this caller and this request may have.              *)
LEMMA DecideStep ==
  ASSUME PermitInv, NEW s \in Slots, Decide(s)
  PROVE  PermitInv'
PROOF
  <1> DEFINE r == calls[s]
             d == Facts(world, r, WorkspaceIdOf(s), AllowedOf(s))
             e == Chosen(world, r, d)
             full == Clamped(e, d, world.names)
             cheap == Clamped(Degraded(e, d), d, world.names)
  <1>1. AskFields \subseteq DOMAIN st[s] /\ SameAsk(st[s], st[s])
    BY AskOfSlot
  <1>2. st[s].pc = "decide" /\ world' = world /\ calls' = calls /\ cache' = cache
    BY Zenon DEF Decide, At_, fixed
  <1>3. st[s].pc # "done" /\ st[s].pc \in Undelivered /\ st[s].pc \notin {"arrive", "auth", "done"}
    BY <1>2 DEF Undelivered
  <1>4. /\ SlotFits(world, r, st[s]) /\ IsWorld(world) /\ DOMAIN st = Slots
        /\ GrantFits(world, r, st[s]) /\ SentTo(st[s]) = {} /\ FieldFits(r)
    BY <1>3 DEF PermitInv, SlotFits
  <1>5. \/ \E reply : Ends(s, st[s], reply)
        \/ /\ Accepted(Selected(world, r, d))
           /\ \E c \in {Clamped(Selected(world, r, d).choice, d, world.names),
                        Clamped(Degraded(Selected(world, r, d).choice, d), d, world.names)} :
              \E deg : Goes(s, [st[s] EXCEPT !.facts = d, !.choice = c, !.baseline = c.model,
                                             !.degraded = deg],
                            IF MayCanary(c) THEN "snapshot" ELSE "headers")
    <2> DEFINE chosen == Selected(world, r, d)
               Way(c, v) == Goes(s, [st[s] EXCEPT !.facts = d, !.choice = c, !.baseline = c.model,
                                                  !.degraded = v],
                                 IF MayCanary(c) THEN "snapshot" ELSE "headers")
    <2> DEFINE Corrected(f, x, verdict) ==
                 {Clamped(IF verdict = "degrade" THEN Degraded(x.choice, f) ELSE x.choice, f, world.names)}
               Onward(f, x, verdict) ==
                 IF verdict = "block" THEN Ends(s, st[s], "budget_blocked")
                 ELSE \E c \in Corrected(f, x, verdict) :
                   /\ Goes(s, [st[s] EXCEPT !.facts = f, !.choice = c, !.baseline = c.model,
                                            !.degraded = verdict = "degrade"],
                           IF MayCanary(c) THEN "snapshot" ELSE "headers")
                   /\ UNCHANGED tasks
               Body(f, x) ==
                 IF x.refusal # "" THEN Ends(s, st[s], x.refusal) /\ NoRedis
                 ELSE \E ok \in (IF Budgeted /\ world.redis THEN BOOLEAN ELSE {TRUE}) :
                        /\ Redis(redis, ok)
                        /\ Onward(f, x, BudgetVerdict(s, world.redis /\ ok, f.offline))
    <2>a. \E f \in {d} : \E x \in {Selected(world, r, f)} : Body(f, x)
      BY Zenon DEF Decide
    <2> HIDE DEF Body
    <2>b. Body(d, chosen)
      BY <2>a, Zenon
    <2> HIDE DEF Onward
    <2>c. IF chosen.refusal # "" THEN Ends(s, st[s], chosen.refusal)
          ELSE \E verdict : Onward(d, chosen, verdict)
      BY <2>b, Zenon DEF Body
    <2> HIDE DEF Way
    <2>d. ASSUME NEW verdict, Onward(d, chosen, verdict)
          PROVE  IF verdict = "block" THEN Ends(s, st[s], "budget_blocked")
                 ELSE Way(Clamped(IF verdict = "degrade" THEN Degraded(chosen.choice, d)
                                  ELSE chosen.choice, d, world.names), verdict = "degrade")
      BY <2>d, Zenon DEF Onward, Way
    <2>1. IF chosen.refusal # "" THEN Ends(s, st[s], chosen.refusal)
          ELSE \E verdict :
             IF verdict = "block" THEN Ends(s, st[s], "budget_blocked")
             ELSE Way(Clamped(IF verdict = "degrade" THEN Degraded(chosen.choice, d)
                              ELSE chosen.choice, d, world.names), verdict = "degrade")
      BY <2>c, <2>d, Zenon
    <2>2. \/ \E reply : Ends(s, st[s], reply)
          \/ /\ chosen.refusal = ""
             /\ \E verdict :
                  Way(Clamped(IF verdict = "degrade" THEN Degraded(chosen.choice, d)
                              ELSE chosen.choice, d, world.names), verdict = "degrade")
      BY <2>1, Zenon
    <2> HIDE DEF d, chosen
    <2>3. \/ \E reply : Ends(s, st[s], reply)
          \/ /\ Accepted(chosen)
             /\ \E c \in {Clamped(chosen.choice, d, world.names),
                          Clamped(Degraded(chosen.choice, d), d, world.names)} : \E v : Way(c, v)
      BY <2>2, Zenon DEF Accepted
    <2> QED
      BY <2>3, Zenon DEF Way, chosen
  <1> HIDE DEF r
  <1>6. CASE \E reply : Ends(s, st[s], reply)
    BY <1>1, <1>2, <1>3, <1>6, SteadyStep DEF r
  <1>7. CASE /\ Accepted(Selected(world, r, d))
             /\ \E c \in {Clamped(Selected(world, r, d).choice, d, world.names),
                          Clamped(Degraded(Selected(world, r, d).choice, d), d, world.names)} :
                \E deg : Goes(s, [st[s] EXCEPT !.facts = d, !.choice = c, !.baseline = c.model,
                                               !.degraded = deg],
                              IF MayCanary(c) THEN "snapshot" ELSE "headers")
    <2>1. /\ d.posture = parse_privacy_posture(r.posture, world.offline \/ r.offline)
          /\ d.request.posture = d.posture
          /\ d.estimate = estimate_tokens(extract_prompt(d.messages, "all"))
          /\ d.allowed = allowed_models(world.access, st[s].grant)
          /\ d.selection = resolve_request_selection(world, r.model)
          /\ Len(d.scored.tiers) \in Nat
      BY <1>4, FactsAreFit DEF AllowedOf, A
    <2> HIDE DEF d
    <2>2. /\ Selected(world, r, d).choice = e /\ d.selection.kind # "unknown"
          /\ ~(e.mode = "preset" /\ e.preset = <<>>)
      BY <1>7, AcceptedIsChosen
    <2> HIDE DEF e
    <2>3. /\ ChoiceFits(world, d, e)
          /\ e.preset # <<>> => d.allowed = <<>> \/ e.model \in ToSet(d.allowed)
      BY <1>4, <2>1, <2>2, ChosenFits DEF e
    <2>4. ChoiceFits(world, d, full) /\ ChoiceFits(world, d, cheap)
      BY <2>3, CorrectedFits
    <2>5. PICK c \in {full, cheap} : \E deg :
            Goes(s, [st[s] EXCEPT !.facts = d, !.choice = c, !.baseline = c.model, !.degraded = deg],
                 IF MayCanary(c) THEN "snapshot" ELSE "headers")
      BY <1>7, <2>2, Zenon
    <2>6. PICK deg :
            Goes(s, [st[s] EXCEPT !.facts = d, !.choice = c, !.baseline = c.model, !.degraded = deg],
                 IF MayCanary(c) THEN "snapshot" ELSE "headers")
      BY <2>5, Zenon
    <2>7. ChoiceFits(world, d, c)
      BY <2>4, <2>5
    <2> DEFINE q == [st[s] EXCEPT !.facts = d, !.choice = c, !.baseline = c.model, !.degraded = deg]
               to == IF MayCanary(c) THEN "snapshot" ELSE "headers"
    <2>8. Goes(s, q, to)
      BY <2>6
    <2>9. /\ AskFields \subseteq DOMAIN q /\ q.facts = d /\ q.choice = c /\ q.grant = st[s].grant
          /\ q.tried = st[s].tried /\ q.served = st[s].served
      BY <1>1 DEF AskFields
    <2>10. to \in {"snapshot", "headers"} /\ (to = "snapshot" => c.mode = "scored")
      BY DEF MayCanary
    <2> HIDE DEF q, to
    <2>11. MovedTo(s, q, to)
      BY <1>4, <2>8, <2>9, GoesMoves
    <2> DEFINE p == st'[s]
    <2>12. /\ AskFields \subseteq DOMAIN p /\ p.facts = d /\ p.choice = c /\ p.grant = st[s].grant
           /\ p.tried = st[s].tried /\ p.served = st[s].served /\ p.pc = to
      BY <2>9, <2>11 DEF MovedTo, SameAsk
    <2> HIDE DEF p
    <2>13. SentTo(p) = {}
      BY <1>4, <2>12, Zenon DEF SentTo
    <2>14. GrantFits(world, r, p)
      BY <1>4, <2>12 DEF GrantFits
    <2>15. FactsFit(world, r, p)
      BY <2>1, <2>12 DEF FactsFit
    <2>16. Decided(world, r, p)
      BY <2>7, <2>12, <2>14, <2>15 DEF Decided
    <2>17. SlotFits(world, r, p)
      BY <1>4, <2>10, <2>12, <2>13, <2>14, <2>16 DEF SlotFits, Planned, Late
    <2> QED
      BY <1>2, <1>3, <2>11, <2>17, SlotStep DEF p, r
  <1> QED
    BY <1>5, <1>6, <1>7, Zenon

LEMMA CanarySteps ==
  ASSUME PermitInv, NEW s \in Slots, CanarySnapshot(s) \/ CanaryExpose(s) \/ Headers(s)
  PROVE  PermitInv'
PROOF
  <1>1. AskFields \subseteq DOMAIN st[s] /\ SameAsk(st[s], st[s])
    BY AskOfSlot
  <1>2. st[s].pc \in {"snapshot", "expose", "headers"}
    BY Zenon DEF CanarySnapshot, CanaryExpose, Headers, At_
  <1>3. world' = world /\ calls' = calls /\ cache' = cache
    BY Zenon DEF CanarySnapshot, CanaryExpose, Headers, fixed
  <1>4. st[s].pc # "done"
    BY <1>2
  <1>5. CASE CanarySnapshot(s)
    <2>1. st[s].pc = "snapshot" /\ (Goes(s, st[s], "expose") \/ Goes(s, st[s], "headers"))
      BY <1>5, Zenon DEF CanarySnapshot, At_
    <2>2. Steady("snapshot", "expose") /\ Steady("snapshot", "headers")
      BY DEF Steady
    <2> QED
      BY <1>1, <1>3, <1>4, <2>1, <2>2, SteadyStep
  <1>6. CASE CanaryExpose(s)
    <2> DEFINE route == SelectSeq(world.routes[world.canary.candidate],
                                  LAMBDA m : Acceptable(world, m, D(s)))
               c == [st[s].choice EXCEPT !.model = route[1], !.mode = "canary"]
               q == [st[s] EXCEPT !.choice = c, !.canary = TRUE, !.guard = TRUE]
    <2> DEFINE cfg == world.canary
               limited == exposure_limited(redis.canary, cfg.max_requests, cfg.window, now)
    <2>0. PICK ok \in BOOLEAN :
            /\ Redis(IF limited THEN redis
                     ELSE WithCanary(admit_exposure(redis.canary, cfg.window, now)), ok)
            /\ IF ok /\ ~limited /\ route # <<>> THEN Goes(s, q, "headers")
               ELSE Goes(s, st[s], "headers")
      BY <1>6, Zenon DEF CanaryExpose
    <2>1. st[s].pc = "expose" /\ (Goes(s, q, "headers") \/ Goes(s, st[s], "headers"))
      BY <1>6, <2>0, Zenon DEF CanaryExpose, At_
    <2> HIDE DEF cfg, limited
    <2>2. CASE Goes(s, st[s], "headers")
      <3>1. Steady("expose", "headers")
        BY DEF Steady
      <3> QED
        BY <1>1, <1>3, <1>4, <2>1, <2>2, <3>1, SteadyStep
    <2>3. CASE Goes(s, q, "headers")
      <3> HIDE DEF route
      <3>1. /\ SlotFits(world, calls[s], st[s]) /\ DOMAIN st = Slots
            /\ Decided(world, calls[s], st[s]) /\ st[s].choice.mode = "scored" /\ SentTo(st[s]) = {}
        BY <2>1 DEF PermitInv, SlotFits, Undelivered
      <3>2. ChoiceFits(world, st[s].facts, st[s].choice)
        BY <3>1 DEF Decided
      <3>3. ChoiceFits(world, st[s].facts, c)
        BY <3>1, <3>2 DEF ChoiceFits, Exempt
      <3> HIDE DEF c
      <3>4. /\ AskFields \subseteq DOMAIN q /\ q.facts = st[s].facts /\ q.choice = c
            /\ q.grant = st[s].grant /\ q.tried = st[s].tried /\ q.served = st[s].served
        BY <1>1 DEF AskFields
      <3> HIDE DEF q
      <3>5. MovedTo(s, q, "headers")
        BY <2>3, <3>1, <3>4, GoesMoves
      <3> DEFINE p == st'[s]
      <3>6. /\ AskFields \subseteq DOMAIN p /\ p.facts = st[s].facts /\ p.choice = c
            /\ p.grant = st[s].grant /\ p.tried = st[s].tried /\ p.served = st[s].served
            /\ p.pc = "headers"
        BY <3>4, <3>5 DEF MovedTo, SameAsk
      <3> HIDE DEF p
      <3>7. SentTo(p) = {}
        BY <3>1, <3>6, Zenon DEF SentTo
      <3>8. GrantFits(world, calls[s], p)
        BY <3>1, <3>6 DEF Decided, GrantFits
      <3>9. FactsFit(world, calls[s], p)
        BY <3>1, <3>6 DEF Decided, FactsFit
      <3>10. Decided(world, calls[s], p)
        BY <3>3, <3>6, <3>8, <3>9 DEF Decided
      <3>11. SlotFits(world, calls[s], p)
        BY <1>4, <3>1, <3>6, <3>7, <3>8, <3>10 DEF SlotFits, Planned, Late
      <3> QED
        BY <1>3, <1>4, <3>5, <3>11, SlotStep DEF p
    <2> QED
      BY <2>1, <2>2, <2>3
  <1>7. CASE Headers(s)
    <2>1. st[s].pc = "headers" /\ \E h : Goes(s, [st[s] EXCEPT !.head = h], "record")
      BY <1>7, Zenon DEF Headers, At_
    <2>2. PICK h : Goes(s, [st[s] EXCEPT !.head = h], "record")
      BY <2>1
    <2> DEFINE q == [st[s] EXCEPT !.head = h]
    <2>3. SameAsk(st[s], q) /\ Goes(s, q, "record")
      BY <1>1, <2>2 DEF SameAsk, AskFields
    <2> HIDE DEF q
    <2>4. Steady("headers", "record")
      BY DEF Steady
    <2> QED
      BY <1>3, <1>4, <2>1, <2>3, <2>4, SteadyStep
  <1> QED
    BY <1>5, <1>6, <1>7

LEMMA RecordStep ==
  ASSUME PermitInv, NEW s \in Slots, Record(s)
  PROVE  PermitInv'
PROOF
  <1> DEFINE r == calls[s]
             c == st[s].choice
             name == DeliveryName(c, D(s))
             key == CacheKey(s, name)
  <1>1. AskFields \subseteq DOMAIN st[s] /\ SameAsk(st[s], st[s])
    BY AskOfSlot
  <1>2. st[s].pc = "record" /\ world' = world /\ calls' = calls /\ cache' = cache
    BY Zenon DEF Record, At_, fixed
  <1>3. st[s].pc # "done" /\ st[s].pc \in Undelivered /\ st[s].pc \notin {"arrive", "auth", "decide", "done"}
    BY <1>2 DEF Undelivered
  <1>4. /\ SlotFits(world, r, st[s]) /\ IsWorld(world) /\ DOMAIN st = Slots /\ CacheFits
        /\ Decided(world, r, st[s]) /\ SentTo(st[s]) = {} /\ FieldFits(r)
    BY <1>3 DEF PermitInv, SlotFits
  <1>5. \/ \E reply : Ends(s, st[s], reply)
        \/ \E reply : Ends(s, decision_only_response(s), reply)
        \/ /\ key \in DOMAIN cache
           /\ \E head : Ends(s, [st[s] EXCEPT !.served = cache[key].served, !.head = head], "cached")
        \/ /\ EarlyReply(s) = ""
           /\ \E open, miss : Goes(s, [st[s] EXCEPT !.plan = delivery_plan(world, r, c, D(s), open),
                                                    !.miss = miss],
                                   IF NeedsReservation(s) THEN "reserve" ELSE "admit")
    BY Zenon DEF Record
  <1>6. CASE \E reply : Ends(s, st[s], reply)
    BY <1>1, <1>2, <1>3, <1>6, SteadyStep
  <1>7. CASE \E reply : Ends(s, decision_only_response(s), reply)
    <2> DEFINE q == decision_only_response(s)
    <2>1. SameAsk(st[s], q)
      BY <1>1 DEF SameAsk, AskFields, decision_only_response
    <2> HIDE DEF q
    <2>2. \E reply : Ends(s, q, reply)
      BY <1>7 DEF q
    <2> QED
      BY <1>2, <1>3, <2>1, <2>2, SteadyStep
  <1>8. CASE /\ key \in DOMAIN cache
             /\ \E head : Ends(s, [st[s] EXCEPT !.served = cache[key].served, !.head = head], "cached")
    <2>1. PICK head : Ends(s, [st[s] EXCEPT !.served = cache[key].served, !.head = head], "cached")
      BY <1>8, Zenon
    <2> DEFINE m == cache[key].served
               q == [st[s] EXCEPT !.served = m, !.head = head]
    <2>2. Ends(s, q, "cached")
      BY <2>1, Zenon
    <2>3. PICK x \in Slots : CameFrom(world, calls[x], st[x], key, cache[key])
      BY <1>4, <1>8 DEF CacheFits
    <2>4. /\ Decided(world, calls[x], st[x]) /\ Good(world, calls[x], st[x], m)
          /\ KeyFor(world, calls[s], st[s], name) = KeyFor(world, calls[x], st[x], m)
      BY <2>3, KeyIsKeyFor DEF CameFrom
    <2> HIDE DEF m
    <2>5. Permitted(world, r, st[s], m)
      BY <1>4, <2>4, ReplayIsPermitted
    <2>6. SameDecision(st[s], q) /\ q.tried = st[s].tried /\ q.served = m
      BY <1>1 DEF SameDecision, AskFields
    <2> HIDE DEF q
    <2>7. MovedTo(s, q, "done")
      BY <1>4, <2>2, <2>6, EndsMoves DEF SameDecision
    <2> DEFINE p == st'[s]
    <2>8. SameDecision(st[s], p) /\ p.tried = st[s].tried /\ p.served = m /\ p.pc = "done"
      BY <2>6, <2>7 DEF MovedTo, SameAsk, SameDecision
    <2> HIDE DEF p
    <2>9. \A z \in SentTo(p) : z \in SentTo(st[s]) \/ z = m
      BY <2>8, Zenon DEF SentTo
    <2>10. \A z \in SentTo(p) : Permitted(world, r, p, z)
      BY <1>4, <2>5, <2>8, <2>9, SameDecisionSame
    <2>11. SlotFits(world, r, p)
      BY <2>8, <2>10 DEF SlotFits, SameDecision, Undelivered, Planned, Late
    <2> QED
      BY <1>2, <1>3, <2>7, <2>11, SlotStep DEF p
  <1>9. CASE /\ EarlyReply(s) = ""
             /\ \E open, miss : Goes(s, [st[s] EXCEPT !.plan = delivery_plan(world, r, c, D(s), open),
                                                      !.miss = miss],
                                     IF NeedsReservation(s) THEN "reserve" ELSE "admit")
    <2>1. name \in DOMAIN world.models
      <3>1. "misconfigured" # "" /\ "decision_only" # ""
        OBVIOUS
      <3> QED
        BY <1>9, <3>1, Zenon DEF EarlyReply
    <2>2. PICK open, miss : Goes(s, [st[s] EXCEPT !.plan = delivery_plan(world, r, c, D(s), open),
                                                  !.miss = miss],
                                 IF NeedsReservation(s) THEN "reserve" ELSE "admit")
      BY <1>9, Zenon
    <2> DEFINE plan == delivery_plan(world, r, c, D(s), open)
               q == [st[s] EXCEPT !.plan = plan, !.miss = miss]
               to == IF NeedsReservation(s) THEN "reserve" ELSE "admit"
    <2>3. Goes(s, q, to)
      BY <2>2, Zenon
    <2>4. Len(plan) \in Nat /\ \A i \in 1 .. Len(plan) : Good(world, r, st[s], plan[i])
      BY <1>4, <2>1, PlanIsGood DEF D
    <2> HIDE DEF plan
    <2>5. SameDecision(st[s], q) /\ q.tried = st[s].tried /\ q.served = st[s].served /\ q.plan = plan
      BY <1>1 DEF SameDecision, AskFields
    <2>6. to \in {"reserve", "admit"}
      OBVIOUS
    <2> HIDE DEF q, to
    <2>7. MovedTo(s, q, to)
      BY <1>4, <2>3, <2>5, GoesMoves DEF SameDecision
    <2> DEFINE p == st'[s]
    <2>8. /\ SameDecision(st[s], p) /\ p.tried = st[s].tried /\ p.served = st[s].served
          /\ p.plan = plan /\ p.pc = to
      BY <2>5, <2>7 DEF MovedTo, SameAsk, SameDecision
    <2> HIDE DEF p
    <2>9. SentTo(p) = {}
      BY <1>4, <2>8, Zenon DEF SentTo
    <2>10. Decided(world, r, p) /\ GrantFits(world, r, p) /\ \A i \in 1 .. Len(plan) : Good(world, r, p, plan[i])
      BY <1>4, <2>4, <2>8, SameDecisionSame DEF Decided
    <2>11. PlanFits(world, r, p)
      BY <2>4, <2>8, <2>10 DEF PlanFits
    <2>12. SlotFits(world, r, p)
      BY <1>4, <2>6, <2>8, <2>9, <2>10, <2>11 DEF SlotFits, SameDecision, Undelivered, Planned, Late
    <2> QED
      BY <1>2, <1>3, <2>7, <2>12, SlotStep DEF p
  <1> QED
    BY <1>5, <1>6, <1>7, <1>8, <1>9, Zenon

(* The first k models of the plan were tried; the k-th may have answered.  *)
LEMMA TriedStep ==
  ASSUME PermitInv, NEW s \in Slots, st[s].pc = "deliver",
         world' = world, calls' = calls, cache' = cache,
         NEW q, SameDecision(st[s], q), NEW k \in 0 .. Len(st[s].plan), q.tried = Attempted(s, k),
         q.served = st[s].served \/ (k > 0 /\ q.served = st[s].plan[k]),
         NEW to, MovedTo(s, q, to),
         to = "done" \/ (to \in Late /\ k > 0 /\ q.served = st[s].plan[k])
  PROVE  PermitInv'
PROOF
  <1> DEFINE r == calls[s]
             plan == st[s].plan
             p == st'[s]
  <1>1. st[s].pc \in Planned /\ st[s].pc \notin {"arrive", "auth", "decide", "done"}
    BY DEF Planned
  <1>2. /\ Decided(world, r, st[s]) /\ PlanFits(world, r, st[s]) /\ FieldFits(r)
        /\ \A m \in SentTo(st[s]) : Permitted(world, r, st[s], m)
    BY <1>1 DEF PermitInv, SlotFits
  <1>3. Len(plan) \in Nat /\ \A i \in 1 .. Len(plan) : Good(world, r, st[s], plan[i])
    BY <1>2 DEF PlanFits
  <1>4. \A i \in 1 .. Len(plan) : Permitted(world, r, st[s], plan[i])
    BY <1>2, <1>3, GoodIsPermitted DEF Decided
  <1>5. /\ SameDecision(st[s], p) /\ p.tried = Attempted(s, k) /\ p.served = q.served /\ p.pc = to
    BY DEF MovedTo, SameAsk, SameDecision
  <1>6. k > 0 => k \in 1 .. Len(plan)
    BY <1>3
  <1>7. \A m \in Attempted(s, k) : \E i \in 1 .. Len(plan) : m = plan[i]
    BY <1>3 DEF Attempted
  <1> HIDE DEF p
  <1>8. \A m \in SentTo(p) : m \in Attempted(s, k) \/ m \in SentTo(st[s]) \/ (k > 0 /\ m = plan[k])
    BY <1>5, Zenon DEF SentTo
  <1>9. \A m \in SentTo(p) : Permitted(world, r, p, m)
    <2>1. \A m \in SentTo(p) : Permitted(world, r, st[s], m)
      BY <1>2, <1>4, <1>6, <1>7, <1>8
    <2>2. \A m : Permitted(world, r, p, m) = Permitted(world, r, st[s], m)
      BY <1>5, SameDecisionSame, ZenonT(40)
    <2> QED
      BY <2>1, <2>2
  <1>10. Decided(world, r, p) /\ GrantFits(world, r, p)
    BY <1>2, <1>5, SameDecisionSame DEF Decided
  <1>11. to \in Late => Good(world, r, p, p.served)
    <2>1. \A m : Good(world, r, p, m) = Good(world, r, st[s], m)
      BY <1>5, SameDecisionSame, ZenonT(40)
    <2>2. to \in Late => k > 0 /\ p.served = plan[k]
      BY <1>5 DEF Late
    <2> QED
      BY <1>3, <1>6, <2>1, <2>2
  <1>12. SlotFits(world, r, p)
    BY <1>2, <1>5, <1>9, <1>10, <1>11 DEF SlotFits, SameDecision, Undelivered, Planned, Late
  <1> QED
    BY <1>1, <1>12, SlotStep DEF p

LEMMA DeliverySteps ==
  ASSUME PermitInv, NEW s \in Slots,
         Delivered(s) \/ DeliveredError(s) \/ NotDelivered(s) \/ NotEstablished(s) \/ Established(s)
  PROVE  PermitInv'
PROOF
  <1> DEFINE plan == st[s].plan
  <1>1. AskFields \subseteq DOMAIN st[s] /\ DOMAIN st = Slots
    BY AskOfSlot DEF PermitInv
  <1>2. st[s].pc = "deliver" /\ world' = world /\ calls' = calls /\ cache' = cache
    BY Zenon DEF Delivered, DeliveredError, NotDelivered, NotEstablished, Established, At_, fixed
  <1>3. Len(plan) \in Nat
    BY <1>2 DEF PermitInv, SlotFits, PlanFits, Planned
  <1>4. \A k \in 1 .. Len(plan) : k \in 0 .. Len(plan) /\ k > 0
    BY <1>3
  <1>5. ASSUME NEW k \in 1 .. Len(plan), NEW q, SameDecision(st[s], q), q.tried = Attempted(s, k),
               q.served = plan[k],
               (\E to \in Late : Goes(s, q, to)) \/ \E reply : Ends(s, q, reply)
        PROVE  PermitInv'
    <2>1. PICK to : MovedTo(s, q, to) /\ (to = "done" \/ to \in Late)
      BY <1>1, <1>5, GoesMoves, EndsMoves DEF SameDecision
    <2> QED
      BY <1>2, <1>4, <1>5, <2>1, TriedStep
  <1>6. "charge" \in Late /\ "relay" \in Late /\ "c_record" \in Late
    BY DEF Late
  <1>7. ASSUME NEW k, NEW usage
        PROVE  LET a == Answered(s, k, usage)
               IN /\ DOMAIN a = DOMAIN st[s] /\ SameDecision(st[s], a)
                  /\ a.tried = Attempted(s, k) /\ a.served = plan[k]
    <2> DEFINE tokens == usage_tokens(usage, D(s).estimate, world.completion)
               a == [st[s] EXCEPT !.served = plan[k], !.tried = Attempted(s, k),
                       !.tokens = tokens.tokens, !.estimated = tokens.estimated \/ calls[s].stream]
    <2>1. Answered(s, k, usage) = a
      BY DEF Answered
    <2> HIDE DEF tokens
    <2>2. /\ DOMAIN a = DOMAIN st[s] /\ SameDecision(st[s], a)
          /\ a.tried = Attempted(s, k) /\ a.served = plan[k]
      BY <1>1 DEF AskFields, SameDecision
    <2> HIDE DEF a
    <2> QED
      BY <2>1, <2>2
  <1>8. CASE Delivered(s)
    <2>1. PICK k \in 1 .. Len(plan) : \E usage, status :
            Goes(s, [Answered(s, k, usage) EXCEPT !.status = status], "charge")
      BY <1>8 DEF Delivered
    <2>2. PICK usage, status : Goes(s, [Answered(s, k, usage) EXCEPT !.status = status], "charge")
      BY <2>1
    <2> DEFINE a == Answered(s, k, usage)
               q == [a EXCEPT !.status = status]
    <2>3. Goes(s, q, "charge")
      BY <2>2
    <2>4. /\ DOMAIN a = DOMAIN st[s] /\ SameDecision(st[s], a)
          /\ a.tried = Attempted(s, k) /\ a.served = plan[k]
      BY <1>7
    <2> HIDE DEF a
    <2>5. SameDecision(st[s], q) /\ q.tried = Attempted(s, k) /\ q.served = plan[k]
      BY <1>1, <2>4 DEF AskFields, SameDecision
    <2> HIDE DEF q
    <2> QED
      BY <1>5, <1>6, <2>3, <2>5
  <1>9. CASE Established(s)
    <2>1. PICK k \in 1 .. Len(plan) :
            Goes(s, inject_debug_decision(s, [Answered(s, k, Unreported) EXCEPT !.status = "2xx"]), "relay")
      BY <1>9 DEF Established
    <2> DEFINE a == Answered(s, k, Unreported)
               b == [a EXCEPT !.status = "2xx"]
               q == inject_debug_decision(s, b)
    <2>2. Goes(s, q, "relay")
      BY <2>1
    <2>3. /\ DOMAIN a = DOMAIN st[s] /\ SameDecision(st[s], a)
          /\ a.tried = Attempted(s, k) /\ a.served = plan[k]
      BY <1>7
    <2> HIDE DEF a
    <2>4. SameDecision(st[s], b) /\ b.tried = Attempted(s, k) /\ b.served = plan[k]
      BY <1>1, <2>3 DEF AskFields, SameDecision
    <2> HIDE DEF b
    <2>5. SameDecision(st[s], q) /\ q.tried = Attempted(s, k) /\ q.served = plan[k]
      BY <2>4 DEF AskFields, SameDecision, inject_debug_decision
    <2> HIDE DEF q
    <2> QED
      BY <1>5, <1>6, <2>2, <2>5
  <1>10. CASE NotDelivered(s) \/ NotEstablished(s)
    <2> DEFINE k == Len(plan)
               q == [st[s] EXCEPT !.tried = Attempted(s, k)]
    <2>1. Ends(s, q, "upstream_error")
      BY <1>10 DEF NotDelivered, NotEstablished
    <2>2. SameDecision(st[s], q) /\ q.tried = Attempted(s, k) /\ q.served = st[s].served
      BY <1>1 DEF AskFields, SameDecision
    <2>3. k \in 0 .. Len(plan)
      BY <1>3
    <2> HIDE DEF q, k
    <2>4. MovedTo(s, q, "done")
      BY <1>1, <2>1, <2>2, EndsMoves DEF SameDecision
    <2> QED
      BY <1>2, <2>2, <2>3, <2>4, TriedStep
  <1>11. CASE DeliveredError(s)
    <2>1. PICK k \in 1 .. Len(plan) :
            LET q == [st[s] EXCEPT !.served = st[s].plan[k], !.tried = Attempted(s, k), !.status = "4xx"]
            IN IF q.guard /\ ~calls[s].stream
               THEN /\ Goes(s, [q EXCEPT !.guard = FALSE, !.budget = FALSE], "c_record")
                    /\ tasks' = tasks \cup (IF q.budget THEN {Task("release_budget", s)} ELSE {})
               ELSE Ends(s, q, "upstream_status")
      BY <1>11, Zenon DEF DeliveredError
    <2> DEFINE q == [st[s] EXCEPT !.served = st[s].plan[k], !.tried = Attempted(s, k), !.status = "4xx"]
               p == [q EXCEPT !.guard = FALSE, !.budget = FALSE]
    <2>2. Ends(s, q, "upstream_status") \/ Goes(s, p, "c_record")
      BY <2>1
    <2>3. SameDecision(st[s], q) /\ q.tried = Attempted(s, k) /\ q.served = plan[k]
      BY <1>1 DEF AskFields, SameDecision
    <2> HIDE DEF q
    <2>4. SameDecision(st[s], p) /\ p.tried = Attempted(s, k) /\ p.served = plan[k]
      BY <2>3 DEF AskFields, SameDecision
    <2> HIDE DEF p
    <2> QED
      BY <1>5, <1>6, <2>2, <2>3, <2>4
  <1> QED
    BY <1>8, <1>9, <1>10, <1>11

(* An answer is filed under the key of the request it was given to.        *)
LEMMA AnswerStep ==
  ASSUME PermitInv, NEW s \in Slots, Answer(s)
  PROVE  PermitInv'
PROOF
  <1> DEFINE r == calls[s]
             p == st'[s]
             m == st[s].served
             k == CacheKey(s, m)
  <1>1. AskFields \subseteq DOMAIN st[s] /\ SameAsk(st[s], st[s])
    BY AskOfSlot
  <1>2. st[s].pc = "answer" /\ world' = world /\ calls' = calls
    BY Zenon DEF Answer, At_, fixed
  <1>3. st[s].pc # "done" /\ st[s].pc \in Late /\ st[s].pc \notin {"arrive", "auth", "decide", "done"}
    BY <1>2 DEF Late
  <1>4. /\ SlotFits(world, r, st[s]) /\ IsWorld(world) /\ DOMAIN st = Slots /\ CacheFits
        /\ Decided(world, r, st[s]) /\ Good(world, r, st[s], m)
    BY <1>3 DEF PermitInv, SlotFits
  <1>5. cache' = cache \/ cache' = Put(cache, k, [served |-> m])
    BY Zenon DEF Answer
  <1>6. SameAsk(st[s], AnswerHeaders(s))
    <2>1. PICK h : AnswerHeaders(s) = IF calls[s].stream THEN st[s]
                     ELSE inject_debug_decision(s, [st[s] EXCEPT !.head = h])
      BY DEF AnswerHeaders
    <2> DEFINE q == [st[s] EXCEPT !.head = h]
    <2>2. AskFields \subseteq DOMAIN q /\ SameAsk(st[s], q)
      BY <1>1 DEF SameAsk, AskFields
    <2>3. AnswerHeaders(s) = IF calls[s].stream THEN st[s] ELSE inject_debug_decision(s, q)
      BY <2>1
    <2> HIDE DEF q
    <2>4. SameAsk(st[s], inject_debug_decision(s, q))
      BY <2>2 DEF inject_debug_decision, SameAsk, AskFields
    <2> QED
      BY <1>1, <2>3, <2>4
  <1>7. \E reply : Ends(s, AnswerHeaders(s), reply)
    BY Zenon DEF Answer
  <1>8. MovedTo(s, AnswerHeaders(s), "done")
    BY <1>4, <1>6, <1>7, EndsMoves DEF SameAsk
  <1>9. SameAsk(st[s], p) /\ p.pc = "done" /\ DOMAIN st' = Slots /\ \A x \in Slots \ {s} : st'[x] = st[x]
    BY <1>6, <1>8 DEF MovedTo, SameAsk
  <1> HIDE DEF p
  <1>10. SlotFits(world, r, p)
    BY <1>3, <1>4, <1>9, SteadyFits DEF Steady
  <1>11. CameFrom(world, r, p, k, [served |-> m])
    <2>a. SameAsk(st[s], p)
      BY <1>9
    <2>b. Decided(world, r, p) = Decided(world, r, st[s])
      BY <2>a, SameAskSame, Zenon
    <2>c. \A z : Good(world, r, p, z) = Good(world, r, st[s], z)
      BY <2>a, SameAskSame, Zenon
    <2>d. \A z : KeyFor(world, r, p, z) = KeyFor(world, r, st[s], z)
      BY <2>a, SameAskSame, Zenon
    <2>1. Decided(world, r, p) /\ Good(world, r, p, m) /\ KeyFor(world, r, p, m) = KeyFor(world, r, st[s], m)
      BY <1>4, <2>b, <2>c, <2>d
    <2>2. p.served = m /\ k = KeyFor(world, r, st[s], m)
      BY <1>9, KeyIsKeyFor DEF SameAsk
    <2> HIDE DEF m, k
    <2> QED
      BY <1>9, <2>1, <2>2 DEF CameFrom
  <1>12. CacheFits'
    <2> SUFFICES ASSUME NEW j \in DOMAIN cache'
                 PROVE  \E x \in Slots : CameFrom(world, calls[x], st'[x], j, cache'[j])
      BY <1>2 DEF CacheFits
    <2>1. (j = k /\ cache'[j] = [served |-> m]) \/ (j \in DOMAIN cache /\ cache'[j] = cache[j])
      <3> HIDE DEF k, m
      <3> QED
        BY <1>5 DEF Put
    <2>2. CASE j = k /\ cache'[j] = [served |-> m]
      BY <1>11, <2>2 DEF p
    <2>3. CASE j \in DOMAIN cache /\ cache'[j] = cache[j]
      <3>1. PICK x \in Slots : CameFrom(world, calls[x], st[x], j, cache[j])
        BY <1>4, <2>3 DEF CacheFits
      <3>2. st'[x] = st[x]
        BY <1>3, <1>9, <3>1 DEF CameFrom
      <3> QED
        BY <2>3, <3>1, <3>2
    <2> QED
      BY <2>1, <2>2, <2>3
  <1>13. \A x \in Slots : SlotFits(world, calls[x], st'[x])
    BY <1>9, <1>10 DEF PermitInv, p
  <1> QED
    BY <1>2, <1>4, <1>9, <1>12, <1>13 DEF PermitInv

LEMMA OthersKeepPermits ==
  ASSUME PermitInv, UNCHANGED <<world, calls, st, cache>>
  PROVE  PermitInv'
PROOF
  BY DEF PermitInv, CacheFits

LEMMA InitPermits == Init => PermitInv
PROOF
  <1> SUFFICES ASSUME Init PROVE PermitInv
    OBVIOUS
  <1>1. PICK b \in Bursts : world = b.world /\ calls = b.calls
    BY DEF Init
  <1>2. IsBurst(b)
    BY GatewayAssumption
  <1>3. IsWorld(world) /\ DOMAIN calls \subseteq Slots /\ \A s \in DOMAIN calls : FieldFits(calls[s])
    BY <1>1, <1>2, Zenon DEF IsBurst, FieldFits, NamesOne
  <1> DEFINE Gone == [Fresh EXCEPT !.pc = "done"]
  <1>4. st = [s \in Slots |-> IF s \in DOMAIN calls THEN Fresh ELSE Gone]
    BY Zenon DEF Init
  <1>5. /\ AskFields \subseteq DOMAIN Fresh /\ Fresh.pc = "arrive" /\ Fresh.grant = Anonymous
        /\ Fresh.tried = {} /\ Fresh.served = Blank
    BY DEF Fresh, AskFields, Blank
  <1>6. AskFields \subseteq DOMAIN Gone /\ Gone.pc = "done" /\ Gone.tried = {} /\ Gone.served = Blank
    BY <1>5 DEF AskFields
  <1> HIDE DEF Gone
  <1>7. SentTo(Fresh) = {} /\ SentTo(Gone) = {}
    BY <1>5, <1>6, Zenon DEF SentTo, Blank
  <1>8. Fresh.pc # "done" /\ Fresh.pc \notin Planned /\ Fresh.pc \notin Late
    BY <1>5 DEF Planned, Late
  <1>9. \A s \in DOMAIN calls : SlotFits(world, calls[s], Fresh)
    <2> SUFFICES ASSUME NEW s \in DOMAIN calls PROVE SlotFits(world, calls[s], Fresh)
      OBVIOUS
    <2>1. FieldFits(calls[s])
      BY <1>3
    <2> QED
      BY <1>5, <1>7, <1>8, <2>1 DEF SlotFits
  <1>10. \A s : SlotFits(world, calls[s], Gone)
    BY <1>6, <1>7 DEF SlotFits, Undelivered, Planned, Late
  <1>11. DOMAIN st = Slots /\ \A s \in Slots : SlotFits(world, calls[s], st[s])
    BY <1>4, <1>9, <1>10
  <1>12. DOMAIN cache = {}
    BY DEF Init, NoMap
  <1> QED
    BY <1>3, <1>11, <1>12 DEF PermitInv, CacheFits

LEMMA NextKeepsPermits == PermitInv /\ [Next]_vars => PermitInv'
PROOF
  <1> SUFFICES ASSUME PermitInv, [Next]_vars PROVE PermitInv'
    OBVIOUS
  <1>1. ASSUME NEW s \in Slots, Label(s) PROVE PermitInv'
    <2>1. UNCHANGED <<world, calls, st, cache>>
      BY <1>1, Zenon DEF Label, fixed
    <2> QED
      BY <2>1, OthersKeepPermits
  <1>2. CASE Background
    BY <1>2, OthersKeepPermits DEF Background, fixed
  <1>3. CASE Tick
    BY <1>3, OthersKeepPermits DEF Tick, fixed
  <1>4. CASE UNCHANGED vars
    BY <1>4, OthersKeepPermits DEF vars
  <1> QED
    BY <1>1, <1>2, <1>3, <1>4, RefusalSteps, PreflightSteps, DecideStep, CanarySteps, RecordStep,
       AdmissionSteps, DeliverySteps, AccountingSteps, AnswerStep, DropSteps DEF Next

(* Every model a request was sent to or answered from, by the score, a     *)
(* pin, a preset, a soft budget, the key's clamp, the canary, failover or  *)
(* the cache, is one its caller is shown, inside its privacy boundary,     *)
(* large enough for it, and one it asked for unless its budget or its key  *)
(* took the choice away (chat_completions, lib.rs).                        *)
THEOREM OnlyPermittedServe == Spec => []ServedIsPermitted
PROOF
  <1>1. PermitInv => ServedIsPermitted
    <2> SUFFICES ASSUME PermitInv, NEW s \in DOMAIN calls,
                        NEW m \in st[s].tried \cup ({st[s].served} \ {""})
                 PROVE  Permitted(world, calls[s], st[s], m)
      BY Zenon DEF ServedIsPermitted
    <2>1. s \in Slots /\ m \in SentTo(st[s])
      BY Zenon DEF SentTo, PermitInv
    <2>2. \A z \in SentTo(st[s]) : Permitted(world, calls[s], st[s], z)
      BY <2>1, Zenon DEF PermitInv, SlotFits
    <2> QED
      BY <2>1, <2>2, Zenon
  <1> QED
    BY <1>1, InitPermits, NextKeepsPermits, PTL DEF Spec

-----------------------------------------------------------------------------
(* The books: every turn once in the ledger, at most once in the fleet's,  *)
(* and every canary request once in its window.                            *)

TurnFields == {"pc", "status", "reply", "at", "guard", "canary"}

Unsent == Undelivered \cup Planned
Accounting == {"relay", "charge", "record_cost", "settle", "usage"}
Recorded == {"c_snapshot", "c_trip", "answer", "done"}
Paid == {"2xx", "3xx"}

Booked(q) ==
  /\ q.status \in Paid /\ q.reply # "stream_failed"
  /\ q.pc \notin {"relay", "charge"} /\ q.at \notin {"relay", "charge"}

EndedWell(q) ==
  /\ q.status = "2xx" /\ q.reply # "stream_failed"
  /\ q.at \notin {"relay", "charge", "record_cost", "settle", "usage"}

(* What is known of a request at each point of its way.                    *)
TurnFits(q) ==
  /\ TurnFields \subseteq DOMAIN q
  /\ q.guard \in BOOLEAN /\ q.canary \in BOOLEAN
  /\ q.pc # "done" => q.at = "" /\ q.reply = ""
  /\ q.pc \in Unsent => q.status = ""
  /\ q.pc \in {"relay", "charge", "record_cost"} => q.status \in Paid
  /\ q.guard => q.canary /\ q.pc \in Unsent \cup Accounting
  /\ q.canary /\ q.pc \in Unsent \cup Accounting => q.guard
  /\ q.pc = "c_record" => q.canary

(* What one step may do to a request: it is booked by its charge alone,    *)
(* and its canary guard ends in a report, awaited or left to a task.       *)
Lawful(q, p) ==
  /\ q.pc # "charge" \/ p.pc = "done" => Booked(p) = Booked(q)
  /\ q.pc = "charge" /\ p.pc # "done" => Booked(p)
  /\ p.pc = "record_cost" => q.pc = "charge"
  /\ q.pc \in Recorded \cup {"c_record"} => p.pc \in Recorded /\ EndedWell(p) = EndedWell(q)
  /\ q.canary => p.canary
  /\ p.canary /\ ~q.canary => p.guard
  /\ q.guard /\ ~p.guard => p.pc = "c_record" \/ (p.pc = "done" /\ ~EndedWell(p))

SameTurn(q, p) ==
  /\ TurnFields \subseteq DOMAIN p
  /\ p.status = q.status /\ p.reply = q.reply /\ p.at = q.at
  /\ p.guard = q.guard /\ p.canary = q.canary

Calm(a, b) ==
  \/ a \in Unsent /\ b \in Unsent
  \/ a = "relay" /\ b = "charge"
  \/ a = "charge" /\ b \in {"record_cost", "usage"}
  \/ a = "record_cost" /\ b \in {"settle", "usage"}
  \/ a = "settle" /\ b = "usage"
  \/ a = "c_record" /\ b = "c_snapshot"
  \/ a = "c_snapshot" /\ b \in {"c_trip", "answer"}
  \/ a = "c_trip" /\ b = "answer"

LEMMA CalmIsLawful ==
  ASSUME NEW q, NEW p, TurnFits(q), SameTurn(q, p), Calm(q.pc, p.pc)
  PROVE  TurnFits(p) /\ Lawful(q, p)
PROOF
  <1> USE DEF TurnFits, SameTurn, Calm, Unsent, Undelivered, Planned, Accounting, Recorded, Paid
  <1>1. TurnFits(p)
    OBVIOUS
  <1>2. p.pc # "done" /\ p.reply # "stream_failed" /\ p.at = "" /\ q.pc # "done"
    OBVIOUS
  <1>3. q.pc # "charge" => Booked(p) = Booked(q)
    BY <1>2 DEF Booked
  <1>4. q.pc = "charge" => Booked(p)
    BY <1>2 DEF Booked
  <1>5. EndedWell(p) = EndedWell(q)
    BY <1>2 DEF EndedWell
  <1> QED
    BY <1>1, <1>2, <1>3, <1>4, <1>5 DEF Lawful

(* A request that returns, or whose client leaves.                         *)
LEMMA EndIsLawful ==
  ASSUME NEW q, NEW p, TurnFits(q), q.pc # "done", TurnFields \subseteq DOMAIN p,
         p.pc = "done", p.guard = FALSE, p.canary = q.canary,
         \/ q.pc \in Unsent /\ p.at = "" /\ p.status \in {"", "4xx"}
         \/ q.pc = "answer" /\ p.at = "" /\ p.reply # "stream_failed" /\ p.status = q.status
         \/ q.pc = "relay" /\ p.at = "" /\ p.reply = "stream_failed" /\ p.status = q.status
         \/ p.at = q.pc /\ p.reply # "stream_failed" /\ p.status = q.status
  PROVE  TurnFits(p) /\ Lawful(q, p)
PROOF
  <1> USE DEF TurnFits, Unsent, Undelivered, Planned, Accounting, Recorded, Paid
  <1>1. TurnFits(p)
    OBVIOUS
  <1>2. Booked(p) = Booked(q)
    BY DEF Booked
  <1>3. q.pc \in Recorded \cup {"c_record"} => EndedWell(p) = EndedWell(q)
    BY DEF EndedWell
  <1>4. q.guard => ~EndedWell(p)
    BY DEF EndedWell
  <1> QED
    BY <1>1, <1>2, <1>3, <1>4 DEF Lawful

(* A step of request s: what it does to the requests and to the reports of *)
(* the canary that are left to tasks.                                      *)
SlotMoves(s) ==
  /\ DOMAIN st' = Slots /\ \A x \in Slots \ {s} : st'[x] = st[x]
  /\ st[s].pc # "done" /\ TurnFits(st'[s]) /\ Lawful(st[s], st'[s])
  /\ tasks \subseteq tasks'
  /\ \A t \in tasks' \ tasks :
       \/ t \in {Task("release_lease", s), Task("release_budget", s)}
       \/ t = Task("c_record", s) /\ st'[s].pc = "done" /\ st[s].guard
  /\ st'[s].pc = "done" /\ st[s].guard => Task("c_record", s) \in tasks'

LEMMA GoesTo ==
  ASSUME DOMAIN st = Slots, NEW s \in Slots, NEW q, TurnFields \subseteq DOMAIN q, NEW to, Goes(s, q, to)
  PROVE  /\ DOMAIN st' = Slots /\ \A x \in Slots \ {s} : st'[x] = st[x]
         /\ SameTurn(q, st'[s]) /\ st'[s].pc = to
PROOF
  <1>1. st' = [st EXCEPT ![s] = [q EXCEPT !.pc = to]]
    BY DEF Goes
  <1>2. st'[s] = [q EXCEPT !.pc = to]
    BY <1>1
  <1> QED
    BY <1>1, <1>2 DEF TurnFields, SameTurn

LEMMA GoesOn ==
  ASSUME DOMAIN st = Slots, NEW s \in Slots, TurnFits(st[s]), NEW q, SameTurn(st[s], q),
         NEW to, Calm(st[s].pc, to), Goes(s, q, to), tasks' = tasks
  PROVE  SlotMoves(s) /\ st'[s].pc = to
PROOF
  <1>1. TurnFields \subseteq DOMAIN q
    BY DEF SameTurn
  <1>2. /\ DOMAIN st' = Slots /\ \A x \in Slots \ {s} : st'[x] = st[x]
        /\ SameTurn(q, st'[s]) /\ st'[s].pc = to
    BY <1>1, GoesTo
  <1>3. SameTurn(st[s], st'[s])
    BY <1>2 DEF SameTurn
  <1>4. TurnFits(st'[s]) /\ Lawful(st[s], st'[s])
    BY <1>2, <1>3, CalmIsLawful
  <1>5. st[s].pc # "done" /\ to # "done"
    BY DEF Calm, Unsent, Undelivered, Planned
  <1> QED
    BY <1>2, <1>4, <1>5 DEF SlotMoves

(* The ways a request may end.                                             *)
MayEnd(s, q, reply) ==
  \/ st[s].pc \in Unsent /\ q.at = "" /\ q.status \in {"", "4xx"}
  \/ st[s].pc = "answer" /\ q.at = "" /\ reply # "stream_failed" /\ q.status = st[s].status
  \/ st[s].pc = "relay" /\ q.at = "" /\ reply = "stream_failed" /\ q.status = st[s].status
  \/ q.at = st[s].pc /\ reply # "stream_failed" /\ q.status = st[s].status

LEMMA EndsHere ==
  ASSUME DOMAIN st = Slots, NEW s \in Slots, TurnFits(st[s]), st[s].pc # "done",
         NEW q, TurnFields \subseteq DOMAIN q, q.canary = st[s].canary, q.guard = st[s].guard,
         NEW reply, MayEnd(s, q, reply), Ends(s, q, reply)
  PROVE  SlotMoves(s) /\ st'[s].pc = "done"
PROOF
  <1> DEFINE p == [q EXCEPT !.pc = "done", !.reply = reply, !.permit = FALSE,
                            !.lease = FALSE, !.budget = FALSE, !.guard = FALSE]
  <1>1. st' = [st EXCEPT ![s] = p] /\ tasks' = tasks \cup Orphans(s, q)
    BY DEF Ends
  <1>2. /\ TurnFields \subseteq DOMAIN p /\ p.pc = "done" /\ p.guard = FALSE /\ p.reply = reply
        /\ p.at = q.at /\ p.status = q.status /\ p.canary = st[s].canary
    BY DEF TurnFields
  <1> HIDE DEF p
  <1>3. st'[s] = p /\ DOMAIN st' = Slots /\ \A x \in Slots \ {s} : st'[x] = st[x]
    BY <1>1
  <1>4. TurnFits(p) /\ Lawful(st[s], p)
    BY <1>2, EndIsLawful DEF MayEnd
  <1>5. \A t \in Orphans(s, q) : t = Task("release_lease", s) \/ t = Task("release_budget", s)
                                 \/ (t = Task("c_record", s) /\ st[s].guard)
    BY Zenon DEF Orphans
  <1>7. st[s].guard => Task("c_record", s) \in Orphans(s, q)
    BY Zenon DEF Orphans
  <1>8. tasks \subseteq tasks' /\ \A t \in tasks' \ tasks : t \in Orphans(s, q)
    BY <1>1
  <1>9. /\ \A t \in tasks' \ tasks :
             \/ t \in {Task("release_lease", s), Task("release_budget", s)}
             \/ t = Task("c_record", s) /\ st'[s].pc = "done" /\ st[s].guard
        /\ st[s].guard => Task("c_record", s) \in tasks'
    BY <1>1, <1>2, <1>3, <1>5, <1>7, <1>8
  <1> QED
    BY <1>2, <1>3, <1>4, <1>8, <1>9 DEF SlotMoves

(* A request that was not sent anywhere is refused.                        *)
LEMMA EndsEarly ==
  ASSUME DOMAIN st = Slots, NEW s \in Slots, TurnFits(st[s]), st[s].pc \in Unsent,
         NEW q, SameTurn(st[s], q), NEW reply, Ends(s, q, reply)
  PROVE  SlotMoves(s) /\ st'[s].pc = "done"
PROOF
  <1>1. /\ TurnFields \subseteq DOMAIN q /\ st[s].pc # "done" /\ q.at = "" /\ q.status = ""
        /\ q.canary = st[s].canary /\ q.guard = st[s].guard
    BY DEF TurnFits, SameTurn, Unsent, Undelivered, Planned
  <1>2. MayEnd(s, q, reply)
    BY <1>1 DEF MayEnd
  <1> QED
    BY <1>1, <1>2, EndsHere

-----------------------------------------------------------------------------
(* The shared state.                                                       *)

RolloutFields == {"hash", "seen", "seenExpires", "exposureWindow", "exposed"}

SameCounts(c) ==
  /\ RolloutFields \subseteq DOMAIN c
  /\ c.hash = redis.canary.hash /\ c.seen = redis.canary.seen
  /\ c.seenExpires = redis.canary.seenExpires

(* No turn and no canary request is added.                                 *)
Untold(r) ==
  /\ StoreFields \subseteq DOMAIN r /\ r.counted = redis.counted
  /\ \/ SameCounts(r.canary)
     \/ r.canary = Snapshot
     \/ \E reason : r.canary = trip_canary(redis.canary, reason, world.canary.hold, now)

TurnTold(s, r) ==
  /\ StoreFields \subseteq DOMAIN r
  /\ r.counted = redis.counted \cup {s} /\ SameCounts(r.canary)

CanaryTold(s, well, r) ==
  /\ StoreFields \subseteq DOMAIN r /\ r.counted = redis.counted
  /\ \E o : /\ o.id = s /\ o.succeeded = well
            /\ r.canary = record_canary(redis.canary, o, world.canary.window, now)

SharedMoves(s) ==
  /\ faults' \in Nat /\ drops' \in Nat /\ faults <= faults' /\ drops <= drops'
  /\ \/ Untold(redis')
     \/ st[s].pc = "record_cost" /\ TurnTold(s, redis')
     \/ st[s].pc = "c_record" /\ CanaryTold(s, st[s].status = "2xx", redis')
  /\ faults' + drops' = 0 =>
       /\ st[s].pc = "record_cost" => TurnTold(s, redis')
       /\ st[s].pc = "c_record" => CanaryTold(s, st[s].status = "2xx", redis')

BooksShape ==
  /\ DOMAIN st = Slots /\ \A s \in Slots : TurnFits(st[s])
  /\ StoreFields \subseteq DOMAIN redis /\ RolloutFields \subseteq DOMAIN redis.canary
  /\ faults \in Nat /\ drops \in Nat

LEMMA UntoldEffects ==
  ASSUME BooksShape
  PROVE  /\ Untold(redis)
         /\ \A c : Untold(WithCounts(c))
         /\ Untold(WithCanary(Snapshot))
         /\ \A reason : Untold(Tripped(reason))
         /\ Untold(WithCanary(admit_exposure(redis.canary, world.canary.window, now)))
         /\ \A s : /\ Untold(ReserveBudget(s)) /\ Untold(Unreserved(s)) /\ Untold(AcquireAdmission(s))
                   /\ Untold(SharedTokens(s)) /\ Untold([redis EXCEPT !.leases = redis.leases \ {s}])
PROOF
  <1>1. /\ StoreFields \subseteq DOMAIN redis /\ SameCounts(redis.canary)
        /\ RolloutFields \subseteq DOMAIN redis.canary
    BY DEF BooksShape, SameCounts
  <1>2. Untold(redis)
    BY <1>1 DEF Untold
  <1>3. ASSUME NEW f \in {"reserved", "leases", "counts"}, NEW v PROVE Untold([redis EXCEPT ![f] = v])
    <2> DEFINE r == [redis EXCEPT ![f] = v]
    <2>1. StoreFields \subseteq DOMAIN r /\ r.counted = redis.counted /\ r.canary = redis.canary
      BY <1>1 DEF StoreFields
    <2> QED
      BY <1>1, <2>1 DEF Untold
  <1>4. ASSUME NEW c PROVE /\ StoreFields \subseteq DOMAIN WithCanary(c)
                           /\ WithCanary(c).counted = redis.counted /\ WithCanary(c).canary = c
    BY <1>1 DEF WithCanary, StoreFields
  <1>5. \A c : Untold(WithCounts(c))
    BY <1>3 DEF WithCounts
  <1>6. Untold(WithCanary(Snapshot))
    BY <1>4 DEF Untold
  <1>7. \A reason : Untold(Tripped(reason))
    BY <1>4 DEF Untold, Tripped
  <1>8. Untold(WithCanary(admit_exposure(redis.canary, world.canary.window, now)))
    <2>1. SameCounts(admit_exposure(redis.canary, world.canary.window, now))
      BY <1>1 DEF admit_exposure, SameCounts, RolloutFields
    <2> QED
      BY <1>4, <2>1 DEF Untold
  <1>9. ASSUME NEW s PROVE /\ Untold(ReserveBudget(s)) /\ Untold(Unreserved(s)) /\ Untold(AcquireAdmission(s))
                           /\ Untold(SharedTokens(s)) /\ Untold([redis EXCEPT !.leases = redis.leases \ {s}])
    <2>1. \E v : ReserveBudget(s) = [redis EXCEPT !["reserved"] = v]
      BY Zenon DEF ReserveBudget
    <2>2. \E v : Unreserved(s) = [redis EXCEPT !["reserved"] = v]
      BY Zenon DEF Unreserved
    <2>3. \E v : AcquireAdmission(s) = [redis EXCEPT !["leases"] = v]
      BY Zenon DEF AcquireAdmission
    <2>4. \E v : SharedTokens(s) = [redis EXCEPT !["counts"] = v]
      BY Zenon DEF SharedTokens
    <2>5. \E v : [redis EXCEPT !.leases = redis.leases \ {s}] = [redis EXCEPT !["leases"] = v]
      BY Zenon
    <2>6. \A f \in {"reserved", "leases", "counts"} : \A r : (\E v : r = [redis EXCEPT ![f] = v]) => Untold(r)
      BY <1>3, Zenon
    <2>7. Untold(ReserveBudget(s)) /\ Untold(Unreserved(s))
      BY <2>1, <2>2, <2>6, Zenon
    <2>8. Untold(AcquireAdmission(s)) /\ Untold([redis EXCEPT !.leases = redis.leases \ {s}])
      BY <2>3, <2>5, <2>6, Zenon
    <2>9. Untold(SharedTokens(s))
      BY <2>4, <2>6, Zenon
    <2> QED
      BY <2>7, <2>8, <2>9
  <1> QED
    BY <1>2, <1>5, <1>6, <1>7, <1>8, <1>9

LEMMA UntoldPartials ==
  ASSUME BooksShape, NEW s
  PROVE  /\ \A r \in PartialKeyStage(s) : Untold(r)
         /\ Untold(UsageEffect(s)) /\ \A r \in PartialUsage(s) : Untold(r)
PROOF
  <1>1. Untold(redis) /\ \A c : Untold(WithCounts(c))
    BY UntoldEffects
  <1>2. \A r \in PartialKeyStage(s) : Untold(r)
    BY <1>1 DEF PartialKeyStage
  <1>3. Untold(UsageEffect(s))
    BY <1>1 DEF UsageEffect
  <1>4. \A r \in PartialUsage(s) : Untold(r)
    BY <1>1 DEF PartialUsage
  <1> QED
    BY <1>2, <1>3, <1>4

LEMMA ToldEffects ==
  ASSUME BooksShape, NEW s
  PROVE  /\ TurnTold(s, RecordCost(s))
         /\ \A latency : CanaryTold(s, st[s].status = "2xx", Observed(s, st[s].status = "2xx", latency))
PROOF
  <1>1. /\ StoreFields \subseteq DOMAIN redis /\ SameCounts(redis.canary)
        /\ RolloutFields \subseteq DOMAIN redis.canary
    BY DEF BooksShape, SameCounts
  <1>2. TurnTold(s, RecordCost(s))
    <2> DEFINE spend == [x \in DOMAIN redis.spend \cup SpendScopes(s, st[s].served) |->
                           At(redis.spend, x, 0)
                           + IF x \in SpendScopes(s, st[s].served) THEN CostOf(s).realized ELSE 0]
               r == [[redis EXCEPT !.counted = redis.counted \cup {s}] EXCEPT !.spend = spend]
    <2>1. RecordCost(s) = IF s \in redis.counted THEN redis ELSE r
      BY DEF RecordCost
    <2> HIDE DEF spend
    <2>2. StoreFields \subseteq DOMAIN r /\ r.counted = redis.counted \cup {s} /\ r.canary = redis.canary
      BY <1>1 DEF StoreFields
    <2> HIDE DEF r
    <2>3. s \in redis.counted => redis.counted = redis.counted \cup {s}
      OBVIOUS
    <2> QED
      BY <1>1, <2>1, <2>2, <2>3 DEF TurnTold
  <1>3. ASSUME NEW latency
        PROVE  CanaryTold(s, st[s].status = "2xx", Observed(s, st[s].status = "2xx", latency))
    <2> DEFINE o == Observation(s, st[s].status = "2xx", latency)
               c == record_canary(redis.canary, o, world.canary.window, now)
    <2>1. o.id = s /\ o.succeeded = (st[s].status = "2xx")
      BY DEF Observation
    <2>2. Observed(s, st[s].status = "2xx", latency) = [redis EXCEPT !.canary = c]
      BY Zenon DEF Observed, WithCanary
    <2> HIDE DEF o
    <2>3. \E z : z.id = s /\ z.succeeded = (st[s].status = "2xx")
                 /\ c = record_canary(redis.canary, z, world.canary.window, now)
      BY <2>1
    <2> HIDE DEF c
    <2>4. LET r == [redis EXCEPT !.canary = c]
          IN StoreFields \subseteq DOMAIN r /\ r.counted = redis.counted /\ r.canary = c
      BY <1>1 DEF StoreFields
    <2> QED
      BY <2>2, <2>3, <2>4 DEF CanaryTold
  <1> QED
    BY <1>2, <1>3

-----------------------------------------------------------------------------
(* What every step of a request does to the books.                         *)
Walks(s) ==
  /\ SlotMoves(s) /\ SharedMoves(s)
  /\ UNCHANGED <<world, calls, now>>
  /\ IF st[s].pc = "charge" /\ st'[s].pc # "done"
     THEN /\ ledger' = record_attributed(ledger, CostOf(s), world.today, KeyOf(s), WorkspaceIdOf(s),
                                         world.max_days)
          /\ world.redis => st'[s].pc = "record_cost"
     ELSE ledger' = ledger

LEMMA CallsUntold ==
  ASSUME BooksShape, NEW effect, NEW partial, NEW ok \in BOOLEAN, RedisCalls(effect, partial, ok),
         Untold(effect), \A r \in partial : Untold(r)
  PROVE  Untold(redis') /\ faults' \in Nat /\ faults <= faults'
PROOF
  <1>1. Untold(redis)
    BY UntoldEffects
  <1> QED
    BY <1>1 DEF RedisCalls, BooksShape

LEMMA CallUntold ==
  ASSUME BooksShape, NEW effect, NEW ok \in BOOLEAN, Redis(effect, ok), Untold(effect)
  PROVE  Untold(redis') /\ faults' \in Nat /\ faults <= faults'
PROOF
  BY CallsUntold DEF Redis

LEMMA NoCallUntold ==
  ASSUME BooksShape, NoRedis
  PROVE  Untold(redis') /\ faults' \in Nat /\ faults <= faults'
PROOF
  <1>1. Untold(redis)
    BY UntoldEffects
  <1> QED
    BY <1>1 DEF NoRedis, BooksShape

LEMMA UntoldMoves ==
  ASSUME BooksShape, NEW s \in Slots, st[s].pc \notin {"record_cost", "c_record"},
         Untold(redis'), faults' \in Nat, faults <= faults', drops' = drops
  PROVE  SharedMoves(s)
PROOF
  <1>1. drops' \in Nat /\ drops <= drops'
    BY DEF BooksShape
  <1>2. st[s].pc # "record_cost" /\ st[s].pc # "c_record"
    OBVIOUS
  <1> QED
    BY <1>1, <1>2, Zenon DEF SharedMoves

(* A step before the request is sent anywhere.                             *)
LEMMA EarlyWalk ==
  ASSUME BooksShape, NEW s \in Slots, st[s].pc \in Unsent,
         NEW q, SameTurn(st[s], q),
         \/ \E to \in Unsent : Goes(s, q, to) /\ tasks' = tasks
         \/ \E reply : Ends(s, q, reply),
         Untold(redis') /\ faults' \in Nat /\ faults <= faults',
         UNCHANGED <<world, calls, now, ledger, drops>>
  PROVE  Walks(s)
PROOF
  <1>1. DOMAIN st = Slots /\ TurnFits(st[s])
    BY DEF BooksShape
  <1>2. \A to \in Unsent : Calm(st[s].pc, to)
    BY DEF Calm
  <1>3. SlotMoves(s)
    BY <1>1, <1>2, GoesOn, EndsEarly
  <1>4. st[s].pc \notin {"record_cost", "c_record", "charge"}
    BY DEF Unsent, Undelivered, Planned
  <1>5. SharedMoves(s)
    BY <1>4, UntoldMoves
  <1> QED
    BY <1>3, <1>4, <1>5 DEF Walks

LEMMA SameAsItself ==
  ASSUME BooksShape, NEW s \in Slots
  PROVE  TurnFields \subseteq DOMAIN st[s] /\ SameTurn(st[s], st[s])
PROOF
  BY DEF BooksShape, TurnFits, SameTurn

LEMMA WaysInUnsent ==
  /\ "decide" \in Unsent /\ "auth" \in Unsent /\ "snapshot" \in Unsent /\ "expose" \in Unsent
  /\ "headers" \in Unsent /\ "record" \in Unsent /\ "reserve" \in Unsent /\ "admit" \in Unsent
  /\ "lease" \in Unsent /\ "tokens" \in Unsent /\ "deliver" \in Unsent /\ "arrive" \in Unsent
PROOF
  BY DEF Unsent, Undelivered, Planned

LEMMA PreflightWalks ==
  ASSUME BooksShape, NEW s \in Slots,
         \/ Refuse(s) \/ RefuseOverride(s) \/ PreflightLocal(s) \/ PreflightGlobal(s) \/ PreflightKey(s)
  PROVE  Walks(s)
PROOF
  <1>1. TurnFields \subseteq DOMAIN st[s] /\ SameTurn(st[s], st[s])
    BY SameAsItself
  <1>2. st[s].pc \in Unsent
    BY WaysInUnsent, Zenon DEF Refuse, RefuseOverride, PreflightLocal, PreflightGlobal, PreflightKey, At_
  <1>3. UNCHANGED <<world, calls, now, ledger, drops>>
    BY Zenon DEF Refuse, RefuseOverride, PreflightLocal, PreflightGlobal, PreflightKey, fixed
  <1>4. Untold(redis') /\ faults' \in Nat /\ faults <= faults'
    <2>1. CASE NoRedis
      BY <2>1, NoCallUntold
    <2>2. CASE PreflightGlobal(s)
      <3>1. PICK ok \in BOOLEAN : Redis(WithCounts(admit_global(A, redis.counts).counts), ok)
        BY <2>2, Zenon DEF PreflightGlobal
      <3> QED
        BY <3>1, UntoldEffects, CallUntold
    <2>3. CASE PreflightKey(s)
      <3>1. PICK ok \in BOOLEAN :
              RedisCalls(WithCounts(KeyStage(s, redis.counts).counts), PartialKeyStage(s), ok)
        BY <2>3, Zenon DEF PreflightKey
      <3>2. Untold(WithCounts(KeyStage(s, redis.counts).counts)) /\ \A r \in PartialKeyStage(s) : Untold(r)
        BY UntoldEffects, UntoldPartials
      <3> QED
        BY <3>1, <3>2, CallsUntold
    <2> QED
      BY <2>1, <2>2, <2>3, Zenon DEF Refuse, RefuseOverride, PreflightLocal
  <1>5. ASSUME NEW stage, Authenticated(s, stage)
        PROVE  \E q : /\ SameTurn(st[s], q)
                      /\ \/ \E to \in Unsent : Goes(s, q, to) /\ tasks' = tasks
                         \/ \E reply : Ends(s, q, reply)
    <2> DEFINE q == [st[s] EXCEPT !.grant = stage.grant]
    <2>1. (\E reply : Ends(s, st[s], reply)) \/ (Goes(s, q, "decide") /\ tasks' = tasks)
      BY <1>5, Zenon DEF Authenticated
    <2>2. SameTurn(st[s], q)
      BY <1>1 DEF SameTurn, TurnFields
    <2> HIDE DEF q
    <2> QED
      BY <1>1, <2>1, <2>2, WaysInUnsent
  <1>6. \E q : /\ SameTurn(st[s], q)
               /\ \/ \E to \in Unsent : Goes(s, q, to) /\ tasks' = tasks
                  \/ \E reply : Ends(s, q, reply)
    <2>1. CASE \E reply : Ends(s, st[s], reply)
      BY <1>1, <2>1
    <2>2. CASE \E to \in {"decide", "auth"} : Goes(s, st[s], to) /\ tasks' = tasks
      BY <1>1, <2>2, WaysInUnsent
    <2>3. CASE \E stage : Authenticated(s, stage)
      BY <1>5, <2>3
    <2>4. PreflightLocal(s) => \/ \E reply : Ends(s, st[s], reply)
                               \/ Goes(s, st[s], "decide") /\ tasks' = tasks
                               \/ \E stage : Authenticated(s, stage)
      BY Zenon DEF PreflightLocal
    <2>5. PreflightGlobal(s) => (\E reply : Ends(s, st[s], reply)) \/ (Goes(s, st[s], "auth") /\ tasks' = tasks)
      BY Zenon DEF PreflightGlobal
    <2>6. PreflightKey(s) => \E stage : Authenticated(s, stage)
      BY Zenon DEF PreflightKey
    <2>7. Refuse(s) \/ RefuseOverride(s) => \E reply : Ends(s, st[s], reply)
      BY Zenon DEF Refuse, RefuseOverride
    <2> QED
      BY <2>1, <2>2, <2>3, <2>4, <2>5, <2>6, <2>7
  <1> QED
    BY <1>2, <1>3, <1>4, <1>6, EarlyWalk

LEMMA DecisionWalks ==
  ASSUME BooksShape, NEW s \in Slots, Decide(s) \/ CanarySnapshot(s) \/ Headers(s)
  PROVE  Walks(s)
PROOF
  <1>1. TurnFields \subseteq DOMAIN st[s] /\ SameTurn(st[s], st[s])
    BY SameAsItself
  <1>2. st[s].pc \in Unsent
    BY WaysInUnsent, Zenon DEF Decide, CanarySnapshot, Headers, At_
  <1>3. UNCHANGED <<world, calls, now, ledger, drops>>
    BY Zenon DEF Decide, CanarySnapshot, Headers, fixed
  <1>4. CASE Decide(s)
    <2> DEFINE Way(d, c, v) ==
                 /\ Goes(s, [st[s] EXCEPT !.facts = d, !.choice = c, !.baseline = c.model, !.degraded = v],
                         IF MayCanary(c) THEN "snapshot" ELSE "headers")
                 /\ UNCHANGED tasks
    <2>1. /\ NoRedis \/ \E ok \in BOOLEAN : Redis(redis, ok)
          /\ (\E reply : Ends(s, st[s], reply)) \/ \E d, c, v : Way(d, c, v)
      <3> DEFINE Corrected(f, x, verdict) ==
                   {Clamped(IF verdict = "degrade" THEN Degraded(x.choice, f) ELSE x.choice, f, world.names)}
                 Onward(f, x, verdict) ==
                   IF verdict = "block" THEN Ends(s, st[s], "budget_blocked")
                   ELSE \E c \in Corrected(f, x, verdict) : Way(f, c, verdict = "degrade")
                 Body(f, x) ==
                   IF x.refusal # "" THEN Ends(s, st[s], x.refusal) /\ NoRedis
                   ELSE \E ok \in (IF Budgeted /\ world.redis THEN BOOLEAN ELSE {TRUE}) :
                          /\ Redis(redis, ok)
                          /\ Onward(f, x, BudgetVerdict(s, world.redis /\ ok, f.offline))
      <3>1. \E f, x : Body(f, x)
        BY <1>4, Zenon DEF Decide
      <3>2. PICK f, x : Body(f, x)
        BY <3>1
      <3> HIDE DEF Way
      <3>3. \A v : Onward(f, x, v) => (\E reply : Ends(s, st[s], reply)) \/ \E d, c, z : Way(d, c, z)
        BY Zenon
      <3> HIDE DEF Onward
      <3>4. CASE x.refusal # ""
        BY <3>2, <3>4, Zenon
      <3>5. CASE ~(x.refusal # "")
        <4>1. PICK ok \in (IF Budgeted /\ world.redis THEN BOOLEAN ELSE {TRUE}) :
                Redis(redis, ok) /\ Onward(f, x, BudgetVerdict(s, world.redis /\ ok, f.offline))
          BY <3>2, <3>5, Zenon
        <4>2. ok \in BOOLEAN
          OBVIOUS
        <4> QED
          BY <3>3, <4>1, <4>2, Zenon
      <3> QED
        BY <3>4, <3>5, Zenon
    <2>2. Untold(redis') /\ faults' \in Nat /\ faults <= faults'
      BY <2>1, UntoldEffects, NoCallUntold, CallUntold
    <2>3. CASE \E reply : Ends(s, st[s], reply)
      BY <1>1, <1>2, <1>3, <2>2, <2>3, EarlyWalk
    <2>4. CASE \E d, c, v : Way(d, c, v)
      <3>1. PICK d, c, v : Way(d, c, v)
        BY <2>4
      <3> DEFINE q == [st[s] EXCEPT !.facts = d, !.choice = c, !.baseline = c.model, !.degraded = v]
                 to == IF MayCanary(c) THEN "snapshot" ELSE "headers"
      <3>2. Goes(s, q, to) /\ tasks' = tasks
        BY <3>1
      <3>3. SameTurn(st[s], q)
        BY <1>1 DEF SameTurn, TurnFields
      <3>4. to \in Unsent
        BY WaysInUnsent
      <3> HIDE DEF q, to
      <3> QED
        BY <1>2, <1>3, <2>2, <3>2, <3>3, <3>4, EarlyWalk
    <2> QED
      BY <2>1, <2>3, <2>4
  <1>5. CASE CanarySnapshot(s)
    <2>1. /\ \E ok \in BOOLEAN : Redis(WithCanary(Snapshot), ok)
          /\ \E to \in {"expose", "headers"} : Goes(s, st[s], to) /\ tasks' = tasks
      BY <1>5, Zenon DEF CanarySnapshot, Snapshot
    <2>2. Untold(redis') /\ faults' \in Nat /\ faults <= faults'
      BY <2>1, UntoldEffects, CallUntold
    <2> QED
      BY <1>1, <1>2, <1>3, <2>1, <2>2, WaysInUnsent, EarlyWalk
  <1>6. CASE Headers(s)
    <2>1. \E ok \in (IF A.active /\ world.redis THEN BOOLEAN ELSE {TRUE}) : Redis(redis, ok)
      BY <1>6, Zenon DEF Headers
    <2>2. Untold(redis') /\ faults' \in Nat /\ faults <= faults'
      BY <2>1, UntoldEffects, CallUntold
    <2>3. PICK h : Goes(s, [st[s] EXCEPT !.head = h], "record")
      BY <1>6, Zenon DEF Headers
    <2> DEFINE q == [st[s] EXCEPT !.head = h]
    <2>4. SameTurn(st[s], q) /\ Goes(s, q, "record")
      BY <1>1, <2>3 DEF SameTurn, TurnFields
    <2> HIDE DEF q
    <2>5. tasks' = tasks
      BY <1>6, Zenon DEF Headers
    <2> QED
      BY <1>2, <1>3, <2>2, <2>4, <2>5, WaysInUnsent, EarlyWalk
  <1> QED
    BY <1>4, <1>5, <1>6

(* The exposure: the request becomes a canary, and takes its guard.        *)
LEMMA ExposeWalks ==
  ASSUME BooksShape, NEW s \in Slots, CanaryExpose(s)
  PROVE  Walks(s)
PROOF
  <1>1. TurnFields \subseteq DOMAIN st[s] /\ SameTurn(st[s], st[s])
    BY SameAsItself
  <1>2. st[s].pc = "expose"
    BY Zenon DEF CanaryExpose, At_
  <1>3. UNCHANGED <<world, calls, now, ledger, drops, tasks>>
    BY Zenon DEF CanaryExpose, fixed
  <1> DEFINE cfg == world.canary
             limited == exposure_limited(redis.canary, cfg.max_requests, cfg.window, now)
             effect == IF limited THEN redis ELSE WithCanary(admit_exposure(redis.canary, cfg.window, now))
             Q(c) == [st[s] EXCEPT !.choice = c, !.canary = TRUE, !.guard = TRUE]
  <1>4. /\ \E ok \in BOOLEAN : Redis(effect, ok)
        /\ (\E c : Goes(s, Q(c), "headers")) \/ Goes(s, st[s], "headers")
    <2>1. PICK ok \in BOOLEAN :
            /\ Redis(effect, ok)
            /\ \E c : IF ok /\ ~limited /\ SelectSeq(world.routes[cfg.candidate],
                                                    LAMBDA m : Acceptable(world, m, D(s))) # <<>>
                      THEN Goes(s, Q(c), "headers")
                      ELSE Goes(s, st[s], "headers")
      BY Zenon DEF CanaryExpose
    <2> QED
      BY <2>1, Zenon
  <1>5. Untold(redis') /\ faults' \in Nat /\ faults <= faults'
    BY <1>4, UntoldEffects, CallUntold
  <1>6. st[s].pc \in Unsent /\ "headers" \in Unsent
    BY <1>2, WaysInUnsent
  <1>7. CASE Goes(s, st[s], "headers")
    BY <1>1, <1>3, <1>5, <1>6, <1>7, EarlyWalk
  <1>8. CASE \E c : Goes(s, Q(c), "headers")
    <2>1. PICK c : Goes(s, Q(c), "headers")
      BY <1>8
    <2> DEFINE q == Q(c)
    <2>2. /\ TurnFields \subseteq DOMAIN q /\ q.canary = TRUE /\ q.guard = TRUE
          /\ q.status = st[s].status /\ q.reply = st[s].reply /\ q.at = st[s].at
      BY <1>1 DEF TurnFields
    <2>3. Goes(s, q, "headers")
      BY <2>1
    <2> HIDE DEF q
    <2>4. /\ DOMAIN st' = Slots /\ \A x \in Slots \ {s} : st'[x] = st[x]
          /\ SameTurn(q, st'[s]) /\ st'[s].pc = "headers"
      BY <2>2, <2>3, GoesTo DEF BooksShape
    <2>5. TurnFits(st[s])
      BY DEF BooksShape
    <2>6. /\ st'[s].status = "" /\ st'[s].reply = "" /\ st'[s].at = "" /\ st'[s].canary = TRUE
          /\ st'[s].guard = TRUE /\ TurnFields \subseteq DOMAIN st'[s] /\ st[s].status = ""
      BY <1>2, <1>6, <2>2, <2>4, <2>5 DEF SameTurn, TurnFits
    <2>7. TurnFits(st'[s])
      BY <1>6, <2>4, <2>6 DEF TurnFits
    <2>8. Lawful(st[s], st'[s])
      <3>1. Booked(st'[s]) = Booked(st[s])
        BY <2>6 DEF Booked, Paid
      <3>2. st[s].pc \notin Recorded \cup {"c_record"}
        BY <1>2 DEF Recorded
      <3> QED
        BY <1>2, <2>4, <2>6, <3>1, <3>2 DEF Lawful
    <2>9. SlotMoves(s)
      BY <1>2, <1>3, <2>4, <2>7, <2>8 DEF SlotMoves
    <2>10. SharedMoves(s)
      BY <1>2, <1>3, <1>5, UntoldMoves
    <2> QED
      BY <1>2, <1>3, <2>9, <2>10 DEF Walks
  <1> QED
    BY <1>4, <1>7, <1>8

LEMMA RecordWalks ==
  ASSUME BooksShape, NEW s \in Slots, Record(s)
  PROVE  Walks(s)
PROOF
  <1>1. TurnFields \subseteq DOMAIN st[s] /\ SameTurn(st[s], st[s])
    BY SameAsItself
  <1>2. st[s].pc \in Unsent
    BY WaysInUnsent, Zenon DEF Record, At_
  <1>3. UNCHANGED <<world, calls, now, ledger, drops>> /\ NoRedis
    BY Zenon DEF Record, fixed
  <1>4. Untold(redis') /\ faults' \in Nat /\ faults <= faults'
    BY <1>3, NoCallUntold
  <1>5. \/ \E reply : Ends(s, st[s], reply)
        \/ \E reply : Ends(s, decision_only_response(s), reply)
        \/ \E served, head : Ends(s, [st[s] EXCEPT !.served = served, !.head = head], "cached")
        \/ \E plan, miss : /\ Goes(s, [st[s] EXCEPT !.plan = plan, !.miss = miss],
                                   IF NeedsReservation(s) THEN "reserve" ELSE "admit")
                           /\ tasks' = tasks
    BY Zenon DEF Record
  <1>6. SameTurn(st[s], decision_only_response(s))
    BY <1>1 DEF SameTurn, TurnFields, decision_only_response
  <1>7. CASE \E served, head : Ends(s, [st[s] EXCEPT !.served = served, !.head = head], "cached")
    <2>1. PICK served, head : Ends(s, [st[s] EXCEPT !.served = served, !.head = head], "cached")
      BY <1>7
    <2> DEFINE q == [st[s] EXCEPT !.served = served, !.head = head]
    <2>2. SameTurn(st[s], q) /\ Ends(s, q, "cached")
      BY <1>1, <2>1 DEF SameTurn, TurnFields
    <2> HIDE DEF q
    <2> QED
      BY <1>2, <1>3, <1>4, <2>2, EarlyWalk
  <1>8. CASE \E plan, miss : /\ Goes(s, [st[s] EXCEPT !.plan = plan, !.miss = miss],
                                     IF NeedsReservation(s) THEN "reserve" ELSE "admit")
                             /\ tasks' = tasks
    <2>1. PICK plan, miss : /\ Goes(s, [st[s] EXCEPT !.plan = plan, !.miss = miss],
                                    IF NeedsReservation(s) THEN "reserve" ELSE "admit")
                            /\ tasks' = tasks
      BY <1>8
    <2> DEFINE q == [st[s] EXCEPT !.plan = plan, !.miss = miss]
               to == IF NeedsReservation(s) THEN "reserve" ELSE "admit"
    <2>2. SameTurn(st[s], q) /\ Goes(s, q, to) /\ to \in Unsent
      BY <1>1, <2>1, WaysInUnsent DEF SameTurn, TurnFields
    <2> HIDE DEF q, to
    <2> QED
      BY <1>2, <1>3, <1>4, <2>1, <2>2, EarlyWalk
  <1> QED
    BY <1>1, <1>2, <1>3, <1>4, <1>5, <1>6, <1>7, <1>8, EarlyWalk

LEMMA AdmissionWalks ==
  ASSUME BooksShape, NEW s \in Slots,
         Reserve(s) \/ Admit_(s) \/ Overloaded(s) \/ Lease(s) \/ Tokens(s)
  PROVE  Walks(s)
PROOF
  <1>1. TurnFields \subseteq DOMAIN st[s] /\ SameTurn(st[s], st[s])
    BY SameAsItself
  <1>2. st[s].pc \in Unsent
    BY WaysInUnsent, Zenon DEF Reserve, Admit_, Overloaded, Lease, Tokens, At_
  <1>3. UNCHANGED <<world, calls, now, ledger, drops>>
    BY Zenon DEF Reserve, Admit_, Overloaded, Lease, Tokens, fixed
  <1>4. AfterAdmission(s) \in Unsent
    BY WaysInUnsent DEF AfterAdmission
  <1>5. CASE Reserve(s)
    <2>1. PICK ok \in BOOLEAN :
            /\ Redis(ReserveBudget(s), ok)
            /\ \/ Ends(s, st[s], "budget_blocked")
               \/ Goes(s, [st[s] EXCEPT !.budget = ok], "admit") /\ tasks' = tasks
      BY <1>5, Zenon DEF Reserve
    <2>2. Untold(redis') /\ faults' \in Nat /\ faults <= faults'
      BY <2>1, UntoldEffects, CallUntold
    <2> DEFINE q == [st[s] EXCEPT !.budget = ok]
    <2>3. SameTurn(st[s], q)
      BY <1>1 DEF SameTurn, TurnFields
    <2>4. Ends(s, st[s], "budget_blocked") \/ (Goes(s, q, "admit") /\ tasks' = tasks)
      BY <2>1
    <2> HIDE DEF q
    <2> QED
      BY <1>1, <1>2, <1>3, <2>2, <2>3, <2>4, WaysInUnsent, EarlyWalk
  <1>6. CASE Admit_(s)
    <2> DEFINE q == [st[s] EXCEPT !.permit = TRUE]
               to == IF world.redis THEN "lease" ELSE AfterAdmission(s)
    <2>1. Goes(s, q, to) /\ tasks' = tasks /\ NoRedis
      BY <1>6 DEF Admit_
    <2>2. to \in Unsent
      BY <1>4, WaysInUnsent
    <2>3. SameTurn(st[s], q)
      BY <1>1 DEF SameTurn, TurnFields
    <2> HIDE DEF q, to
    <2> QED
      BY <1>2, <1>3, <2>1, <2>2, <2>3, NoCallUntold, EarlyWalk
  <1>7. CASE Overloaded(s)
    <2>1. Ends(s, st[s], "overloaded") /\ NoRedis
      BY <1>7 DEF Overloaded
    <2> QED
      BY <1>1, <1>2, <1>3, <2>1, NoCallUntold, EarlyWalk
  <1>8. CASE Lease(s)
    <2>1. PICK ok \in BOOLEAN :
            /\ Redis(AcquireAdmission(s), ok)
            /\ \/ Ends(s, st[s], "overloaded")
               \/ Goes(s, [st[s] EXCEPT !.lease = ok], AfterAdmission(s)) /\ tasks' = tasks
      BY <1>8, Zenon DEF Lease
    <2>2. Untold(redis') /\ faults' \in Nat /\ faults <= faults'
      BY <2>1, UntoldEffects, CallUntold
    <2> DEFINE q == [st[s] EXCEPT !.lease = ok]
    <2>3. SameTurn(st[s], q)
      BY <1>1 DEF SameTurn, TurnFields
    <2>4. Ends(s, st[s], "overloaded") \/ (Goes(s, q, AfterAdmission(s)) /\ tasks' = tasks)
      BY <2>1
    <2> HIDE DEF q
    <2> QED
      BY <1>1, <1>2, <1>3, <1>4, <2>2, <2>3, <2>4, EarlyWalk
  <1>9. CASE Tokens(s)
    <2>1. /\ NoRedis \/ \E ok \in (IF world.redis THEN BOOLEAN ELSE {TRUE}) :
                         Redis(IF world.redis THEN SharedTokens(s) ELSE redis, ok)
          /\ (\E reply : Ends(s, st[s], reply))
             \/ (\E r : Goes(s, [st[s] EXCEPT !.reserved = r], "deliver") /\ tasks' = tasks)
      BY <1>9, Zenon DEF Tokens
    <2>2. Untold(redis') /\ faults' \in Nat /\ faults <= faults'
      <3>1. Untold(IF world.redis THEN SharedTokens(s) ELSE redis)
        BY UntoldEffects
      <3> QED
        BY <2>1, <3>1, NoCallUntold, CallUntold
    <2>3. CASE \E r : Goes(s, [st[s] EXCEPT !.reserved = r], "deliver") /\ tasks' = tasks
      <3>1. PICK r : Goes(s, [st[s] EXCEPT !.reserved = r], "deliver") /\ tasks' = tasks
        BY <2>3
      <3> DEFINE q == [st[s] EXCEPT !.reserved = r]
      <3>2. SameTurn(st[s], q) /\ Goes(s, q, "deliver")
        BY <1>1, <3>1 DEF SameTurn, TurnFields
      <3> HIDE DEF q
      <3> QED
        BY <1>2, <1>3, <2>2, <3>1, <3>2, WaysInUnsent, EarlyWalk
    <2> QED
      BY <1>1, <1>2, <1>3, <2>1, <2>2, <2>3, EarlyWalk
  <1> QED
    BY <1>5, <1>6, <1>7, <1>8, <1>9

-----------------------------------------------------------------------------
(* Delivery.                                                               *)

(* An answer to charge: its status is known from here on.                  *)
LEMMA SentWalk ==
  ASSUME BooksShape, NEW s \in Slots, st[s].pc = "deliver",
         NEW q, TurnFields \subseteq DOMAIN q, q.status \in Paid, q.reply = st[s].reply,
         q.at = st[s].at, q.guard = st[s].guard, q.canary = st[s].canary,
         NEW to \in {"relay", "charge"}, Goes(s, q, to), tasks' = tasks, NoRedis,
         UNCHANGED <<world, calls, now, ledger, drops>>
  PROVE  Walks(s)
PROOF
  <1>1. DOMAIN st = Slots /\ TurnFits(st[s]) /\ st[s].pc \in Unsent
    BY WaysInUnsent DEF BooksShape
  <1>2. /\ DOMAIN st' = Slots /\ \A x \in Slots \ {s} : st'[x] = st[x]
        /\ SameTurn(q, st'[s]) /\ st'[s].pc = to
    BY <1>1, GoesTo
  <1>3. /\ TurnFields \subseteq DOMAIN st'[s] /\ st'[s].status \in Paid /\ st'[s].reply = "" /\ st'[s].at = ""
        /\ st'[s].guard = st[s].guard /\ st'[s].canary = st[s].canary /\ st[s].status = ""
        /\ st[s].guard \in BOOLEAN /\ st[s].canary \in BOOLEAN
    BY <1>1, <1>2 DEF SameTurn, TurnFits
  <1>4. to \in Accounting /\ to # "done" /\ to \notin Unsent
    BY DEF Accounting, Unsent, Undelivered, Planned
  <1>5. st[s].guard = st[s].canary
    BY <1>1 DEF TurnFits
  <1>6. TurnFits(st'[s])
    BY <1>2, <1>3, <1>4, <1>5 DEF TurnFits
  <1>7. Lawful(st[s], st'[s])
    <2>1. Booked(st'[s]) = FALSE /\ Booked(st[s]) = FALSE
      BY <1>2, <1>3 DEF Booked, Paid
    <2>2. st[s].pc \notin Recorded \cup {"c_record"}
      BY DEF Recorded
    <2> QED
      BY <1>2, <1>3, <2>1, <2>2 DEF Lawful
  <1>8. SlotMoves(s)
    BY <1>2, <1>6, <1>7 DEF SlotMoves
  <1>9. SharedMoves(s)
    BY NoCallUntold, UntoldMoves
  <1> QED
    BY <1>8, <1>9 DEF Walks

LEMMA AnsweredTurn ==
  ASSUME BooksShape, NEW s \in Slots, NEW k, NEW usage
  PROVE  SameTurn(st[s], Answered(s, k, usage))
PROOF
  <1>1. TurnFields \subseteq DOMAIN st[s]
    BY SameAsItself
  <1> DEFINE tokens == usage_tokens(usage, D(s).estimate, world.completion)
             q == [st[s] EXCEPT !.served = st[s].plan[k], !.tried = Attempted(s, k),
                     !.tokens = tokens.tokens, !.estimated = tokens.estimated \/ calls[s].stream]
  <1>2. Answered(s, k, usage) = q
    BY DEF Answered
  <1> HIDE DEF tokens
  <1>3. SameTurn(st[s], q)
    BY <1>1 DEF TurnFields, SameTurn
  <1> HIDE DEF q
  <1> QED
    BY <1>2, <1>3

(* An error that is answered: no charge, and a report of the canary that   *)
(* is awaited or left to a task.                                           *)
LEMMA ErrorWalk ==
  ASSUME BooksShape, NEW s \in Slots, DeliveredError(s)
  PROVE  Walks(s)
PROOF
  <1>1. TurnFields \subseteq DOMAIN st[s] /\ DOMAIN st = Slots /\ TurnFits(st[s])
    BY SameAsItself DEF BooksShape
  <1>2. st[s].pc = "deliver" /\ NoRedis /\ UNCHANGED <<world, calls, now, ledger, drops>>
    BY Zenon DEF DeliveredError, At_, fixed
  <1>3. PICK k :
          LET q == [st[s] EXCEPT !.served = st[s].plan[k], !.tried = Attempted(s, k), !.status = "4xx"]
          IN IF q.guard /\ ~calls[s].stream
             THEN /\ Goes(s, [q EXCEPT !.guard = FALSE, !.budget = FALSE], "c_record")
                  /\ tasks' = tasks \cup (IF q.budget THEN {Task("release_budget", s)} ELSE {})
             ELSE Ends(s, q, "upstream_status")
    BY DEF DeliveredError
  <1> DEFINE q == [st[s] EXCEPT !.served = st[s].plan[k], !.tried = Attempted(s, k), !.status = "4xx"]
             r == [q EXCEPT !.guard = FALSE, !.budget = FALSE]
  <1>4. /\ TurnFields \subseteq DOMAIN q /\ q.status = "4xx" /\ q.reply = st[s].reply
        /\ q.at = st[s].at /\ q.guard = st[s].guard /\ q.canary = st[s].canary
    BY <1>1 DEF TurnFields
  <1>5. \/ Ends(s, q, "upstream_status")
        \/ /\ q.guard /\ Goes(s, r, "c_record")
           /\ tasks' = tasks \cup (IF q.budget THEN {Task("release_budget", s)} ELSE {})
    BY <1>3
  <1> HIDE DEF q
  <1>6. /\ TurnFields \subseteq DOMAIN r /\ r.status = "4xx" /\ r.reply = st[s].reply
        /\ r.at = st[s].at /\ r.guard = FALSE /\ r.canary = st[s].canary
    BY <1>4 DEF TurnFields
  <1> HIDE DEF r
  <1>7. st[s].pc # "done" /\ st[s].pc \in Unsent /\ st[s].at = "" /\ st[s].reply = "" /\ st[s].status = ""
    BY <1>1, <1>2, WaysInUnsent DEF TurnFits
  <1>8. SharedMoves(s)
    BY <1>2, NoCallUntold, UntoldMoves
  <1>9. CASE Ends(s, q, "upstream_status")
    <2>1. MayEnd(s, q, "upstream_status")
      BY <1>4, <1>7 DEF MayEnd
    <2>2. SlotMoves(s) /\ st'[s].pc = "done"
      BY <1>1, <1>4, <1>7, <1>9, <2>1, EndsHere
    <2> QED
      BY <1>2, <1>8, <2>2 DEF Walks
  <1>10. CASE /\ q.guard /\ Goes(s, r, "c_record")
              /\ tasks' = tasks \cup (IF q.budget THEN {Task("release_budget", s)} ELSE {})
    <2>1. /\ DOMAIN st' = Slots /\ \A x \in Slots \ {s} : st'[x] = st[x]
          /\ SameTurn(r, st'[s]) /\ st'[s].pc = "c_record"
      BY <1>1, <1>6, <1>10, GoesTo
    <2>2. /\ TurnFields \subseteq DOMAIN st'[s] /\ st'[s].status = "4xx" /\ st'[s].reply = ""
          /\ st'[s].at = "" /\ st'[s].guard = FALSE /\ st'[s].canary = st[s].canary
          /\ st[s].canary = TRUE
      BY <1>1, <1>4, <1>6, <1>7, <1>10, <2>1 DEF SameTurn, TurnFits
    <2>3. TurnFits(st'[s])
      BY <2>1, <2>2 DEF TurnFits, Unsent, Undelivered, Planned, Accounting
    <2>4. Lawful(st[s], st'[s])
      <3>1. Booked(st'[s]) = FALSE /\ Booked(st[s]) = FALSE
        BY <1>7, <2>2 DEF Booked, Paid
      <3>2. st[s].pc \notin Recorded \cup {"c_record"}
        BY <1>2 DEF Recorded
      <3> QED
        BY <1>2, <2>1, <2>2, <3>1, <3>2 DEF Lawful
    <2>5. tasks \subseteq tasks' /\ \A t \in tasks' \ tasks : t = Task("release_budget", s)
      BY <1>10
    <2>6. SlotMoves(s)
      BY <1>7, <2>1, <2>3, <2>4, <2>5 DEF SlotMoves
    <2> QED
      BY <1>2, <1>8, <2>6 DEF Walks
  <1> QED
    BY <1>5, <1>9, <1>10

LEMMA DeliveryWalks ==
  ASSUME BooksShape, NEW s \in Slots,
         \/ Delivered(s) \/ DeliveredError(s) \/ NotDelivered(s) \/ NotEstablished(s) \/ Established(s)
  PROVE  Walks(s)
PROOF
  <1>1. TurnFields \subseteq DOMAIN st[s]
    BY SameAsItself
  <1>2. st[s].pc = "deliver" /\ NoRedis /\ UNCHANGED <<world, calls, now, ledger, drops>>
    BY Zenon DEF Delivered, DeliveredError, NotDelivered, NotEstablished, Established, At_, fixed
  <1>3. CASE Delivered(s)
    <2>1. PICK k, usage, status :
            status \in Paid /\ Goes(s, [Answered(s, k, usage) EXCEPT !.status = status], "charge")
      BY <1>3 DEF Delivered, Paid
    <2> DEFINE a == Answered(s, k, usage)
               q == [a EXCEPT !.status = status]
    <2>2. Goes(s, q, "charge") /\ tasks' = tasks
      BY <1>3, <2>1 DEF Delivered
    <2>3. SameTurn(st[s], a)
      BY AnsweredTurn
    <2> HIDE DEF a
    <2>4. /\ TurnFields \subseteq DOMAIN q /\ q.status \in Paid /\ q.reply = st[s].reply
          /\ q.at = st[s].at /\ q.guard = st[s].guard /\ q.canary = st[s].canary
      BY <2>1, <2>3 DEF TurnFields, SameTurn
    <2> HIDE DEF q
    <2> QED
      BY <1>2, <2>2, <2>4, SentWalk
  <1>4. CASE Established(s)
    <2>1. PICK k : Goes(s, inject_debug_decision(s, [Answered(s, k, Unreported) EXCEPT !.status = "2xx"]), "relay")
      BY <1>4 DEF Established
    <2> DEFINE a == Answered(s, k, Unreported)
               b == [a EXCEPT !.status = "2xx"]
               q == inject_debug_decision(s, b)
    <2>2. Goes(s, q, "relay") /\ tasks' = tasks
      BY <1>4, <2>1 DEF Established
    <2>3. SameTurn(st[s], a)
      BY AnsweredTurn
    <2> HIDE DEF a
    <2>4. /\ TurnFields \subseteq DOMAIN b /\ b.status \in Paid /\ b.reply = st[s].reply
          /\ b.at = st[s].at /\ b.guard = st[s].guard /\ b.canary = st[s].canary
      BY <2>3 DEF TurnFields, SameTurn, Paid
    <2> HIDE DEF b
    <2>5. /\ TurnFields \subseteq DOMAIN q /\ q.status \in Paid /\ q.reply = st[s].reply
          /\ q.at = st[s].at /\ q.guard = st[s].guard /\ q.canary = st[s].canary
      BY <2>4 DEF TurnFields, inject_debug_decision
    <2> HIDE DEF q
    <2> QED
      BY <1>2, <2>2, <2>5, SentWalk
  <1>5. CASE NotDelivered(s) \/ NotEstablished(s)
    <2> DEFINE q == [st[s] EXCEPT !.tried = Attempted(s, Len(st[s].plan))]
    <2>1. Ends(s, q, "upstream_error")
      BY <1>5 DEF NotDelivered, NotEstablished
    <2>2. SameTurn(st[s], q)
      BY <1>1 DEF TurnFields, SameTurn
    <2> HIDE DEF q
    <2> QED
      BY <1>2, <2>1, <2>2, WaysInUnsent, NoCallUntold, EarlyWalk
  <1> QED
    BY <1>3, <1>4, <1>5, ErrorWalk

-----------------------------------------------------------------------------
(* Accounting, the canary's outcome and the answer.                        *)

LEMMA SomeMishap ==
  /\ \A f, d \in Nat : (f > 0 => f + d # 0) /\ (~(f + d > 0) => f + d = 0)
  /\ \A f, d, x, y \in Nat : f <= x /\ d <= y /\ f + d > 0 => x + y > 0
  /\ \A f, d, x, y \in Nat : f <= x /\ d <= y /\ x + y = 0 => f + d = 0
PROOF
  OBVIOUS

LEMMA CalmWalk ==
  ASSUME BooksShape, NEW s \in Slots, st[s].pc \notin {"charge", "record_cost", "c_record"},
         NEW q, SameTurn(st[s], q), NEW to, Calm(st[s].pc, to), Goes(s, q, to), tasks' = tasks,
         Untold(redis') /\ faults' \in Nat /\ faults <= faults',
         UNCHANGED <<world, calls, now, ledger, drops>>
  PROVE  Walks(s)
PROOF
  <1>1. SlotMoves(s)
    BY GoesOn DEF BooksShape
  <1>2. SharedMoves(s)
    BY UntoldMoves
  <1> QED
    BY <1>1, <1>2 DEF Walks

LEMMA RelayWalks ==
  ASSUME BooksShape, NEW s \in Slots, StreamEnds(s) \/ StreamFails(s)
  PROVE  Walks(s)
PROOF
  <1>1. TurnFields \subseteq DOMAIN st[s] /\ SameTurn(st[s], st[s]) /\ DOMAIN st = Slots /\ TurnFits(st[s])
    BY SameAsItself DEF BooksShape
  <1>2. st[s].pc = "relay" /\ NoRedis /\ UNCHANGED <<world, calls, now, ledger, drops>>
    BY Zenon DEF StreamEnds, StreamFails, At_, fixed
  <1>3. CASE StreamEnds(s)
    <2>1. Goes(s, st[s], "charge") /\ tasks' = tasks
      BY <1>3, Zenon DEF StreamEnds
    <2>2. Calm(st[s].pc, "charge")
      BY <1>2 DEF Calm
    <2> QED
      BY <1>1, <1>2, <2>1, <2>2, NoCallUntold, CalmWalk
  <1>4. CASE StreamFails(s)
    <2>1. Ends(s, st[s], "stream_failed")
      BY <1>4, Zenon DEF StreamFails
    <2>2. MayEnd(s, st[s], "stream_failed") /\ st[s].pc # "done"
      BY <1>1, <1>2 DEF MayEnd, TurnFits
    <2>3. SlotMoves(s)
      BY <1>1, <2>1, <2>2, EndsHere
    <2>4. SharedMoves(s)
      BY <1>2, NoCallUntold, UntoldMoves
    <2> QED
      BY <1>2, <2>3, <2>4 DEF Walks
  <1> QED
    BY <1>3, <1>4

LEMMA ChargeWalks ==
  ASSUME BooksShape, NEW s \in Slots, Charge_(s) \/ ShareCost(s) \/ Settle(s)
  PROVE  Walks(s)
PROOF
  <1>1. TurnFields \subseteq DOMAIN st[s] /\ SameTurn(st[s], st[s]) /\ DOMAIN st = Slots /\ TurnFits(st[s])
    BY SameAsItself DEF BooksShape
  <1>2. UNCHANGED <<world, calls, now, drops, tasks>>
    BY Zenon DEF Charge_, ShareCost, Settle, fixed
  <1>3. CASE Charge_(s)
    <2> DEFINE to == IF world.redis THEN "record_cost" ELSE "usage"
    <2>1. /\ st[s].pc = "charge" /\ NoRedis /\ Goes(s, st[s], to)
          /\ ledger' = record_attributed(ledger, CostOf(s), world.today, KeyOf(s), WorkspaceIdOf(s), world.max_days)
      BY <1>3, Zenon DEF Charge_, At_
    <2>2. Calm(st[s].pc, to) /\ (world.redis => to = "record_cost")
      BY <2>1 DEF Calm
    <2> HIDE DEF to
    <2>3. SlotMoves(s) /\ st'[s].pc = to
      BY <1>1, <1>2, <2>1, <2>2, GoesOn
    <2>4. SharedMoves(s)
      BY <1>2, <2>1, NoCallUntold, UntoldMoves
    <2>5. to # "done"
      BY DEF to
    <2> QED
      BY <1>2, <2>1, <2>2, <2>3, <2>4, <2>5 DEF Walks
  <1>4. CASE ShareCost(s)
    <2> DEFINE to == IF st[s].budget THEN "settle" ELSE "usage"
    <2>1. st[s].pc = "record_cost" /\ Goes(s, st[s], to) /\ ledger' = ledger
      BY <1>4, Zenon DEF ShareCost, At_
    <2>2. Calm(st[s].pc, to)
      BY <2>1 DEF Calm
    <2> HIDE DEF to
    <2>3. SlotMoves(s)
      BY <1>1, <1>2, <2>1, <2>2, GoesOn
    <2>4. PICK ok \in BOOLEAN : Redis(RecordCost(s), ok)
      BY <1>4, Zenon DEF ShareCost
    <2>5. /\ faults' \in Nat /\ faults <= faults' /\ (~ok => faults' > 0)
          /\ redis' = redis \/ redis' = RecordCost(s)
          /\ ok => redis' = RecordCost(s)
      BY <2>4 DEF Redis, RedisCalls, BooksShape
    <2>6. TurnTold(s, RecordCost(s)) /\ Untold(redis)
      BY ToldEffects, UntoldEffects
    <2>7. faults' + drops' = 0 => ok
      <3>1. faults' \in Nat /\ drops' \in Nat
        BY <1>2, <2>5 DEF BooksShape
      <3> QED
        BY <2>5, <3>1, SomeMishap, Zenon
    <2>8. SharedMoves(s)
      BY <1>2, <2>1, <2>5, <2>6, <2>7 DEF SharedMoves, BooksShape
    <2> QED
      BY <1>2, <2>1, <2>3, <2>8 DEF Walks
  <1>5. CASE Settle(s)
    <2> DEFINE q == [st[s] EXCEPT !.budget = FALSE]
    <2>1. st[s].pc = "settle" /\ Goes(s, q, "usage") /\ ledger' = ledger
      BY <1>5 DEF Settle, At_
    <2>2. SameTurn(st[s], q)
      BY <1>1 DEF SameTurn, TurnFields
    <2> HIDE DEF q
    <2>3. Calm(st[s].pc, "usage")
      BY <2>1 DEF Calm
    <2>4. PICK ok \in BOOLEAN : Redis(Unreserved(s), ok)
      BY <1>5, Zenon DEF Settle
    <2>5. Untold(redis') /\ faults' \in Nat /\ faults <= faults'
      BY <2>4, UntoldEffects, CallUntold
    <2> QED
      BY <1>2, <2>1, <2>2, <2>3, <2>5, CalmWalk
  <1> QED
    BY <1>3, <1>4, <1>5

(* The end of the accounting: the canary's guard is consumed, and its      *)
(* outcome is reported next.                                               *)
LEMMA UsageWalks ==
  ASSUME BooksShape, NEW s \in Slots, Usage_(s)
  PROVE  Walks(s)
PROOF
  <1>1. TurnFields \subseteq DOMAIN st[s] /\ DOMAIN st = Slots /\ TurnFits(st[s])
    BY SameAsItself DEF BooksShape
  <1>2. st[s].pc = "usage" /\ UNCHANGED <<world, calls, now, ledger, drops, tasks>>
    BY Zenon DEF Usage_, At_, fixed
  <1>3. PICK ok \in BOOLEAN :
          /\ RedisCalls(UsageEffect(s), PartialUsage(s), ok)
          /\ Goes(s, [st[s] EXCEPT !.accounted = ok \/ ~Corrects(s), !.guard = FALSE],
                  IF st[s].guard THEN "c_record" ELSE "answer")
    BY DEF Usage_
  <1> DEFINE q == [st[s] EXCEPT !.accounted = ok \/ ~Corrects(s), !.guard = FALSE]
             to == IF st[s].guard THEN "c_record" ELSE "answer"
  <1>4. /\ TurnFields \subseteq DOMAIN q /\ q.status = st[s].status /\ q.reply = st[s].reply
        /\ q.at = st[s].at /\ q.guard = FALSE /\ q.canary = st[s].canary
    BY <1>1 DEF TurnFields
  <1>5. Goes(s, q, to)
    BY <1>3
  <1> HIDE DEF q
  <1>6. /\ DOMAIN st' = Slots /\ \A x \in Slots \ {s} : st'[x] = st[x]
        /\ SameTurn(q, st'[s]) /\ st'[s].pc = to
    BY <1>1, <1>4, <1>5, GoesTo
  <1>7. /\ to # "done" /\ to \notin Unsent \cup Accounting \cup {"relay", "charge", "record_cost"}
        /\ to = "c_record" => st[s].canary
        /\ st[s].guard => to = "c_record"
    BY <1>1 DEF TurnFits, Unsent, Undelivered, Planned, Accounting
  <1> HIDE DEF to
  <1>8. /\ TurnFields \subseteq DOMAIN st'[s] /\ st'[s].status = st[s].status /\ st'[s].reply = ""
        /\ st'[s].at = "" /\ st'[s].guard = FALSE /\ st'[s].canary = st[s].canary
        /\ st[s].reply = "" /\ st[s].at = "" /\ st[s].canary \in BOOLEAN
    BY <1>1, <1>2, <1>4, <1>6 DEF SameTurn, TurnFits
  <1>9. TurnFits(st'[s])
    BY <1>6, <1>7, <1>8 DEF TurnFits
  <1>10. Lawful(st[s], st'[s])
    <2>1. Booked(st'[s]) = Booked(st[s])
      BY <1>2, <1>6, <1>7, <1>8 DEF Booked
    <2>2. st[s].pc \notin Recorded \cup {"c_record"}
      BY <1>2 DEF Recorded
    <2> QED
      BY <1>2, <1>6, <1>7, <1>8, <2>1, <2>2 DEF Lawful
  <1>11. SlotMoves(s)
    BY <1>2, <1>6, <1>7, <1>9, <1>10 DEF SlotMoves
  <1>12. SharedMoves(s)
    <2>1. Untold(redis') /\ faults' \in Nat /\ faults <= faults'
      BY <1>3, UntoldPartials, CallsUntold
    <2> QED
      BY <1>2, <2>1, UntoldMoves
  <1> QED
    BY <1>2, <1>11, <1>12 DEF Walks

LEMMA OutcomeWalks ==
  ASSUME BooksShape, NEW s \in Slots, CanaryRecord(s) \/ CanaryCheck(s) \/ CanaryTrip(s)
  PROVE  Walks(s)
PROOF
  <1>1. TurnFields \subseteq DOMAIN st[s] /\ SameTurn(st[s], st[s]) /\ DOMAIN st = Slots /\ TurnFits(st[s])
    BY SameAsItself DEF BooksShape
  <1>2. UNCHANGED <<world, calls, now, ledger, drops, tasks>>
    BY Zenon DEF CanaryRecord, CanaryCheck, CanaryTrip, fixed
  <1>3. CASE CanaryRecord(s)
    <2>1. st[s].pc = "c_record" /\ Goes(s, st[s], "c_snapshot")
      BY <1>3, Zenon DEF CanaryRecord, At_
    <2>2. Calm(st[s].pc, "c_snapshot")
      BY <2>1 DEF Calm
    <2>3. SlotMoves(s)
      BY <1>1, <1>2, <2>1, <2>2, GoesOn
    <2> DEFINE well == st[s].status = "2xx"
    <2>4. PICK ok \in BOOLEAN, latency \in world.canary.latencies : Redis(Observed(s, well, latency), ok)
      BY <1>3, Zenon DEF CanaryRecord
    <2>5. /\ faults' \in Nat /\ faults <= faults' /\ (~ok => faults' > 0)
          /\ redis' = redis \/ redis' = Observed(s, well, latency)
          /\ ok => redis' = Observed(s, well, latency)
      BY <2>4 DEF Redis, RedisCalls, BooksShape
    <2>6. CanaryTold(s, well, Observed(s, well, latency)) /\ Untold(redis)
      BY ToldEffects, UntoldEffects
    <2>7. faults' + drops' = 0 => ok
      <3>1. faults' \in Nat /\ drops' \in Nat
        BY <1>2, <2>5 DEF BooksShape
      <3> QED
        BY <2>5, <3>1, SomeMishap, Zenon
    <2>8. SharedMoves(s)
      <3>1. drops' \in Nat /\ drops <= drops'
        BY <1>2 DEF BooksShape
      <3>2. Untold(redis') \/ CanaryTold(s, well, redis')
        BY <2>5, <2>6, Zenon
      <3>3. faults' + drops' = 0 => CanaryTold(s, well, redis')
        BY <2>5, <2>6, <2>7, Zenon
      <3> HIDE DEF well
      <3>4. st[s].pc # "record_cost"
        BY <2>1
      <3> QED
        BY <2>1, <2>5, <3>1, <3>2, <3>3, <3>4, Zenon DEF SharedMoves, well
    <2> QED
      BY <1>2, <2>1, <2>3, <2>8 DEF Walks
  <1>4. CASE CanaryCheck(s)
    <2>1. PICK ok, reason :
            /\ ok \in BOOLEAN /\ Redis(WithCanary(Snapshot), ok)
            /\ Goes(s, [st[s] EXCEPT !.reason = reason], IF reason = "" THEN "answer" ELSE "c_trip")
      BY <1>4 DEF CanaryCheck
    <2> DEFINE q == [st[s] EXCEPT !.reason = reason]
               to == IF reason = "" THEN "answer" ELSE "c_trip"
    <2>2. st[s].pc = "c_snapshot" /\ Goes(s, q, to)
      BY <1>4, <2>1 DEF CanaryCheck, At_
    <2>3. SameTurn(st[s], q)
      BY <1>1 DEF SameTurn, TurnFields
    <2>4. Calm(st[s].pc, to)
      BY <2>2 DEF Calm
    <2> HIDE DEF q, to
    <2>5. Untold(redis') /\ faults' \in Nat /\ faults <= faults'
      BY <2>1, UntoldEffects, CallUntold
    <2> QED
      BY <1>2, <2>2, <2>3, <2>4, <2>5, CalmWalk
  <1>5. CASE CanaryTrip(s)
    <2>1. st[s].pc = "c_trip" /\ Goes(s, st[s], "answer")
      BY <1>5, Zenon DEF CanaryTrip, At_
    <2>2. Calm(st[s].pc, "answer")
      BY <2>1 DEF Calm
    <2>3. PICK ok \in BOOLEAN : Redis(Tripped(st[s].reason), ok)
      BY <1>5, Zenon DEF CanaryTrip
    <2>4. Untold(redis') /\ faults' \in Nat /\ faults <= faults'
      BY <2>3, UntoldEffects, CallUntold
    <2> QED
      BY <1>1, <1>2, <2>1, <2>2, <2>4, CalmWalk
  <1> QED
    BY <1>3, <1>4, <1>5

LEMMA AnswerWalks ==
  ASSUME BooksShape, NEW s \in Slots, Answer(s)
  PROVE  Walks(s)
PROOF
  <1>1. TurnFields \subseteq DOMAIN st[s] /\ SameTurn(st[s], st[s]) /\ DOMAIN st = Slots /\ TurnFits(st[s])
    BY SameAsItself DEF BooksShape
  <1>2. st[s].pc = "answer" /\ NoRedis /\ UNCHANGED <<world, calls, now, ledger, drops>>
    BY Zenon DEF Answer, At_, fixed
  <1> DEFINE q == AnswerHeaders(s)
             reply == IF st[s].status = "2xx" THEN "served" ELSE "upstream_status"
  <1>3. Ends(s, q, reply)
    BY Zenon DEF Answer
  <1>4. SameTurn(st[s], q)
    <2>1. PICK h : AnswerHeaders(s) = IF calls[s].stream THEN st[s]
                     ELSE inject_debug_decision(s, [st[s] EXCEPT !.head = h])
      BY DEF AnswerHeaders
    <2> DEFINE r == [st[s] EXCEPT !.head = h]
    <2>2. SameTurn(st[s], r)
      BY <1>1 DEF SameTurn, TurnFields
    <2>3. q = IF calls[s].stream THEN st[s] ELSE inject_debug_decision(s, r)
      BY <2>1
    <2> HIDE DEF r, q
    <2>4. SameTurn(st[s], inject_debug_decision(s, r))
      BY <2>2 DEF SameTurn, TurnFields, inject_debug_decision
    <2> QED
      BY <1>1, <2>3, <2>4
  <1> HIDE DEF q
  <1>5. reply # "stream_failed"
    OBVIOUS
  <1> HIDE DEF reply
  <1>6. MayEnd(s, q, reply) /\ st[s].pc # "done"
    BY <1>1, <1>2, <1>4, <1>5 DEF MayEnd, TurnFits, SameTurn
  <1>7. SlotMoves(s)
    BY <1>1, <1>3, <1>4, <1>6, EndsHere DEF SameTurn
  <1>8. SharedMoves(s)
    BY <1>2, NoCallUntold, UntoldMoves
  <1> QED
    BY <1>2, <1>7, <1>8 DEF Walks

-----------------------------------------------------------------------------
(* A client leaves, and the pending call may still arrive.                 *)

LEMMA PendingTells ==
  ASSUME BooksShape, NEW s \in Slots, Awaits(s), NEW r \in Pending(s)
  PROVE  \/ Untold(r)
         \/ st[s].pc = "record_cost" /\ TurnTold(s, r)
         \/ st[s].pc = "c_record" /\ CanaryTold(s, st[s].status = "2xx", r)
PROOF
  <1>1. \A x \in PartialKeyStage(s) : Untold(x)
    BY UntoldPartials
  <1>2. \A x \in {UsageEffect(s)} \cup PartialUsage(s) : Untold(x)
    BY UntoldPartials
  <1>3. Untold(Tripped(st[s].reason)) /\ Untold(redis) /\ Untold(WithCanary(Snapshot))
    BY UntoldEffects
  <1>4. Untold(IF exposure_limited(redis.canary, world.canary.max_requests, world.canary.window, now)
               THEN redis ELSE WithCanary(admit_exposure(redis.canary, world.canary.window, now)))
    BY UntoldEffects
  <1>5. Untold(SharedTokens(s)) /\ Untold(WithCounts(admit_global(A, redis.counts).counts))
        /\ Untold(ReserveBudget(s)) /\ Untold(AcquireAdmission(s)) /\ Untold(Unreserved(s))
    BY UntoldEffects
  <1>6. CASE st[s].pc = "arrive"
    BY <1>5, <1>6 DEF Pending, At_
  <1>7. CASE st[s].pc = "auth"
    BY <1>1, <1>7 DEF Pending, At_
  <1>8. CASE st[s].pc \in {"snapshot", "c_snapshot"}
    BY <1>3, <1>8 DEF Pending, At_
  <1>9. CASE st[s].pc = "expose"
    BY <1>4, <1>9 DEF Pending, At_
  <1>10. CASE st[s].pc = "tokens"
    BY <1>5, <1>10 DEF Pending, At_
  <1>11. CASE st[s].pc = "record_cost"
    BY <1>11, ToldEffects DEF Pending, At_
  <1>12. CASE st[s].pc = "usage"
    BY <1>2, <1>12 DEF Pending, At_
  <1>13. CASE st[s].pc = "c_record"
    <2>1. \E l : r = Observed(s, st[s].status = "2xx", l)
      BY <1>13 DEF Pending, At_
    <2> QED
      BY <1>13, <2>1, ToldEffects, Zenon
  <1>14. CASE st[s].pc = "c_trip"
    BY <1>3, <1>14 DEF Pending, At_
  <1>15. CASE st[s].pc \in {"reserve", "lease", "settle"}
    BY <1>5, <1>15 DEF Pending, At_
  <1>16. CASE st[s].pc \in {"deliver", "relay", "decide", "headers", "admit", "charge"}
    BY <1>3, <1>16 DEF Pending, At_
  <1> QED
    BY <1>6, <1>7, <1>8, <1>9, <1>10, <1>11, <1>12, <1>13, <1>14, <1>15, <1>16 DEF Awaits, At_

LEMMA DropWalks ==
  ASSUME BooksShape, NEW s \in Slots, Drop(s)
  PROVE  Walks(s)
PROOF
  <1>1. TurnFields \subseteq DOMAIN st[s] /\ DOMAIN st = Slots /\ TurnFits(st[s])
    BY SameAsItself DEF BooksShape
  <1> DEFINE q == [st[s] EXCEPT !.at = st[s].pc, !.budget = st[s].budget /\ ~At_(s, "settle")]
  <1>2. /\ Awaits(s) /\ redis' \in {redis} \cup Pending(s) /\ Ends(s, q, "gone")
        /\ drops' = drops + 1 /\ faults' = faults /\ UNCHANGED <<world, calls, now, ledger>>
    BY DEF Drop, fixed
  <1>3. /\ TurnFields \subseteq DOMAIN q /\ q.status = st[s].status /\ q.at = st[s].pc
        /\ q.guard = st[s].guard /\ q.canary = st[s].canary
    BY <1>1 DEF TurnFields
  <1> HIDE DEF q
  <1>4. st[s].pc # "done"
    BY <1>2 DEF Awaits, At_
  <1>5. MayEnd(s, q, "gone")
    BY <1>3 DEF MayEnd
  <1>6. SlotMoves(s) /\ st'[s].pc = "done"
    BY <1>1, <1>2, <1>3, <1>4, <1>5, EndsHere
  <1>7. \/ Untold(redis')
        \/ st[s].pc = "record_cost" /\ TurnTold(s, redis')
        \/ st[s].pc = "c_record" /\ CanaryTold(s, st[s].status = "2xx", redis')
    BY <1>2, PendingTells, UntoldEffects
  <1>8. faults' \in Nat /\ drops' \in Nat /\ faults <= faults' /\ drops <= drops' /\ drops' > 0
    BY <1>2 DEF BooksShape
  <1>9. ~(faults' + drops' = 0)
    <2>1. \A f, d \in Nat : d > 0 => ~(f + d = 0)
      OBVIOUS
    <2> QED
      BY <1>8, <2>1, Zenon
  <1>10. SharedMoves(s)
    BY <1>7, <1>8, <1>9, Zenon DEF SharedMoves
  <1> QED
    BY <1>2, <1>6, <1>10 DEF Walks

-----------------------------------------------------------------------------
(* The inductive invariant of the turns: the shape, one day in the ledger, *)
(* as many turns in it as are booked, none in the fleet's that is not, and *)
(* a booked turn is shared, about to be, or owed to a mishap.              *)
Turns == {s \in DOMAIN calls : Booked(st[s])}

Shared(s) == s \in redis.counted \/ st[s].pc = "record_cost" \/ faults + drops > 0

TurnsInv ==
  /\ BooksShape
  /\ world.today \in Nat /\ world.max_days \in Nat \ {0}
  /\ DOMAIN calls \subseteq Slots
  /\ \A s \in Slots \ DOMAIN calls : st[s].pc = "done"
  /\ DOMAIN ledger \subseteq {world.today}
  /\ At(ledger, world.today, EmptyBucket).total.n = Cardinality(Turns)
  /\ redis.counted \subseteq Turns
  /\ world.redis => \A s \in Turns : Shared(s)

-----------------------------------------------------------------------------
(* Every turn is in the ledger once.                                       *)

LEMMA LedgerGainsOne ==
  ASSUME NEW days, NEW today \in Nat, NEW max \in Nat \ {0}, DOMAIN days \subseteq {today},
         NEW cost, NEW key, NEW ws
  PROVE  /\ DOMAIN record_attributed(days, cost, today, key, ws, max) = {today}
         /\ At(record_attributed(days, cost, today, key, ws, max), today, EmptyBucket).total.n
             = At(days, today, EmptyBucket).total.n + 1
PROOF
  <1> DEFINE b == At(days, today, EmptyBucket)
             bucket == [total |-> add_turn(b.total, cost), estimated_n |-> b.estimated_n + One(cost.estimated),
                        by_route |-> Charge(b.by_route, cost.route, cost),
                        by_key |-> Charge(b.by_key, key, cost),
                        by_workspace |-> ChargeWorkspace(b.by_workspace, ws, cost)]
             put == Put(days, today, bucket)
             kept == {d \in DOMAIN put : Cardinality({e \in DOMAIN put : e > d}) < max}
             more == record_attributed(days, cost, today, key, ws, max)
  <1>1. more = Newest(put, max)
    BY DEF record_attributed
  <1>2. bucket.total.n = b.total.n + 1
    BY DEF add_turn
  <1> HIDE DEF bucket
  <1>3. DOMAIN put = {today} /\ put[today] = bucket
    BY DEF Put
  <1>4. Newest(put, max) = [x \in kept |-> put[x]]
    BY Zenon DEF Newest, Restrict
  <1> HIDE DEF put
  <1>5. {e \in DOMAIN put : e > today} = {}
    BY <1>3
  <1>6. Cardinality({e \in DOMAIN put : e > today}) < max
    BY <1>5, FS_EmptySet
  <1>7. kept = {today}
    BY <1>3, <1>6
  <1> HIDE DEF kept, more
  <1>8. DOMAIN more = {today} /\ more[today] = bucket
    BY <1>1, <1>3, <1>4, <1>7
  <1>9. At(more, today, EmptyBucket) = bucket
    BY <1>8 DEF At
  <1> QED
    BY <1>2, <1>8, <1>9 DEF more

(* Whatever a call does, the shared state keeps its fields.                *)
LEMMA RolloutKeepsShape ==
  ASSUME NEW c, RolloutFields \subseteq DOMAIN c
  PROVE  /\ \A w, n : RolloutFields \subseteq DOMAIN Rolled(c, w, n)
         /\ \A reason, hold, n : RolloutFields \subseteq DOMAIN trip_canary(c, reason, hold, n)
         /\ \A o, w, n : RolloutFields \subseteq DOMAIN record_canary(c, o, w, n)
PROOF
  <1>1. \A n : DOMAIN Expired(c, n) = DOMAIN c
    BY DEF Expired
  <1>2. \A w, n : DOMAIN Rolled(c, w, n) = DOMAIN c
    BY <1>1 DEF Rolled
  <1>3. \A reason, hold, n : DOMAIN trip_canary(c, reason, hold, n) = DOMAIN c
    BY <1>1 DEF trip_canary
  <1>4. \A o, w, n : DOMAIN record_canary(c, o, w, n) = DOMAIN c
    BY <1>2 DEF record_canary
  <1> QED
    BY <1>2, <1>3, <1>4

LEMMA ToldKeepsShape ==
  ASSUME BooksShape, NEW r, NEW s, NEW well, Untold(r) \/ TurnTold(s, r) \/ CanaryTold(s, well, r)
  PROVE  StoreFields \subseteq DOMAIN r /\ RolloutFields \subseteq DOMAIN r.canary
PROOF
  <1>1. RolloutFields \subseteq DOMAIN redis.canary
    BY DEF BooksShape
  <1>2. RolloutFields \subseteq DOMAIN Snapshot
    BY <1>1, RolloutKeepsShape DEF Snapshot, canary_snapshot
  <1>3. CASE Untold(r)
    BY <1>1, <1>2, <1>3, RolloutKeepsShape DEF Untold, SameCounts
  <1>4. CASE TurnTold(s, r)
    BY <1>4 DEF TurnTold, SameCounts
  <1>5. CASE CanaryTold(s, well, r)
    BY <1>1, <1>5, RolloutKeepsShape DEF CanaryTold
  <1> QED
    BY <1>3, <1>4, <1>5

LEMMA WalksKeepTurns ==
  ASSUME TurnsInv, NEW s \in Slots, Walks(s)
  PROVE  TurnsInv'
PROOF
  <1>1. /\ BooksShape /\ TurnFits(st[s]) /\ DOMAIN calls \subseteq Slots
        /\ world.today \in Nat /\ world.max_days \in Nat \ {0}
    BY DEF TurnsInv, BooksShape
  <1>2. /\ DOMAIN st' = Slots /\ \A x \in Slots \ {s} : st'[x] = st[x]
        /\ st[s].pc # "done" /\ TurnFits(st'[s]) /\ Lawful(st[s], st'[s])
        /\ world' = world /\ calls' = calls /\ SharedMoves(s)
    BY DEF Walks, SlotMoves
  <1>3. s \in DOMAIN calls
    BY <1>2 DEF TurnsInv
  <1>4. /\ faults' \in Nat /\ drops' \in Nat /\ faults <= faults' /\ drops <= drops'
        /\ faults \in Nat /\ drops \in Nat
    BY <1>1, <1>2 DEF SharedMoves, BooksShape
  <1>5. /\ StoreFields \subseteq DOMAIN redis' /\ RolloutFields \subseteq DOMAIN redis'.canary
        /\ \/ redis'.counted = redis.counted
           \/ st[s].pc = "record_cost" /\ redis'.counted = redis.counted \cup {s}
    <2>1. \/ Untold(redis')
          \/ st[s].pc = "record_cost" /\ TurnTold(s, redis')
          \/ st[s].pc = "c_record" /\ CanaryTold(s, st[s].status = "2xx", redis')
      BY <1>2 DEF SharedMoves
    <2>2. StoreFields \subseteq DOMAIN redis' /\ RolloutFields \subseteq DOMAIN redis'.canary
      BY <1>1, <2>1, ToldKeepsShape
    <2> QED
      BY <2>1, <2>2, Zenon DEF Untold, TurnTold, CanaryTold
  <1>6. BooksShape'
    BY <1>1, <1>2, <1>4, <1>5 DEF BooksShape
  <1>7. \A x \in DOMAIN calls : x # s => st'[x] = st[x]
    BY <1>1, <1>2
  <1>8. CASE st[s].pc = "charge" /\ st'[s].pc # "done"
    <2>1. ~Booked(st[s]) /\ Booked(st'[s])
      BY <1>2, <1>8 DEF Lawful, Booked
    <2>2. Turns' = Turns \cup {s} /\ s \notin Turns
      BY <1>2, <1>3, <1>7, <2>1 DEF Turns
    <2>3. Cardinality(Turns') = Cardinality(Turns) + 1
      <3>1. IsFiniteSet(Turns)
        BY <1>1, GatewayAssumption, FS_Subset DEF Turns
      <3> QED
        BY <2>2, <3>1, FS_AddElement
    <2>4. /\ ledger' = record_attributed(ledger, CostOf(s), world.today, KeyOf(s), WorkspaceIdOf(s),
                                         world.max_days)
          /\ world.redis => st'[s].pc = "record_cost"
      BY <1>8 DEF Walks
    <2>5. /\ DOMAIN ledger' = {world.today}
          /\ At(ledger', world.today, EmptyBucket).total.n = At(ledger, world.today, EmptyBucket).total.n + 1
      <3>1. DOMAIN ledger \subseteq {world.today}
        BY DEF TurnsInv
      <3> DEFINE more == record_attributed(ledger, CostOf(s), world.today, KeyOf(s), WorkspaceIdOf(s),
                                           world.max_days)
      <3>2. /\ DOMAIN more = {world.today}
            /\ At(more, world.today, EmptyBucket).total.n = At(ledger, world.today, EmptyBucket).total.n + 1
        <4>1. world.today \in Nat /\ world.max_days \in Nat \ {0}
          BY <1>1
        <4>2. \A cost, key, ws :
                /\ DOMAIN record_attributed(ledger, cost, world.today, key, ws, world.max_days) = {world.today}
                /\ At(record_attributed(ledger, cost, world.today, key, ws, world.max_days),
                      world.today, EmptyBucket).total.n
                    = At(ledger, world.today, EmptyBucket).total.n + 1
          BY <3>1, <4>1, LedgerGainsOne
        <4> QED
          BY <4>2, Zenon
      <3>3. ledger' = more
        BY <2>4
      <3> HIDE DEF more
      <3> QED
        BY <3>2, <3>3
    <2>6. redis'.counted = redis.counted
      BY <1>5, <1>8
    <2>7. \A x \in Turns : Shared(x) => Shared(x)'
      <3> SUFFICES ASSUME NEW x \in Turns, Shared(x) PROVE Shared(x)'
        OBVIOUS
      <3>1. x # s /\ x \in DOMAIN calls
        BY <2>2 DEF Turns
      <3>2. faults + drops > 0 => faults' + drops' > 0
        BY <1>4, SomeMishap, Zenon
      <3> QED
        BY <1>7, <2>6, <3>1, <3>2, Zenon DEF Shared
    <2>8. world.redis => \A x \in Turns' : Shared(x)'
      BY <2>2, <2>4, <2>7 DEF Shared, TurnsInv
    <2> QED
      BY <1>1, <1>2, <1>6, <1>7, <2>2, <2>3, <2>5, <2>6, <2>8 DEF TurnsInv
  <1>9. CASE ~(st[s].pc = "charge" /\ st'[s].pc # "done")
    <2>1. Booked(st[s]) = Booked(st'[s])
      BY <1>2, <1>9 DEF Lawful
    <2>2. Turns' = Turns
      BY <1>2, <1>3, <1>7, <2>1 DEF Turns
    <2>3. ledger' = ledger
      BY <1>9 DEF Walks
    <2>4. st[s].pc = "record_cost" => s \in Turns
      BY <1>1, <1>3 DEF Turns, Booked, TurnFits
    <2>5. redis'.counted \subseteq Turns
      BY <1>5, <2>4 DEF TurnsInv
    <2>6. \A x \in Turns : Shared(x) => Shared(x)'
      <3> SUFFICES ASSUME NEW x \in Turns, Shared(x) PROVE Shared(x)'
        OBVIOUS
      <3>1. x \in DOMAIN calls
        BY DEF Turns
      <3>2. CASE faults' + drops' > 0
        BY <3>2 DEF Shared
      <3>3. CASE ~(faults' + drops' > 0)
        <4>1. faults' + drops' = 0 /\ ~(faults + drops > 0)
          BY <1>4, <3>3, SomeMishap, Zenon
        <4>2. redis.counted \subseteq redis'.counted
          BY <1>5
        <4>3. st[s].pc = "record_cost" => s \in redis'.counted
          BY <1>2, <4>1 DEF SharedMoves, TurnTold
        <4> QED
          BY <1>7, <3>1, <4>1, <4>2, <4>3 DEF Shared
      <3> QED
        BY <3>2, <3>3
    <2>7. world.redis => \A x \in Turns' : Shared(x)'
      BY <2>2, <2>6 DEF TurnsInv
    <2> QED
      BY <1>1, <1>2, <1>3, <1>6, <1>7, <2>2, <2>3, <2>5, <2>7 DEF TurnsInv
  <1> QED
    BY <1>8, <1>9

LEMMA StepWalks ==
  ASSUME BooksShape, NEW s \in Slots,
         \/ Refuse(s) \/ PreflightLocal(s) \/ PreflightGlobal(s) \/ PreflightKey(s)
         \/ RefuseOverride(s) \/ Decide(s) \/ CanarySnapshot(s) \/ CanaryExpose(s)
         \/ Headers(s) \/ Record(s) \/ Reserve(s)
         \/ Admit_(s) \/ Overloaded(s) \/ Lease(s) \/ Tokens(s)
         \/ Delivered(s) \/ DeliveredError(s) \/ NotDelivered(s) \/ NotEstablished(s)
         \/ Established(s) \/ StreamEnds(s) \/ StreamFails(s)
         \/ Charge_(s) \/ ShareCost(s) \/ Settle(s) \/ Usage_(s) \/ Answer(s)
         \/ CanaryRecord(s) \/ CanaryCheck(s) \/ CanaryTrip(s) \/ Drop(s)
  PROVE  Walks(s)
PROOF
  BY PreflightWalks, DecisionWalks, ExposeWalks, RecordWalks, AdmissionWalks, DeliveryWalks,
     RelayWalks, ChargeWalks, UsageWalks, OutcomeWalks, AnswerWalks, DropWalks

(* What a background task does: a report that was left to it is made, or   *)
(* is lost with a mishap.                                                  *)
BackgroundMoves(t) ==
  /\ UNCHANGED <<world, calls, st, now, ledger, drops>>
  /\ faults' \in Nat /\ faults <= faults'
  /\ \/ t.kind # "c_record" /\ Untold(redis')
     \/ t.kind = "c_record" /\ (Untold(redis') \/ CanaryTold(t.id, FALSE, redis'))
  /\ t.kind = "c_record" /\ faults' + drops' = 0 => CanaryTold(t.id, FALSE, redis')
  /\ tasks \ {t} \subseteq tasks'
  /\ \A x \in tasks' \ tasks :
       \/ x = [t EXCEPT !.kind = "c_snapshot"]
       \/ \E reason : x = [t EXCEPT !.kind = "c_trip", !.reason = reason]

LEMMA BackgroundTells ==
  ASSUME BooksShape, Background
  PROVE  \E t \in tasks : BackgroundMoves(t)
PROOF
  <1>1. PICK t \in tasks : Release(t) \/ BackgroundRecord(t) \/ BackgroundCheck(t) \/ BackgroundTrip(t)
    BY DEF Background
  <1>2. UNCHANGED <<world, calls, st, now, ledger, drops>>
    BY DEF Background, fixed
  <1>3. CASE Release(t)
    <2>1. PICK ok \in BOOLEAN :
            Redis(IF t.kind = "release_lease" THEN [redis EXCEPT !.leases = redis.leases \ {t.id}]
                  ELSE Unreserved(t.id), ok)
      BY <1>3 DEF Release
    <2>2. t.kind # "c_record" /\ tasks' = tasks \ {t}
      BY <1>3 DEF Release, Becomes
    <2>3. Untold(IF t.kind = "release_lease" THEN [redis EXCEPT !.leases = redis.leases \ {t.id}]
                 ELSE Unreserved(t.id))
      BY UntoldEffects
    <2>4. Untold(redis') /\ faults' \in Nat /\ faults <= faults'
      BY <2>1, <2>3, CallUntold
    <2> QED
      BY <1>2, <2>2, <2>4 DEF BackgroundMoves
  <1>4. CASE BackgroundCheck(t)
    <2>1. PICK ok, reason :
            /\ ok \in BOOLEAN /\ Redis(WithCanary(Snapshot), ok)
            /\ Becomes(t, IF reason = "" THEN {} ELSE {[t EXCEPT !.kind = "c_trip", !.reason = reason]})
      BY <1>4 DEF BackgroundCheck
    <2>2. t.kind # "c_record"
      BY <1>4 DEF BackgroundCheck
    <2>3. Untold(redis') /\ faults' \in Nat /\ faults <= faults'
      BY <2>1, UntoldEffects, CallUntold
    <2>4. /\ tasks \ {t} \subseteq tasks'
          /\ \A x \in tasks' \ tasks : x = [t EXCEPT !.kind = "c_trip", !.reason = reason]
      BY <2>1 DEF Becomes
    <2> QED
      BY <1>2, <2>2, <2>3, <2>4 DEF BackgroundMoves
  <1>5. CASE BackgroundTrip(t)
    <2>1. PICK ok \in BOOLEAN : Redis(Tripped(t.reason), ok)
      BY <1>5 DEF BackgroundTrip
    <2>2. t.kind # "c_record" /\ tasks' = tasks \ {t}
      BY <1>5 DEF BackgroundTrip, Becomes
    <2>3. Untold(redis') /\ faults' \in Nat /\ faults <= faults'
      BY <2>1, UntoldEffects, CallUntold
    <2> QED
      BY <1>2, <2>2, <2>3 DEF BackgroundMoves
  <1>6. CASE BackgroundRecord(t)
    <2> DEFINE Seen(latency) == [id |-> t.id, succeeded |-> FALSE, latency |-> latency,
                                 realized |-> -1, baseline |-> -1]
               Effect(latency) == WithCanary(record_canary(redis.canary, Seen(latency),
                                                           world.canary.window, now))
    <2>1. PICK ok \in BOOLEAN, latency \in world.canary.latencies : Redis(Effect(latency), ok)
      BY <1>6 DEF BackgroundRecord
    <2>2. /\ t.kind = "c_record" /\ tasks \ {t} \subseteq tasks'
          /\ \A x \in tasks' \ tasks : x = [t EXCEPT !.kind = "c_snapshot"]
      BY <1>6 DEF BackgroundRecord, Becomes
    <2>3. CanaryTold(t.id, FALSE, Effect(latency))
      <3> DEFINE o == Seen(latency)
                 c == record_canary(redis.canary, o, world.canary.window, now)
      <3>1. o.id = t.id /\ o.succeeded = FALSE
        OBVIOUS
      <3>2. Effect(latency) = [redis EXCEPT !.canary = c]
        BY Zenon DEF WithCanary
      <3> HIDE DEF Seen, Effect
      <3>3. \E z : z.id = t.id /\ z.succeeded = FALSE
                   /\ c = record_canary(redis.canary, z, world.canary.window, now)
        BY <3>1
      <3> HIDE DEF c
      <3>4. LET r == [redis EXCEPT !.canary = c]
            IN StoreFields \subseteq DOMAIN r /\ r.counted = redis.counted /\ r.canary = c
        BY DEF StoreFields, BooksShape
      <3> QED
        BY <3>2, <3>3, <3>4 DEF CanaryTold
    <2> HIDE DEF Effect
    <2>4. /\ faults' \in Nat /\ faults <= faults' /\ (~ok => faults' > 0)
          /\ redis' = redis \/ redis' = Effect(latency)
          /\ ok => redis' = Effect(latency)
      BY <2>1 DEF Redis, RedisCalls, BooksShape
    <2>5. faults' + drops' = 0 => ok
      <3>1. faults' \in Nat /\ drops' \in Nat
        BY <1>2, <2>4 DEF BooksShape
      <3> QED
        BY <2>4, <3>1, SomeMishap, Zenon
    <2>6. Untold(redis)
      BY UntoldEffects
    <2>7. /\ Untold(redis') \/ CanaryTold(t.id, FALSE, redis')
          /\ faults' + drops' = 0 => CanaryTold(t.id, FALSE, redis')
      BY <2>3, <2>4, <2>5, <2>6, Zenon
    <2> QED
      BY <1>2, <2>2, <2>4, <2>7 DEF BackgroundMoves
  <1> QED
    BY <1>1, <1>3, <1>4, <1>5, <1>6

LEMMA BackgroundKeepsTurns ==
  ASSUME TurnsInv, Background
  PROVE  TurnsInv'
PROOF
  <1>1. BooksShape /\ faults \in Nat /\ drops \in Nat
    BY DEF TurnsInv, BooksShape
  <1>2. PICK t \in tasks : BackgroundMoves(t)
    BY <1>1, BackgroundTells
  <1>3. /\ UNCHANGED <<world, calls, st, now, ledger, drops>> /\ faults' \in Nat /\ faults <= faults'
        /\ Untold(redis') \/ CanaryTold(t.id, FALSE, redis')
    BY <1>2 DEF BackgroundMoves
  <1>4. StoreFields \subseteq DOMAIN redis' /\ RolloutFields \subseteq DOMAIN redis'.canary
    BY <1>1, <1>3, ToldKeepsShape
  <1>5. redis'.counted = redis.counted
    BY <1>3 DEF Untold, CanaryTold
  <1>6. BooksShape'
    BY <1>1, <1>3, <1>4 DEF BooksShape
  <1>7. Turns' = Turns
    BY <1>3 DEF Turns
  <1>8. faults + drops > 0 => faults' + drops' > 0
    <2>1. drops' \in Nat /\ drops <= drops'
      BY <1>1, <1>3
    <2> QED
      BY <1>1, <1>3, <2>1, SomeMishap, Zenon
  <1>9. \A s \in Turns : Shared(s) => Shared(s)'
    BY <1>3, <1>5, <1>8, Zenon DEF Shared
  <1> QED
    BY <1>3, <1>5, <1>6, <1>7, <1>9 DEF TurnsInv

LEMMA StandingStillKeepsTurns ==
  ASSUME TurnsInv, UNCHANGED <<world, calls, st, redis, ledger, faults, drops>>
  PROVE  TurnsInv'
PROOF
  <1>1. BooksShape'
    BY DEF TurnsInv, BooksShape
  <1>2. Turns' = Turns
    BY DEF Turns
  <1>3. \A s : Shared(s)' = Shared(s)
    BY DEF Shared
  <1> QED
    BY <1>1, <1>2, <1>3 DEF TurnsInv

LEMMA InitBooksShape ==
  ASSUME Init
  PROVE  /\ BooksShape /\ DOMAIN calls \subseteq Slots /\ \A s \in Slots \ DOMAIN calls : st[s].pc = "done"
         /\ \A s \in Slots : st[s].status = "" /\ st[s].canary = FALSE
         /\ world.today \in Nat /\ world.max_days \in Nat \ {0}
         /\ world.canary.window \in Nat \ {0} /\ world.canary.hold \in Nat \ {0}
PROOF
  <1>1. PICK b \in Bursts : world = b.world /\ calls = b.calls
    BY DEF Init
  <1>2. IsWorld(world) /\ DOMAIN calls \subseteq Slots
    BY <1>1, GatewayAssumption DEF IsBurst
  <1>3. /\ world.today \in Nat /\ world.max_days \in Nat \ {0}
        /\ world.canary.window \in Nat \ {0} /\ world.canary.hold \in Nat \ {0}
    BY <1>2 DEF IsWorld
  <1> DEFINE Gone == [Fresh EXCEPT !.pc = "done"]
  <1>4. /\ DOMAIN st = Slots
        /\ \A s \in Slots : st[s] = IF s \in DOMAIN calls THEN Fresh ELSE Gone
    BY DEF Init
  <1>5. /\ TurnFits(Fresh) /\ TurnFits(Gone) /\ Gone.pc = "done"
        /\ Fresh.status = "" /\ Gone.status = "" /\ Fresh.canary = FALSE /\ Gone.canary = FALSE
    BY DEF Fresh, TurnFits, TurnFields, Unsent, Undelivered, Planned, Accounting
  <1> HIDE DEF Gone
  <1>6. StoreFields \subseteq DOMAIN redis /\ RolloutFields \subseteq DOMAIN redis.canary
    BY DEF Init, StoreFields, RolloutFields, NewRollout
  <1>7. faults \in Nat /\ drops \in Nat
    BY DEF Init
  <1> QED
    BY <1>2, <1>3, <1>4, <1>5, <1>6, <1>7 DEF BooksShape

LEMMA InitTurns == Init => TurnsInv
PROOF
  <1> SUFFICES ASSUME Init PROVE TurnsInv
    OBVIOUS
  <1>1. /\ BooksShape /\ DOMAIN calls \subseteq Slots /\ \A s \in Slots \ DOMAIN calls : st[s].pc = "done"
        /\ \A s \in Slots : st[s].status = ""
        /\ world.today \in Nat /\ world.max_days \in Nat \ {0}
    BY InitBooksShape
  <1>2. Turns = {}
    BY <1>1 DEF Turns, Booked, Paid
  <1>3. Cardinality(Turns) = 0
    BY <1>2, FS_EmptySet
  <1>4. DOMAIN ledger = {} /\ redis.counted = {}
    <2>1. DOMAIN NoMap = {}
      BY DEF NoMap
    <2> QED
      BY <2>1 DEF Init
  <1>5. At(ledger, world.today, EmptyBucket).total.n = 0
    BY <1>4 DEF At, EmptyBucket, Zero
  <1> QED
    BY <1>1, <1>2, <1>3, <1>4, <1>5 DEF TurnsInv

LEMMA NextKeepsTurns == TurnsInv /\ [Next]_vars => TurnsInv'
PROOF
  <1> SUFFICES ASSUME TurnsInv, [Next]_vars PROVE TurnsInv'
    OBVIOUS
  <1>1. ASSUME NEW s \in Slots, Label(s) PROVE TurnsInv'
    BY <1>1, StandingStillKeepsTurns DEF Label, NoRedis, fixed
  <1>2. CASE Tick
    BY <1>2, StandingStillKeepsTurns DEF Tick, fixed
  <1>3. CASE UNCHANGED vars
    BY <1>3, StandingStillKeepsTurns DEF vars
  <1>4. ASSUME NEW s \in Slots, Walks(s) PROVE TurnsInv'
    BY <1>4, WalksKeepTurns
  <1>5. BooksShape
    BY DEF TurnsInv
  <1> QED
    BY <1>1, <1>2, <1>3, <1>4, <1>5, StepWalks, BackgroundKeepsTurns DEF Next

(* Every turn that was answered is in the process's ledger once; the       *)
(* fleet's ledger never holds a turn the process's does not, and holds all *)
(* of them when no call failed and nobody left (record_accounted_usage,    *)
(* lib.rs:6194).                                                           *)
THEOREM EachTurnChargedOnce == Spec => []TurnsChargedOnce
PROOF
  <1>1. TurnsInv => TurnsChargedOnce
    <2> SUFFICES ASSUME TurnsInv PROVE TurnsChargedOnce
      OBVIOUS
    <2>1. Charged = Turns
      BY DEF Charged, Turns, Booked, Paid
    <2>2. faults \in Nat /\ drops \in Nat /\ DOMAIN calls \subseteq Slots
      BY DEF TurnsInv, BooksShape
    <2>3. world.redis /\ Healthy /\ Quiet => redis.counted = Turns
      <3> SUFFICES ASSUME world.redis, Healthy, Quiet PROVE Turns \subseteq redis.counted
        BY DEF TurnsInv
      <3>1. ~(faults + drops > 0) /\ \A s \in Turns : st[s].pc = "done"
        BY <2>2 DEF Healthy, Quiet, Turns
      <3> QED
        BY <3>1 DEF TurnsInv, Shared
    <2> QED
      BY <2>1, <2>3 DEF TurnsInv, TurnsChargedOnce
  <1> QED
    BY <1>1, InitTurns, NextKeepsTurns, PTL DEF Spec

-----------------------------------------------------------------------------
(* The canary's window.                                                    *)

LEMMA Windows ==
  ASSUME NEW w \in Nat \ {0}, NEW n \in Nat
  PROVE  /\ n \div w \in Nat
         /\ (n + 1) \div w >= n \div w
         /\ \A t \in 0 .. n : t \div w = n \div w => n < t + w
         /\ n < w => n \div w = 0
PROOF
  <1>1. n \div w \in Nat
    OBVIOUS
  <1>2. (n + 1) \div w >= n \div w
    OBVIOUS
  <1>3. \A t \in 0 .. n : t \div w = n \div w => n < t + w
    OBVIOUS
  <1>4. n < w => n \div w = 0
    OBVIOUS
  <1> QED
    BY <1>1, <1>2, <1>3, <1>4

HashFields == {"window", "requests", "errors", "latency", "samples", "realized", "baseline",
               "costs", "tripped", "expires"}

Span == world.canary.window
Window == now \div Span
Times == now \in Nat /\ Span \in Nat \ {0} /\ world.canary.hold \in Nat \ {0}

(* A rollout c is in order, the requests being as f tells: what its hash   *)
(* counts in the current window is what its set holds, the set outlives    *)
(* its window, and holds canary requests that are over.                    *)
HashFits(h) ==
  /\ HashFields \subseteq DOMAIN h
  /\ h.window \in Int /\ h.requests \in Nat /\ h.errors \in Nat /\ h.expires \in Nat
  /\ h.window <= Window

Wrong(seen, f) == {s \in seen : ~EndedWell(f[s])}

Lasting(expires) == \E t \in 0 .. now : t \div Span = Window /\ expires = t + 2 * Span

Matches(h, seen, expires, f) ==
  /\ h.requests = Cardinality(seen) /\ h.errors = Cardinality(Wrong(seen, f))
  /\ seen # {} => Lasting(expires)

CanaryFits(c, f) ==
  /\ RolloutFields \subseteq DOMAIN c
  /\ HashFits(c.hash) /\ c.seenExpires \in Nat
  /\ c.hash.window = Window => Matches(c.hash, c.seen, c.seenExpires, f)
  /\ \A s \in c.seen : s \in DOMAIN calls /\ f[s].pc \in Recorded /\ f[s].canary

(* In the first window no expiry comes due.                                *)
Kept(c) ==
  c.seen # {} =>
    /\ c.hash.window = 0 /\ c.seenExpires >= Span
    /\ c.hash.expires >= Span \/ c.hash.expires >= world.canary.hold

Early == now < Span /\ now < world.canary.hold

LEMMA ExpiredParts ==
  ASSUME NEW c, RolloutFields \subseteq DOMAIN c, NEW n
  PROVE  /\ RolloutFields \subseteq DOMAIN Expired(c, n)
         /\ Expired(c, n).hash = IF c.hash.expires <= n THEN NoHash ELSE c.hash
         /\ Expired(c, n).seen = IF c.seenExpires <= n THEN {} ELSE c.seen
         /\ Expired(c, n).seenExpires = IF c.seenExpires <= n THEN Never ELSE c.seenExpires
PROOF
  BY DEF Expired, RolloutFields

LEMMA RolledParts ==
  ASSUME NEW c, RolloutFields \subseteq DOMAIN c,
         NEW live, live = Expired(c, now), NEW r, r = Rolled(c, Span, now)
  PROVE  /\ RolloutFields \subseteq DOMAIN r
         /\ live.hash.window = Window => r = live
         /\ live.hash.window # Window =>
              /\ HashFields \subseteq DOMAIN r.hash /\ r.hash.window = Window
              /\ r.hash.requests = 0 /\ r.hash.errors = 0 /\ r.hash.expires = live.hash.expires
              /\ r.seen = {} /\ r.seenExpires = Never
PROOF
  <1> DEFINE h == [NoHash EXCEPT !.window = Window, !.tripped = live.hash.tripped, !.expires = live.hash.expires]
  <1>1. RolloutFields \subseteq DOMAIN live
    BY ExpiredParts
  <1>2. Rolled(c, Span, now) = IF live.hash.window = Window THEN live
                          ELSE [live EXCEPT !.hash = h, !.seen = {}, !.seenExpires = Never]
    BY DEF Rolled, Window
  <1>3. /\ HashFields \subseteq DOMAIN h /\ h.window = Window /\ h.requests = 0 /\ h.errors = 0
        /\ h.expires = live.hash.expires
    BY DEF NoHash, HashFields
  <1> HIDE DEF h
  <1>4. CASE live.hash.window = Window
    BY <1>1, <1>2, <1>4
  <1>5. CASE live.hash.window # Window
    <2>1. r = [live EXCEPT !.hash = h, !.seen = {}, !.seenExpires = Never]
      BY <1>2, <1>5
    <2>2. RolloutFields \subseteq DOMAIN r /\ r.hash = h /\ r.seen = {} /\ r.seenExpires = Never
      BY <1>1, <2>1 DEF RolloutFields
    <2> QED
      BY <1>3, <1>5, <2>2
  <1> QED
    BY <1>4, <1>5

LEMMA NoHashFits ==
  ASSUME Times
  PROVE  HashFits(NoHash) /\ NoHash.window # Window /\ Never \in Nat /\ Window \in Nat
PROOF
  <1>1. Window \in Nat
    BY Windows DEF Times, Window
  <1> QED
    BY <1>1 DEF HashFits, NoHash, HashFields, Never

LEMMA ExpiresWell ==
  ASSUME Times, NEW c, NEW f, CanaryFits(c, f)
  PROVE  CanaryFits(Expired(c, now), f) /\ Expired(c, now).seen \subseteq c.seen
PROOF
  <1> DEFINE e == Expired(c, now)
  <1>1. /\ RolloutFields \subseteq DOMAIN e
        /\ e.hash = IF c.hash.expires <= now THEN NoHash ELSE c.hash
        /\ e.seen = IF c.seenExpires <= now THEN {} ELSE c.seen
        /\ e.seenExpires = IF c.seenExpires <= now THEN Never ELSE c.seenExpires
    BY ExpiredParts DEF CanaryFits
  <1> HIDE DEF e
  <1>2. HashFits(e.hash) /\ e.seenExpires \in Nat /\ e.seen \subseteq c.seen
    BY <1>1, NoHashFits DEF CanaryFits
  <1>3. ASSUME e.hash.window = Window PROVE Matches(e.hash, e.seen, e.seenExpires, f)
    <2>1. e.hash = c.hash
      BY <1>1, <1>3, NoHashFits
    <2>2. Matches(c.hash, c.seen, c.seenExpires, f)
      BY <1>3, <2>1 DEF CanaryFits
    <2>3. CASE c.seen = {}
      <3>1. e.seen = c.seen
        BY <1>1, <2>3
      <3> QED
        BY <2>1, <2>2, <2>3, <3>1 DEF Matches
    <2>4. CASE c.seen # {}
      <3>1. PICK t \in 0 .. now : t \div Span = Window /\ c.seenExpires = t + 2 * Span
        BY <2>2, <2>4 DEF Matches, Lasting
      <3>2. now < t + Span
        BY <3>1, Windows DEF Times, Window
      <3>3. c.seenExpires > now
        BY <3>1, <3>2 DEF Times
      <3>4. e.seen = c.seen /\ e.seenExpires = c.seenExpires
        BY <1>1, <3>1, <3>3 DEF Times
      <3> QED
        BY <2>1, <2>2, <3>4
    <2> QED
      BY <2>3, <2>4
  <1> QED
    BY <1>1, <1>2, <1>3 DEF CanaryFits, e

LEMMA RollsWell ==
  ASSUME Times, NEW c, NEW f, CanaryFits(c, f)
  PROVE  LET r == Rolled(c, Span, now)
         IN /\ CanaryFits(r, f) /\ r.seen \subseteq c.seen
            /\ r.hash.window = Window /\ Matches(r.hash, r.seen, r.seenExpires, f)
PROOF
  <1> DEFINE live == Expired(c, now)
             r == Rolled(c, Span, now)
  <1>1. CanaryFits(live, f) /\ live.seen \subseteq c.seen
    BY ExpiresWell
  <1>2. /\ RolloutFields \subseteq DOMAIN r
        /\ live.hash.window = Window => r = live
        /\ live.hash.window # Window =>
             /\ HashFields \subseteq DOMAIN r.hash /\ r.hash.window = Window
             /\ r.hash.requests = 0 /\ r.hash.errors = 0 /\ r.hash.expires = live.hash.expires
             /\ r.seen = {} /\ r.seenExpires = Never
    <2>1. RolloutFields \subseteq DOMAIN c
      BY DEF CanaryFits
    <2> HIDE DEF live, r
    <2>2. live = Expired(c, now) /\ r = Rolled(c, Span, now)
      BY DEF live, r
    <2> QED
      BY <2>1, <2>2, RolledParts
  <1> HIDE DEF live, r
  <1>3. CASE live.hash.window = Window
    BY <1>1, <1>2, <1>3 DEF CanaryFits, r
  <1>4. CASE live.hash.window # Window
    <2>1. /\ HashFields \subseteq DOMAIN r.hash /\ r.hash.window = Window
          /\ r.hash.requests = 0 /\ r.hash.errors = 0 /\ r.hash.expires = live.hash.expires
          /\ r.seen = {} /\ r.seenExpires = Never
      BY <1>2, <1>4
    <2>2. HashFits(r.hash)
      BY <1>1, <2>1, NoHashFits DEF HashFits, CanaryFits
    <2>3. Matches(r.hash, {}, Never, f)
      <3>1. Wrong({}, f) = {}
        BY DEF Wrong
      <3> QED
        BY <2>1, <3>1, FS_EmptySet DEF Matches
    <2> QED
      BY <1>2, <2>1, <2>2, <2>3, NoHashFits DEF CanaryFits, r
  <1> QED
    BY <1>3, <1>4

LEMMA RecordParts ==
  ASSUME NEW c, RolloutFields \subseteq DOMAIN c, NEW o, NEW w, NEW n, NEW r, r = Rolled(c, w, n),
         RolloutFields \subseteq DOMAIN r, HashFields \subseteq DOMAIN r.hash,
         NEW z, z = record_canary(c, o, w, n)
  PROVE  /\ o.id \in r.seen => z = r
         /\ o.id \notin r.seen =>
              /\ RolloutFields \subseteq DOMAIN z
              /\ z.seen = r.seen \cup {o.id} /\ z.seenExpires = n + 2 * w
              /\ HashFields \subseteq DOMAIN z.hash
              /\ z.hash.window = r.hash.window /\ z.hash.requests = r.hash.requests + 1
              /\ z.hash.errors = r.hash.errors + (IF o.succeeded THEN 0 ELSE 1)
              /\ z.hash.expires = n + 2 * w
PROOF
  <1> DEFINE costed == o.realized >= 0 /\ o.baseline >= 0
             counted == [r.hash EXCEPT
                           !.expires = n + 2 * w,
                           !.requests = r.hash.requests + 1,
                           !.errors = r.hash.errors + (IF o.succeeded THEN 0 ELSE 1),
                           !.latency = r.hash.latency + o.latency, !.samples = r.hash.samples + 1,
                           !.realized = r.hash.realized + (IF costed THEN o.realized ELSE 0),
                           !.baseline = r.hash.baseline + (IF costed THEN o.baseline ELSE 0),
                           !.costs = r.hash.costs + (IF costed THEN 1 ELSE 0)]
             more == [r EXCEPT !.seen = r.seen \cup {o.id}, !.seenExpires = n + 2 * w, !.hash = counted]
  <1>1. z = IF o.id \in r.seen THEN r ELSE more
    BY DEF record_canary
  <1> HIDE DEF costed
  <1>2. /\ HashFields \subseteq DOMAIN counted
        /\ counted.window = r.hash.window /\ counted.requests = r.hash.requests + 1
        /\ counted.errors = r.hash.errors + (IF o.succeeded THEN 0 ELSE 1)
        /\ counted.expires = n + 2 * w
    BY DEF HashFields
  <1> HIDE DEF counted
  <1>3. /\ RolloutFields \subseteq DOMAIN more /\ more.seen = r.seen \cup {o.id}
        /\ more.seenExpires = n + 2 * w /\ more.hash = counted
    BY DEF RolloutFields
  <1> HIDE DEF more
  <1> QED
    BY <1>1, <1>2, <1>3

(* One outcome is one more request, and one more error unless it went well. *)
LEMMA RecordsWell ==
  ASSUME Times, DOMAIN calls \subseteq Slots, NEW c, NEW f, CanaryFits(c, f), NEW o,
         o.id \in DOMAIN calls, f[o.id].pc \in Recorded, f[o.id].canary,
         \/ o.succeeded = TRUE /\ EndedWell(f[o.id])
         \/ o.succeeded = FALSE /\ ~EndedWell(f[o.id])
  PROVE  LET z == record_canary(c, o, Span, now)
             r == Rolled(c, Span, now)
         IN /\ CanaryFits(z, f) /\ z.seen = r.seen \cup {o.id}
            /\ o.id \notin r.seen => z.hash.expires = now + 2 * Span /\ z.seenExpires = now + 2 * Span
            /\ o.id \in r.seen => z = r
            /\ z.hash.window = Window
PROOF
  <1> DEFINE r == Rolled(c, Span, now)
             z == record_canary(c, o, Span, now)
  <1>1. /\ CanaryFits(r, f) /\ r.hash.window = Window /\ Matches(r.hash, r.seen, r.seenExpires, f)
    BY RollsWell
  <1>2. /\ o.id \in r.seen => z = r
        /\ o.id \notin r.seen =>
              /\ RolloutFields \subseteq DOMAIN z
              /\ z.seen = r.seen \cup {o.id} /\ z.seenExpires = now + 2 * Span
              /\ HashFields \subseteq DOMAIN z.hash
              /\ z.hash.window = r.hash.window /\ z.hash.requests = r.hash.requests + 1
              /\ z.hash.errors = r.hash.errors + (IF o.succeeded THEN 0 ELSE 1)
              /\ z.hash.expires = now + 2 * Span
    <2>1. RolloutFields \subseteq DOMAIN c /\ RolloutFields \subseteq DOMAIN r /\ HashFields \subseteq DOMAIN r.hash
      BY <1>1 DEF CanaryFits, HashFits
    <2> HIDE DEF r, z
    <2>2. r = Rolled(c, Span, now) /\ z = record_canary(c, o, Span, now)
      BY DEF r, z
    <2> QED
      BY <2>1, <2>2, RecordParts
  <1> HIDE DEF r, z
  <1>3. CASE o.id \in r.seen
    <2>1. r.seen = r.seen \cup {o.id}
      BY <1>3
    <2> QED
      BY <1>1, <1>2, <1>3, <2>1 DEF r, z
  <1>4. CASE o.id \notin r.seen
    <2>1. /\ RolloutFields \subseteq DOMAIN z
          /\ z.seen = r.seen \cup {o.id} /\ z.seenExpires = now + 2 * Span
          /\ HashFields \subseteq DOMAIN z.hash
          /\ z.hash.window = Window /\ z.hash.requests = r.hash.requests + 1
          /\ z.hash.errors = r.hash.errors + (IF o.succeeded THEN 0 ELSE 1)
          /\ z.hash.expires = now + 2 * Span
      BY <1>1, <1>2, <1>4
    <2>2. now + 2 * Span \in Nat /\ Window \in Nat
      BY NoHashFits DEF Times
    <2>3. r.hash.requests \in Nat /\ r.hash.errors \in Nat
      BY <1>1 DEF CanaryFits, HashFits
    <2>4. HashFits(z.hash)
      <3>1. z.hash.requests \in Nat /\ z.hash.errors \in Nat
        BY <2>1, <2>3
      <3> QED
        BY <2>1, <2>2, <3>1 DEF HashFits
    <2>5. IsFiniteSet(r.seen) /\ IsFiniteSet(Wrong(r.seen, f))
      <3>1. r.seen \subseteq Slots
        BY <1>1 DEF CanaryFits
      <3>2. Wrong(r.seen, f) \subseteq r.seen
        BY DEF Wrong
      <3>3. IsFiniteSet(Slots)
        BY GatewayAssumption
      <3>4. IsFiniteSet(r.seen)
        BY <3>1, <3>3, FS_Subset
      <3> QED
        BY <3>2, <3>4, FS_Subset
    <2>6. Cardinality(z.seen) = Cardinality(r.seen) + 1
      BY <1>4, <2>1, <2>5, FS_AddElement
    <2>7. Cardinality(Wrong(z.seen, f)) = Cardinality(Wrong(r.seen, f)) + (IF o.succeeded THEN 0 ELSE 1)
      <3>1. CASE o.succeeded = TRUE /\ EndedWell(f[o.id])
        <4>1. Wrong(z.seen, f) = Wrong(r.seen, f)
          BY <2>1, <3>1 DEF Wrong
        <4>2. Cardinality(Wrong(r.seen, f)) \in Nat
          BY <2>5, FS_CardinalityType
        <4> QED
          BY <3>1, <4>1, <4>2
      <3>2. CASE o.succeeded = FALSE /\ ~EndedWell(f[o.id])
        <4>1. Wrong(z.seen, f) = Wrong(r.seen, f) \cup {o.id} /\ o.id \notin Wrong(r.seen, f)
          BY <1>4, <2>1, <3>2 DEF Wrong
        <4>2. Cardinality(Wrong(r.seen, f) \cup {o.id}) = Cardinality(Wrong(r.seen, f)) + 1
          BY <2>5, <4>1, FS_AddElement
        <4> QED
          BY <3>2, <4>1, <4>2
      <3> QED
        BY <3>1, <3>2
    <2>8. Lasting(z.seenExpires)
      <3>1. now \in 0 .. now
        BY DEF Times
      <3> QED
        BY <2>1, <3>1 DEF Lasting, Window
    <2>9. Matches(z.hash, z.seen, z.seenExpires, f)
      BY <1>1, <2>1, <2>6, <2>7, <2>8 DEF Matches
    <2>10. \A s \in z.seen : s \in DOMAIN calls /\ f[s].pc \in Recorded /\ f[s].canary
      BY <1>1, <2>1 DEF CanaryFits
    <2>11. CanaryFits(z, f)
      BY <2>1, <2>2, <2>4, <2>9, <2>10 DEF CanaryFits
    <2> QED
      BY <1>4, <2>1, <2>11 DEF r, z
  <1> QED
    BY <1>3, <1>4

LEMMA TripParts ==
  ASSUME NEW c, RolloutFields \subseteq DOMAIN c, NEW reason, NEW hold, NEW n,
         NEW live, live = Expired(c, n), HashFields \subseteq DOMAIN live.hash,
         NEW z, z = trip_canary(c, reason, hold, n)
  PROVE  /\ RolloutFields \subseteq DOMAIN z
         /\ z.seen = live.seen /\ z.seenExpires = live.seenExpires
         /\ HashFields \subseteq DOMAIN z.hash
         /\ z.hash.window = live.hash.window /\ z.hash.requests = live.hash.requests
         /\ z.hash.errors = live.hash.errors /\ z.hash.expires = n + hold
PROOF
  <1> DEFINE h == [live.hash EXCEPT !.tripped = reason, !.expires = n + hold]
  <1>1. RolloutFields \subseteq DOMAIN live
    BY ExpiredParts
  <1>2. z = [live EXCEPT !.hash = h]
    BY Zenon DEF trip_canary
  <1>3. /\ HashFields \subseteq DOMAIN h /\ h.window = live.hash.window
        /\ h.requests = live.hash.requests /\ h.errors = live.hash.errors /\ h.expires = n + hold
    BY DEF HashFields
  <1> HIDE DEF h
  <1>4. /\ RolloutFields \subseteq DOMAIN z /\ z.seen = live.seen /\ z.seenExpires = live.seenExpires
        /\ z.hash = h
    BY <1>1, <1>2 DEF RolloutFields
  <1> QED
    BY <1>3, <1>4

LEMMA TripsWell ==
  ASSUME Times, NEW c, NEW f, CanaryFits(c, f), NEW reason
  PROVE  CanaryFits(trip_canary(c, reason, world.canary.hold, now), f)
PROOF
  <1> DEFINE live == Expired(c, now)
             z == trip_canary(c, reason, world.canary.hold, now)
  <1>1. CanaryFits(live, f)
    BY ExpiresWell
  <1>2. RolloutFields \subseteq DOMAIN c /\ HashFields \subseteq DOMAIN live.hash
    BY <1>1 DEF CanaryFits, HashFits
  <1>3. /\ RolloutFields \subseteq DOMAIN z
        /\ z.seen = live.seen /\ z.seenExpires = live.seenExpires
        /\ HashFields \subseteq DOMAIN z.hash
        /\ z.hash.window = live.hash.window /\ z.hash.requests = live.hash.requests
        /\ z.hash.errors = live.hash.errors /\ z.hash.expires = now + world.canary.hold
    <2> HIDE DEF live, z
    <2>1. live = Expired(c, now) /\ z = trip_canary(c, reason, world.canary.hold, now)
      BY DEF live, z
    <2> QED
      BY <1>2, <2>1, TripParts
  <1>4. now + world.canary.hold \in Nat
    BY DEF Times
  <1> HIDE DEF live, z
  <1>5. HashFits(z.hash)
    BY <1>1, <1>3, <1>4 DEF CanaryFits, HashFits
  <1>6. z.hash.window = Window => Matches(z.hash, z.seen, z.seenExpires, f)
    BY <1>1, <1>3 DEF CanaryFits, Matches
  <1>7. CanaryFits(z, f)
    BY <1>1, <1>3, <1>5, <1>6 DEF CanaryFits
  <1> QED
    BY <1>7 DEF z

(* In the first window nothing that was counted is forgotten.              *)
LEMMA EarlyKeeps ==
  ASSUME Times, Early, NEW c, NEW f, CanaryFits(c, f), Kept(c)
  PROVE  /\ Rolled(c, Span, now).seen = c.seen /\ Kept(Rolled(c, Span, now))
         /\ \A reason : LET z == trip_canary(c, reason, world.canary.hold, now)
                        IN z.seen = c.seen /\ Kept(z)
PROOF
  <1>1. /\ RolloutFields \subseteq DOMAIN c /\ HashFits(c.hash) /\ c.seenExpires \in Nat
        /\ c.hash.expires \in Nat
    BY DEF CanaryFits, HashFits
  <1>2. Window = 0
    BY Windows DEF Times, Early, Window
  <1> DEFINE live == Expired(c, now)
             r == Rolled(c, Span, now)
             Z(reason) == trip_canary(c, reason, world.canary.hold, now)
  <1>3. /\ live.hash = IF c.hash.expires <= now THEN NoHash ELSE c.hash
        /\ live.seen = IF c.seenExpires <= now THEN {} ELSE c.seen
        /\ live.seenExpires = IF c.seenExpires <= now THEN Never ELSE c.seenExpires
    BY <1>1, ExpiredParts
  <1>4. /\ live.hash.window = Window => r = live
        /\ r.seen \subseteq c.seen /\ CanaryFits(live, f)
    <2>1. r.seen \subseteq c.seen /\ CanaryFits(live, f)
      BY RollsWell, ExpiresWell
    <2> HIDE DEF live, r
    <2>2. live = Expired(c, now) /\ r = Rolled(c, Span, now)
      BY DEF live, r
    <2>3. live.hash.window = Window => r = live
      BY <1>1, <2>2, RolledParts
    <2> QED
      BY <2>1, <2>3
  <1>5. ASSUME NEW reason
        PROVE  /\ Z(reason).seen = live.seen /\ Z(reason).seenExpires = live.seenExpires
               /\ Z(reason).hash.window = live.hash.window /\ Z(reason).hash.expires = now + world.canary.hold
    <2>1. HashFields \subseteq DOMAIN live.hash
      BY <1>4 DEF CanaryFits, HashFits
    <2> DEFINE z == Z(reason)
    <2> HIDE DEF live, z
    <2>2. live = Expired(c, now) /\ z = trip_canary(c, reason, world.canary.hold, now)
      BY DEF live, z
    <2>3. /\ z.seen = live.seen /\ z.seenExpires = live.seenExpires
          /\ z.hash.window = live.hash.window /\ z.hash.expires = now + world.canary.hold
      BY <1>1, <2>1, <2>2, TripParts
    <2> QED
      BY <2>3 DEF z
  <1>6. now + world.canary.hold >= world.canary.hold
    BY DEF Times
  <1> HIDE DEF live, r, Z
  <1>7. CASE c.seen = {}
    <2>1. r.seen = {} /\ live.seen = {}
      BY <1>3, <1>4, <1>7
    <2> QED
      BY <1>5, <1>7, <2>1 DEF Kept, r, Z
  <1>8. CASE c.seen # {}
    <2>1. /\ c.hash.window = 0 /\ c.seenExpires >= Span
          /\ c.hash.expires >= Span \/ c.hash.expires >= world.canary.hold
      BY <1>8 DEF Kept
    <2>2. ~(c.hash.expires <= now) /\ ~(c.seenExpires <= now)
      BY <1>1, <2>1 DEF Early, Times
    <2>3. live.hash = c.hash /\ live.seen = c.seen /\ live.seenExpires = c.seenExpires
      BY <1>3, <2>2
    <2>4. r = live
      BY <1>2, <1>4, <2>1, <2>3
    <2>5. r.seen = c.seen /\ Kept(r)
      BY <2>1, <2>3, <2>4 DEF Kept
    <2>6. ASSUME NEW reason PROVE Z(reason).seen = c.seen /\ Kept(Z(reason))
      BY <1>5, <1>6, <2>1, <2>3 DEF Kept
    <2> QED
      BY <2>5, <2>6 DEF r, Z
  <1> QED
    BY <1>7, <1>8

(* What the calls leave of the window.                                     *)
LEMMA QuietCallsFit ==
  ASSUME Times, NEW f, CanaryFits(redis.canary, f), NEW r, NEW s, Untold(r) \/ TurnTold(s, r)
  PROVE  /\ CanaryFits(r.canary, f)
         /\ Early /\ Kept(redis.canary) => r.canary.seen = redis.canary.seen /\ Kept(r.canary)
PROOF
  <1>1. CASE SameCounts(r.canary)
    BY <1>1 DEF SameCounts, CanaryFits, Kept
  <1>2. CASE r.canary = Snapshot
    <2>1. Snapshot = Rolled(redis.canary, Span, now)
      BY DEF Snapshot, canary_snapshot, Span
    <2> QED
      BY <1>2, <2>1, RollsWell, EarlyKeeps
  <1>3. CASE \E reason : r.canary = trip_canary(redis.canary, reason, world.canary.hold, now)
    BY <1>3, TripsWell, EarlyKeeps
  <1> QED
    BY <1>1, <1>2, <1>3 DEF Untold, TurnTold

LEMMA ReportsFit ==
  ASSUME Times, DOMAIN calls \subseteq Slots, NEW f, CanaryFits(redis.canary, f), NEW r, NEW s, NEW well,
         CanaryTold(s, well, r), s \in DOMAIN calls, f[s].pc \in Recorded, f[s].canary,
         (well = TRUE /\ EndedWell(f[s])) \/ (well = FALSE /\ ~EndedWell(f[s]))
  PROVE  /\ CanaryFits(r.canary, f)
         /\ Early /\ Kept(redis.canary) =>
              redis.canary.seen \subseteq r.canary.seen /\ s \in r.canary.seen /\ Kept(r.canary)
PROOF
  <1>1. PICK o : o.id = s /\ o.succeeded = well /\ r.canary = record_canary(redis.canary, o, Span, now)
    BY DEF CanaryTold, Span
  <1> DEFINE c == redis.canary
             k == Rolled(c, Span, now)
             z == record_canary(c, o, Span, now)
  <1>2. /\ CanaryFits(z, f) /\ z.seen = k.seen \cup {s}
        /\ s \notin k.seen => z.hash.expires = now + 2 * Span /\ z.seenExpires = now + 2 * Span
        /\ s \in k.seen => z = k
        /\ z.hash.window = Window
    <2>1. /\ o.id \in DOMAIN calls /\ f[o.id].pc \in Recorded /\ f[o.id].canary
          /\ \/ o.succeeded = TRUE /\ EndedWell(f[o.id])
             \/ o.succeeded = FALSE /\ ~EndedWell(f[o.id])
      BY <1>1
    <2>2. /\ CanaryFits(z, f) /\ z.seen = k.seen \cup {o.id}
          /\ o.id \notin k.seen => z.hash.expires = now + 2 * Span /\ z.seenExpires = now + 2 * Span
          /\ o.id \in k.seen => z = k
          /\ z.hash.window = Window
      BY <2>1, RecordsWell
    <2> HIDE DEF z, k
    <2> QED
      BY <1>1, <2>2
  <1>3. ASSUME Early, Kept(c) PROVE c.seen \subseteq z.seen /\ s \in z.seen /\ Kept(z)
    <2>1. k.seen = c.seen /\ Kept(k)
      BY <1>3, EarlyKeeps
    <2>2. Window = 0
      BY <1>3, Windows DEF Times, Early, Window
    <2>3. now + 2 * Span >= Span
      BY DEF Times
    <2> HIDE DEF k, z
    <2>4. Kept(z)
      BY <1>2, <2>1, <2>2, <2>3 DEF Kept
    <2> QED
      BY <1>2, <2>1, <2>4
  <1> QED
    BY <1>1, <1>2, <1>3

-----------------------------------------------------------------------------
(* The inductive invariant of the canary: the shape, the window in order,  *)
(* reports left to tasks are of canary requests that did not end well, and *)
(* in the first window without a mishap none is missing.                   *)
Reported(s) ==
  \/ st[s].guard \/ st[s].pc = "c_record" \/ Task("c_record", s) \in tasks
  \/ s \in redis.canary.seen

ReportsAreDue ==
  \A t \in tasks :
    /\ "kind" \in DOMAIN t
    /\ t.kind = "c_record" =>
         t.id \in DOMAIN calls /\ st[t.id].pc = "done" /\ ~EndedWell(st[t.id]) /\ st[t.id].canary

NoneForgotten ==
  faults + drops = 0 /\ Early =>
    Kept(redis.canary) /\ \A s \in DOMAIN calls : st[s].canary => Reported(s)

CanaryInv ==
  /\ BooksShape /\ DOMAIN calls \subseteq Slots
  /\ \A s \in Slots \ DOMAIN calls : st[s].pc = "done"
  /\ Times /\ CanaryFits(redis.canary, st) /\ ReportsAreDue /\ NoneForgotten

LEMMA SameTimes ==
  ASSUME UNCHANGED <<world, calls, now>>, Times, CanaryFits(redis'.canary, st')
  PROVE  /\ Times' /\ Early' = Early /\ CanaryFits(redis.canary, st)'
         /\ Kept(redis'.canary) => Kept(redis.canary)'
PROOF
  <1>1. Span' = Span /\ Window' = Window /\ now' = now /\ calls' = calls /\ world' = world
    BY DEF Span, Window
  <1>2. Times' /\ Early' = Early
    BY <1>1 DEF Times, Early
  <1>3. HashFits(redis.canary.hash)'
    BY <1>1 DEF CanaryFits, HashFits
  <1>4. Matches(redis'.canary.hash, redis'.canary.seen, redis'.canary.seenExpires, st')
        => Matches(redis.canary.hash, redis.canary.seen, redis.canary.seenExpires, st)'
    BY <1>1 DEF Matches, Lasting, Wrong
  <1>5. CanaryFits(redis.canary, st)'
    BY <1>1, <1>3, <1>4 DEF CanaryFits
  <1>6. Kept(redis'.canary) => Kept(redis.canary)'
    BY <1>1 DEF Kept
  <1> QED
    BY <1>2, <1>5, <1>6

LEMMA WalksKeepCanary ==
  ASSUME CanaryInv, NEW s \in Slots, Walks(s)
  PROVE  CanaryInv'
PROOF
  <1>1. /\ BooksShape /\ TurnFits(st[s]) /\ DOMAIN calls \subseteq Slots /\ Times
        /\ CanaryFits(redis.canary, st) /\ ReportsAreDue /\ NoneForgotten
    BY DEF CanaryInv, BooksShape
  <1>2. /\ DOMAIN st' = Slots /\ \A x \in Slots \ {s} : st'[x] = st[x]
        /\ st[s].pc # "done" /\ TurnFits(st'[s]) /\ Lawful(st[s], st'[s]) /\ SlotMoves(s)
        /\ UNCHANGED <<world, calls, now>> /\ SharedMoves(s)
    BY DEF Walks, SlotMoves
  <1>3. s \in DOMAIN calls
    BY <1>2 DEF CanaryInv
  <1>4. /\ faults' \in Nat /\ drops' \in Nat /\ faults <= faults' /\ drops <= drops'
        /\ faults \in Nat /\ drops \in Nat
    BY <1>1, <1>2 DEF SharedMoves, BooksShape
  <1>5. \A x \in DOMAIN calls : x # s => st'[x] = st[x]
    BY <1>1, <1>2
  <1>6. CanaryFits(redis.canary, st')
    <2> DEFINE seen == redis.canary.seen
    <2>1. \A x \in seen : x \in DOMAIN calls /\ st[x].pc \in Recorded /\ st[x].canary
      BY <1>1 DEF CanaryFits
    <2>2. \A x \in seen : /\ st'[x].pc \in Recorded /\ st'[x].canary
                          /\ EndedWell(st'[x]) = EndedWell(st[x])
      BY <1>2, <1>5, <2>1 DEF Lawful
    <2>3. Wrong(seen, st') = Wrong(seen, st)
      BY <2>2 DEF Wrong
    <2> QED
      BY <1>1, <2>1, <2>2, <2>3 DEF CanaryFits, Matches
  <1>7. st[s].pc = "c_record" =>
          /\ st'[s].pc \in Recorded /\ st'[s].canary
          /\ (st[s].status = "2xx") = EndedWell(st'[s])
    <2> SUFFICES ASSUME st[s].pc = "c_record"
                 PROVE  /\ st'[s].pc \in Recorded /\ st'[s].canary
                        /\ (st[s].status = "2xx") = EndedWell(st'[s])
      OBVIOUS
    <2>1. st[s].canary /\ st[s].reply = "" /\ st[s].at = ""
      BY <1>1 DEF TurnFits
    <2>2. EndedWell(st[s]) = (st[s].status = "2xx")
      BY <2>1 DEF EndedWell
    <2> QED
      BY <1>2, <2>1, <2>2 DEF Lawful
  <1>8. /\ CanaryFits(redis'.canary, st')
        /\ Early /\ Kept(redis.canary) => redis.canary.seen \subseteq redis'.canary.seen /\ Kept(redis'.canary)
        /\ Early /\ Kept(redis.canary) /\ faults' + drops' = 0 /\ st[s].pc = "c_record" =>
             s \in redis'.canary.seen
    <2>1. ASSUME Untold(redis') \/ TurnTold(s, redis')
          PROVE  /\ CanaryFits(redis'.canary, st')
                 /\ Early /\ Kept(redis.canary) =>
                      redis.canary.seen \subseteq redis'.canary.seen /\ Kept(redis'.canary)
      BY <1>1, <1>6, <2>1, QuietCallsFit
    <2>2. ASSUME st[s].pc = "c_record", CanaryTold(s, st[s].status = "2xx", redis')
          PROVE  /\ CanaryFits(redis'.canary, st')
                 /\ Early /\ Kept(redis.canary) =>
                      /\ redis.canary.seen \subseteq redis'.canary.seen /\ Kept(redis'.canary)
                      /\ s \in redis'.canary.seen
      <3> DEFINE well == st[s].status = "2xx"
      <3>1. st'[s].pc \in Recorded /\ st'[s].canary
        BY <1>7, <2>2
      <3>2. (well = TRUE /\ EndedWell(st'[s])) \/ (well = FALSE /\ ~EndedWell(st'[s]))
        BY <1>7, <2>2
      <3>3. CanaryTold(s, well, redis')
        BY <2>2
      <3> HIDE DEF well
      <3> QED
        BY <1>1, <1>3, <1>6, <3>1, <3>2, <3>3, ReportsFit
    <2>3. CASE Untold(redis') \/ TurnTold(s, redis')
      <3>1. faults' + drops' = 0 /\ st[s].pc = "c_record" => CanaryTold(s, st[s].status = "2xx", redis')
        BY <1>2, Zenon DEF SharedMoves
      <3> QED
        BY <2>1, <2>2, <2>3, <3>1
    <2>4. CASE st[s].pc = "c_record" /\ CanaryTold(s, st[s].status = "2xx", redis')
      BY <2>2, <2>4
    <2>5. \/ Untold(redis') \/ TurnTold(s, redis')
          \/ st[s].pc = "c_record" /\ CanaryTold(s, st[s].status = "2xx", redis')
      BY <1>2, Zenon DEF SharedMoves
    <2> QED
      BY <2>3, <2>4, <2>5
  <1>9. BooksShape'
    <2>1. StoreFields \subseteq DOMAIN redis'
      BY <1>2 DEF SharedMoves, Untold, TurnTold, CanaryTold
    <2>2. RolloutFields \subseteq DOMAIN redis'.canary
      BY <1>8 DEF CanaryFits
    <2> QED
      BY <1>1, <1>2, <1>4, <2>1, <2>2 DEF BooksShape
  <1>10. /\ Times' /\ Early' = Early /\ CanaryFits(redis.canary, st)'
         /\ Kept(redis'.canary) => Kept(redis.canary)'
    BY <1>1, <1>2, <1>8, SameTimes
  <1>11. st[s].guard /\ st'[s].pc = "done" => ~EndedWell(st'[s]) /\ st'[s].canary
    <2>1. st'[s].pc = "done" => ~st'[s].guard
      BY <1>2 DEF TurnFits, Unsent, Undelivered, Planned, Accounting
    <2>2. st[s].guard => st[s].canary
      BY <1>1 DEF TurnFits
    <2> QED
      BY <1>2, <2>1, <2>2 DEF Lawful
  <1>12. ReportsAreDue'
    <2> SUFFICES ASSUME NEW t \in tasks'
                 PROVE  /\ "kind" \in DOMAIN t
                        /\ t.kind = "c_record" =>
                             /\ t.id \in DOMAIN calls /\ st'[t.id].pc = "done"
                             /\ ~EndedWell(st'[t.id]) /\ st'[t.id].canary
      BY <1>2 DEF ReportsAreDue
    <2>1. CASE t \in tasks
      <3>1. t.kind = "c_record" => t.id # s
        BY <1>1, <1>2, <2>1 DEF ReportsAreDue
      <3> QED
        BY <1>1, <1>5, <2>1, <3>1 DEF ReportsAreDue
    <2>2. CASE t \notin tasks
      <3>1. \/ t \in {Task("release_lease", s), Task("release_budget", s)}
            \/ t = Task("c_record", s) /\ st'[s].pc = "done" /\ st[s].guard
        BY <1>2, <2>2 DEF SlotMoves
      <3>2. CASE t \in {Task("release_lease", s), Task("release_budget", s)}
        <4>1. /\ "kind" \in DOMAIN Task("release_lease", s) /\ Task("release_lease", s).kind # "c_record"
              /\ "kind" \in DOMAIN Task("release_budget", s) /\ Task("release_budget", s).kind # "c_record"
          BY DEF Task
        <4> QED
          BY <3>2, <4>1
      <3>3. CASE t = Task("c_record", s) /\ st'[s].pc = "done" /\ st[s].guard
        <4>1. "kind" \in DOMAIN t /\ t.id = s
          BY <3>3 DEF Task
        <4> QED
          BY <1>3, <1>11, <3>3, <4>1
      <3> QED
        BY <3>1, <3>2, <3>3
    <2> QED
      BY <2>1, <2>2
  <1>13. NoneForgotten'
    <2> SUFFICES ASSUME faults' + drops' = 0, Early'
                 PROVE  Kept(redis.canary)' /\ \A x \in DOMAIN calls : st'[x].canary => Reported(x)'
      BY <1>2 DEF NoneForgotten
    <2>1. faults + drops = 0
      BY <1>4, SomeMishap, Zenon
    <2>2. Kept(redis.canary) /\ \A x \in DOMAIN calls : st[x].canary => Reported(x)
      BY <1>1, <1>10, <2>1 DEF NoneForgotten
    <2>3. /\ redis.canary.seen \subseteq redis'.canary.seen /\ Kept(redis'.canary)
          /\ st[s].pc = "c_record" => s \in redis'.canary.seen
      BY <1>8, <1>10, <2>2
    <2>4. tasks \subseteq tasks' /\ (st'[s].pc = "done" /\ st[s].guard => Task("c_record", s) \in tasks')
      BY <1>2 DEF SlotMoves
    <2>5. ASSUME NEW x \in DOMAIN calls, x # s, st'[x].canary PROVE Reported(x)'
      BY <1>5, <2>2, <2>3, <2>4, <2>5 DEF Reported
    <2>6. ASSUME st'[s].canary PROVE Reported(s)'
      <3>1. CASE ~st[s].canary
        BY <1>2, <2>6, <3>1 DEF Lawful, Reported
      <3>2. CASE st[s].canary /\ st[s].guard
        BY <1>2, <2>4, <3>2 DEF Lawful, Reported
      <3>3. CASE st[s].canary /\ ~st[s].guard
        BY <1>3, <2>2, <2>3, <2>4, <3>3 DEF Reported
      <3> QED
        BY <3>1, <3>2, <3>3
    <2> QED
      BY <1>10, <2>3, <2>5, <2>6
  <1>14. DOMAIN calls' \subseteq Slots /\ \A x \in Slots \ DOMAIN calls' : st'[x].pc = "done"
    BY <1>1, <1>2, <1>3 DEF CanaryInv
  <1> QED
    BY <1>9, <1>10, <1>12, <1>13, <1>14 DEF CanaryInv

LEMMA BackgroundKeepsCanary ==
  ASSUME CanaryInv, Background
  PROVE  CanaryInv'
PROOF
  <1>1. /\ BooksShape /\ DOMAIN calls \subseteq Slots /\ Times /\ faults \in Nat /\ drops \in Nat
        /\ CanaryFits(redis.canary, st) /\ ReportsAreDue /\ NoneForgotten
    BY DEF CanaryInv, BooksShape
  <1>2. PICK t \in tasks : BackgroundMoves(t)
    BY <1>1, BackgroundTells
  <1>3. /\ UNCHANGED <<world, calls, st, now, drops>> /\ faults' \in Nat /\ faults <= faults'
        /\ \/ Untold(redis')
           \/ t.kind = "c_record" /\ CanaryTold(t.id, FALSE, redis')
        /\ tasks \ {t} \subseteq tasks'
    BY <1>2, Zenon DEF BackgroundMoves
  <1>4. /\ "kind" \in DOMAIN t
        /\ t.kind = "c_record" =>
             t.id \in DOMAIN calls /\ st[t.id].pc = "done" /\ ~EndedWell(st[t.id]) /\ st[t.id].canary
    BY <1>1 DEF ReportsAreDue
  <1>5. StoreFields \subseteq DOMAIN redis' /\ RolloutFields \subseteq DOMAIN redis'.canary
    BY <1>1, <1>3, ToldKeepsShape
  <1>6. BooksShape'
    BY <1>1, <1>3, <1>5 DEF BooksShape
  <1>7. /\ CanaryFits(redis'.canary, st)
        /\ Early /\ Kept(redis.canary) =>
             redis.canary.seen \subseteq redis'.canary.seen /\ Kept(redis'.canary)
    <2>1. CASE Untold(redis')
      BY <1>1, <2>1, QuietCallsFit
    <2>2. CASE t.kind = "c_record" /\ CanaryTold(t.id, FALSE, redis')
      <3>1. st[t.id].pc \in Recorded
        BY <1>4, <2>2 DEF Recorded
      <3> QED
        BY <1>1, <1>4, <2>2, <3>1, ReportsFit
    <2> QED
      BY <1>3, <2>1, <2>2
  <1>8. t.kind = "c_record" /\ faults' + drops' = 0 /\ Early /\ Kept(redis.canary) => t.id \in redis'.canary.seen
    <2> SUFFICES ASSUME t.kind = "c_record", faults' + drops' = 0, Early, Kept(redis.canary)
                 PROVE  t.id \in redis'.canary.seen
      OBVIOUS
    <2>1. CanaryTold(t.id, FALSE, redis')
      BY <1>2, Zenon DEF BackgroundMoves
    <2>2. st[t.id].pc \in Recorded
      BY <1>4 DEF Recorded
    <2> QED
      BY <1>1, <1>4, <2>1, <2>2, ReportsFit
  <1>9. /\ Times' /\ Early' = Early /\ CanaryFits(redis.canary, st)'
        /\ Kept(redis'.canary) => Kept(redis.canary)'
    BY <1>1, <1>3, <1>7, SameTimes
  <1>10. ReportsAreDue'
    <2> SUFFICES ASSUME NEW x \in tasks'
                 PROVE  /\ "kind" \in DOMAIN x
                        /\ x.kind = "c_record" =>
                             /\ x.id \in DOMAIN calls /\ st[x.id].pc = "done"
                             /\ ~EndedWell(st[x.id]) /\ st[x.id].canary
      BY <1>3 DEF ReportsAreDue
    <2>1. CASE x \in tasks
      BY <1>1, <2>1 DEF ReportsAreDue
    <2>2. CASE x \notin tasks
      <3>1. \/ x = [t EXCEPT !.kind = "c_snapshot"]
            \/ \E reason : x = [t EXCEPT !.kind = "c_trip", !.reason = reason]
        BY <1>2, <2>2, Zenon DEF BackgroundMoves
      <3>2. CASE x = [t EXCEPT !.kind = "c_snapshot"]
        BY <1>4, <3>2
      <3>3. CASE \E reason : x = [t EXCEPT !.kind = "c_trip", !.reason = reason]
        BY <1>4, <3>3
      <3> QED
        BY <3>1, <3>2, <3>3, Zenon
    <2> QED
      BY <2>1, <2>2
  <1>11. NoneForgotten'
    <2> SUFFICES ASSUME faults' + drops' = 0, Early'
                 PROVE  Kept(redis.canary)' /\ \A x \in DOMAIN calls : st[x].canary => Reported(x)'
      BY <1>3 DEF NoneForgotten
    <2>1. faults + drops = 0
      <3>1. drops' \in Nat /\ drops <= drops'
        BY <1>1, <1>3
      <3> QED
        BY <1>1, <1>3, <3>1, SomeMishap, Zenon
    <2>2. Kept(redis.canary) /\ \A x \in DOMAIN calls : st[x].canary => Reported(x)
      BY <1>1, <1>9, <2>1 DEF NoneForgotten
    <2>3. /\ redis.canary.seen \subseteq redis'.canary.seen /\ Kept(redis'.canary)
          /\ t.kind = "c_record" => t.id \in redis'.canary.seen
      BY <1>7, <1>8, <1>9, <2>2
    <2>4. ASSUME NEW x \in DOMAIN calls, Reported(x) PROVE Reported(x)'
      <3>1. CASE Task("c_record", x) = t
        <4>1. Task("c_record", x).kind = "c_record" /\ Task("c_record", x).id = x
          BY DEF Task
        <4>2. t.kind = "c_record" /\ t.id = x
          BY <3>1, <4>1
        <4> QED
          BY <2>3, <4>2 DEF Reported
      <3>2. CASE Task("c_record", x) # t
        BY <1>3, <2>3, <2>4, <3>2 DEF Reported
      <3> QED
        BY <3>1, <3>2
    <2> QED
      BY <1>9, <2>2, <2>3, <2>4
  <1> QED
    BY <1>3, <1>6, <1>9, <1>10, <1>11 DEF CanaryInv

LEMMA StandingStillKeepsCanary ==
  ASSUME CanaryInv, UNCHANGED <<world, calls, st, redis, tasks, now, faults, drops>>
  PROVE  CanaryInv'
PROOF
  <1>1. BooksShape' /\ ReportsAreDue'
    BY DEF CanaryInv, BooksShape, ReportsAreDue
  <1>2. /\ Times' /\ Early' = Early /\ CanaryFits(redis.canary, st)'
        /\ Kept(redis.canary) => Kept(redis.canary)'
    BY SameTimes DEF CanaryInv
  <1>3. \A x : Reported(x)' = Reported(x)
    BY DEF Reported
  <1>4. NoneForgotten'
    BY <1>2, <1>3 DEF CanaryInv, NoneForgotten
  <1> QED
    BY <1>1, <1>2, <1>4 DEF CanaryInv

LEMMA TickKeepsCanary ==
  ASSUME CanaryInv, Tick
  PROVE  CanaryInv'
PROOF
  <1>1. /\ UNCHANGED <<world, calls, st, redis, tasks, faults, drops>> /\ now' = now + 1
        /\ now \in Nat /\ Span \in Nat \ {0} /\ world.canary.hold \in Nat \ {0} /\ Span' = Span
    BY DEF Tick, fixed, CanaryInv, Times, Span
  <1>2. Window \in Nat /\ Window' \in Nat /\ Window <= Window'
    <2>1. now \div Span \in Nat /\ (now + 1) \div Span \in Nat /\ (now + 1) \div Span >= now \div Span
      BY <1>1, Windows
    <2> QED
      BY <1>1, <2>1 DEF Window
  <1>3. Times' /\ (Early' => Early)
    BY <1>1 DEF Times, Early
  <1>4. /\ RolloutFields \subseteq DOMAIN redis.canary /\ HashFits(redis.canary.hash)
        /\ redis.canary.seenExpires \in Nat
        /\ redis.canary.hash.window = Window =>
             Matches(redis.canary.hash, redis.canary.seen, redis.canary.seenExpires, st)
        /\ \A s \in redis.canary.seen : s \in DOMAIN calls /\ st[s].pc \in Recorded /\ st[s].canary
    BY DEF CanaryInv, CanaryFits
  <1>5. HashFits(redis.canary.hash)'
    BY <1>1, <1>2, <1>4 DEF HashFits
  <1>6. ASSUME redis.canary.hash.window = Window'
        PROVE  Matches(redis.canary.hash, redis.canary.seen, redis.canary.seenExpires, st)'
    <2>1. Window' = Window
      BY <1>2, <1>4, <1>6 DEF HashFits
    <2>2. Matches(redis.canary.hash, redis.canary.seen, redis.canary.seenExpires, st)
      BY <1>4, <1>6, <2>1
    <2>3. ASSUME Lasting(redis.canary.seenExpires) PROVE Lasting(redis.canary.seenExpires)'
      <3>1. PICK t \in 0 .. now : t \div Span = Window /\ redis.canary.seenExpires = t + 2 * Span
        BY <2>3 DEF Lasting
      <3>2. t \in 0 .. now'
        BY <1>1
      <3> QED
        BY <1>1, <2>1, <3>1, <3>2 DEF Lasting
    <2> QED
      BY <1>1, <2>2, <2>3 DEF Matches, Wrong
  <1>7. CanaryFits(redis.canary, st)'
    BY <1>1, <1>4, <1>5, <1>6 DEF CanaryFits
  <1>8. Kept(redis.canary)' = Kept(redis.canary) /\ \A x : Reported(x)' = Reported(x)
    BY <1>1 DEF Kept, Reported
  <1>9. NoneForgotten' /\ BooksShape' /\ ReportsAreDue'
    BY <1>1, <1>3, <1>8 DEF CanaryInv, NoneForgotten, BooksShape, ReportsAreDue
  <1> QED
    BY <1>1, <1>3, <1>7, <1>9 DEF CanaryInv

LEMMA InitCanary == Init => CanaryInv
PROOF
  <1> SUFFICES ASSUME Init PROVE CanaryInv
    OBVIOUS
  <1>1. /\ BooksShape /\ DOMAIN calls \subseteq Slots /\ \A s \in Slots \ DOMAIN calls : st[s].pc = "done"
        /\ \A s \in Slots : ~st[s].canary
        /\ world.canary.window \in Nat \ {0} /\ world.canary.hold \in Nat \ {0}
    BY InitBooksShape, Zenon
  <1>2. now \in Nat /\ tasks = {} /\ redis.canary = NewRollout
    BY DEF Init
  <1>3. Times
    BY <1>1, <1>2 DEF Times, Span
  <1>4. /\ RolloutFields \subseteq DOMAIN NewRollout /\ NewRollout.hash = NoHash
        /\ NewRollout.seen = {} /\ NewRollout.seenExpires \in Nat
    BY <1>3, NoHashFits DEF NewRollout, RolloutFields
  <1>5. CanaryFits(redis.canary, st) /\ Kept(redis.canary)
    BY <1>2, <1>3, <1>4, NoHashFits DEF CanaryFits, Kept
  <1> QED
    BY <1>1, <1>2, <1>3, <1>5 DEF CanaryInv, ReportsAreDue, NoneForgotten

LEMMA NextKeepsCanary == CanaryInv /\ [Next]_vars => CanaryInv'
PROOF
  <1> SUFFICES ASSUME CanaryInv, [Next]_vars PROVE CanaryInv'
    OBVIOUS
  <1>1. ASSUME NEW s \in Slots, Label(s) PROVE CanaryInv'
    <2>1. UNCHANGED <<world, calls, st, redis, tasks, now, faults, drops>>
      BY <1>1, Zenon DEF Label, NoRedis, fixed
    <2> QED
      BY <2>1, StandingStillKeepsCanary
  <1>2. CASE UNCHANGED vars
    BY <1>2, StandingStillKeepsCanary DEF vars
  <1>3. ASSUME NEW s \in Slots, Walks(s) PROVE CanaryInv'
    BY <1>3, WalksKeepCanary
  <1>4. BooksShape
    BY DEF CanaryInv
  <1> QED
    BY <1>1, <1>2, <1>3, <1>4, StepWalks, TickKeepsCanary, BackgroundKeepsCanary DEF Next

(* A canary request is one outcome of its window, an error exactly when it *)
(* did not end well, however its report was made: by its handler, by the   *)
(* task its dropped guard left, late, or after the window was rolled; and  *)
(* without a mishap none of the first window is missing                    *)
(* (record_canary_outcome, lib.rs:293).                                    *)
THEOREM EachCanaryCountedOnce == Spec => []CanaryCounted
PROOF
  <1>1. CanaryInv => CanaryCounted
    <2> SUFFICES ASSUME CanaryInv PROVE CanaryCounted
      OBVIOUS
    <2> DEFINE seen == redis.canary.seen
    <2>1. /\ CanaryFits(redis.canary, st) /\ NoneForgotten
          /\ \A s \in Slots : TurnFits(st[s])
          /\ DOMAIN calls \subseteq Slots
      BY DEF CanaryInv, BooksShape
    <2>2. Wrong(seen, st) = {s \in seen : ~CanarySucceeded(s)}
      BY DEF Wrong, EndedWell, CanarySucceeded
    <2>3. redis.canary.hash.window = now \div world.canary.window =>
            /\ redis.canary.hash.requests = Cardinality(seen)
            /\ redis.canary.hash.errors = Cardinality({s \in seen : ~CanarySucceeded(s)})
      BY <2>1, <2>2 DEF CanaryFits, Matches, Window, Span
    <2>4. ASSUME Healthy, Quiet, now < world.canary.window, now < world.canary.hold
          PROVE  seen = {s \in DOMAIN calls : st[s].canary}
      <3>1. \A s \in DOMAIN calls : st[s].canary => Reported(s)
        BY <2>1, <2>4 DEF NoneForgotten, Healthy, Early, Span
      <3>2. \A s \in DOMAIN calls : ~st[s].guard /\ st[s].pc = "done"
        <4>1. "done" \notin Unsent \cup Accounting
          BY DEF Unsent, Undelivered, Planned, Accounting
        <4>2. ASSUME NEW s \in DOMAIN calls PROVE ~st[s].guard /\ st[s].pc = "done"
          <5>1. st[s].pc = "done" /\ TurnFits(st[s])
            BY <2>1, <2>4 DEF Quiet
          <5> QED
            BY <4>1, <5>1, Zenon DEF TurnFits
        <4> QED
          BY <4>2
      <3>3. \A s \in DOMAIN calls : st[s].canary => s \in seen
        BY <2>4, <3>1, <3>2 DEF Reported, Quiet
      <3>4. \A s \in seen : s \in DOMAIN calls /\ st[s].canary
        BY <2>1 DEF CanaryFits
      <3> QED
        BY <3>3, <3>4
    <2> QED
      BY <2>3, <2>4 DEF CanaryCounted
  <1> QED
    BY <1>1, InitCanary, NextKeepsCanary, PTL DEF Spec
=============================================================================
