-------------------------- MODULE Delivery_proofs --------------------------
(***************************************************************************)
(* What TLAPS proves about the delivery of one request, for any models,    *)
(* tiers, fallbacks, pools and retries that configuration validation lets  *)
(* through.                                                                *)
(*                                                                         *)
(* The plan is computed by a recursive function over positions, so the     *)
(* first part proves what that computes, by a least counterexample.        *)
(* The last part is about the fleet's circuit for a target (FleetHealth).  *)
(***************************************************************************)
EXTENDS Delivery, FleetHealth, FiniteSetTheorems, SequenceTheorems, WellFoundedInduction, TLAPS

(* The order of the numbers, as a relation.                                *)
LEMMA LessThanRelation == OpToRel(<, Nat) = {ss \in Nat \X Nat : ss[1] < ss[2]}
PROOF
  BY Zenon DEF OpToRel

(* Every set of numbers that is not empty has a least one.                 *)
LEMMA LeastNumber ==
  ASSUME NEW T \in SUBSET Nat, T # {}
  PROVE  \E x \in T : \A y \in T : x <= y
PROOF
<1> DEFINE R == {ss \in Nat \X Nat : ss[1] < ss[2]}
<1>1. IsWellFoundedOn(R, Nat)
  BY LessThanRelation, NatLessThanWellFounded, Zenon
<1>2. \A a, b \in Nat : <<a, b>> \in R <=> a < b
  OBVIOUS
<1> HIDE DEF R
<1>3. PICK x \in T : \A y \in T : ~ (<<y, x>> \in R)
  BY <1>1, WFMin
<1>4. ASSUME NEW y \in T PROVE x <= y
  <2>1. x \in Nat /\ y \in Nat
    OBVIOUS
  <2>2. ~(y < x)
    BY <1>2, <1>3, <2>1
  <2> QED BY <2>1, <2>2
<1> QED BY <1>4

(* A set of numbers with zero and every successor has them all.            *)
LEMMA AllNumbers ==
  ASSUME NEW S \in SUBSET Nat, 0 \in S, \A n \in S : n + 1 \in S
  PROVE  \A n \in Nat : n \in S
PROOF
<1> SUFFICES ASSUME Nat \ S # {} PROVE FALSE
  OBVIOUS
<1>1. PICK x \in Nat \ S : \A y \in Nat \ S : x <= y
  BY LeastNumber
<1>2. x - 1 \in S
  BY <1>1
<1> QED BY <1>1, <1>2

-----------------------------------------------------------------------------
(* What FirstsIn computes. *)

(* Entry i of the table is what is kept of the first i elements.           *)
Entry(g, s, S, i) ==
  IF i = 0 THEN <<>>
  ELSE IF s[i] \in S /\ ~Contains(g[i - 1], s[i]) THEN Append(g[i - 1], s[i]) ELSE g[i - 1]

TableOn(g, s, S, n) == g = [i \in 0..n |-> Entry(g, s, S, i)]

KeptTable(s, S) == CHOOSE g : TableOn(g, s, S, Len(s))

(* FirstsIn is the last entry of the table.                                *)
LEMMA FirstsInIsTable ==
  ASSUME NEW s, NEW S
  PROVE  FirstsIn(s, S) = KeptTable(s, S)[Len(s)]
PROOF
  BY DEF FirstsIn, KeptTable, TableOn, Entry

(* The table exists for any number of elements.                            *)
LEMMA TableExists ==
  ASSUME NEW s, NEW S
  PROVE  \A n \in Nat : \E g : TableOn(g, s, S, n)
PROOF
<1> DEFINE P == {n \in Nat : \E g : TableOn(g, s, S, n)}
<1>1. 0 \in P
  <2> DEFINE h == [i \in 0..0 |-> <<>>]
  <2>1. \A i \in 0..0 : Entry(h, s, S, i) = <<>>
    BY DEF Entry
  <2>2. TableOn(h, s, S, 0)
    BY <2>1 DEF TableOn
  <2> QED BY <2>2
<1>2. ASSUME NEW n \in P PROVE n + 1 \in P
  <2>1. PICK g : TableOn(g, s, S, n)
    OBVIOUS
  <2> DEFINE h == [i \in 0..(n + 1) |-> IF i = n + 1 THEN Entry(g, s, S, i) ELSE g[i]]
  <2>2. n \in Nat /\ n + 1 \in Nat /\ \A i \in 0..(n + 1) : i \in Nat /\ (i = n + 1 \/ i \in 0..n)
    OBVIOUS
  <2>3. \A i \in 0..n : h[i] = g[i]
    OBVIOUS
  <2>4. ASSUME NEW i \in 0..(n + 1) PROVE h[i] = Entry(h, s, S, i)
    <3>1. Entry(h, s, S, i) = Entry(g, s, S, i)
      <4>1. CASE i = 0
        BY <4>1 DEF Entry
      <4>2. CASE i # 0
        <5>1. i - 1 \in 0..n
          BY <4>2
        <5>2. h[i - 1] = g[i - 1]
          BY <2>3, <5>1
        <5> HIDE DEF h
        <5> QED BY <5>2 DEF Entry
      <4> QED BY <4>1, <4>2
    <3>2. CASE i = n + 1
      BY <3>1, <3>2
    <3>3. CASE i \in 0..n
      <4>1. g[i] = Entry(g, s, S, i)
        BY <2>1, <3>3 DEF TableOn
      <4> QED BY <2>3, <3>1, <3>3, <4>1
    <3> QED BY <2>2, <3>2, <3>3
  <2>5. h = [i \in 0..(n + 1) |-> h[i]]
    OBVIOUS
  <2> HIDE DEF h
  <2>6. TableOn(h, s, S, n + 1)
    BY <2>4, <2>5 DEF TableOn
  <2> QED BY <2>2, <2>6
<1> HIDE DEF P
<1>3. P \in SUBSET Nat
  BY DEF P
<1>4. \A n \in Nat : n \in P
  BY <1>1, <1>2, <1>3, AllNumbers
<1> QED BY <1>4 DEF P

(* What is kept is in S, is in s, and is there once.                       *)
LEMMA FirstsInKeeps ==
  ASSUME NEW T, NEW s \in Seq(T), NEW S \in SUBSET T
  PROVE  /\ FirstsIn(s, S) \in Seq(S)
         /\ \A i, j \in DOMAIN FirstsIn(s, S) : FirstsIn(s, S)[i] = FirstsIn(s, S)[j] => i = j
         /\ \A i \in DOMAIN FirstsIn(s, S) : Contains(s, FirstsIn(s, S)[i])
PROOF
<1> DEFINE g == KeptTable(s, S)
<1>0. Len(s) \in Nat
  OBVIOUS
<1>1. TableOn(g, s, S, Len(s))
  BY <1>0, TableExists DEF KeptTable
<1> HIDE DEF g
<1>2. \A i \in 0..Len(s) : g[i] = Entry(g, s, S, i)
  BY <1>1 DEF TableOn
<1> DEFINE Good(k) == /\ k \in Seq(S)
                      /\ \A i, j \in DOMAIN k : k[i] = k[j] => i = j
                      /\ \A i \in DOMAIN k : Contains(s, k[i])
           P == {n \in Nat : n <= Len(s) => Good(g[n])}
<1>3. 0 \in P
  <2>1. g[0] = <<>>
    BY <1>0, <1>2 DEF Entry
  <2>2. Good(<<>>)
    OBVIOUS
  <2> QED BY <2>1, <2>2
<1>4. ASSUME NEW n \in P PROVE n + 1 \in P
  <2> SUFFICES ASSUME n + 1 <= Len(s) PROVE Good(g[n + 1])
    OBVIOUS
  <2>0. n \in Nat /\ n + 1 \in 0..Len(s) /\ n + 1 \in 1..Len(s) /\ n + 1 # 0 /\ (n + 1) - 1 = n /\ Good(g[n])
    BY <1>0
  <2> DEFINE k == g[n]
             e == s[n + 1]
  <2>1. g[n + 1] = IF e \in S /\ ~Contains(k, e) THEN Append(k, e) ELSE k
    BY <1>2, <2>0 DEF Entry
  <2>2. Good(k) /\ Contains(s, e)
    BY <2>0 DEF Contains
  <2> HIDE DEF k, e
  <2>3. CASE e \in S /\ ~Contains(k, e)
    <3>1. Append(k, e) \in Seq(S)
      BY <2>2, <2>3
    <3>2. ASSUME NEW i \in DOMAIN Append(k, e)
          PROVE  /\ i \in 1..(Len(k) + 1)
                 /\ i # Len(k) + 1 => i \in DOMAIN k /\ i \in 1..Len(k) /\ Append(k, e)[i] = k[i]
                 /\ i = Len(k) + 1 => Append(k, e)[i] = e
      BY <2>2
    <3>3. ASSUME NEW i \in DOMAIN Append(k, e), NEW j \in DOMAIN Append(k, e),
                 Append(k, e)[i] = Append(k, e)[j]
          PROVE  i = j
      BY <2>2, <2>3, <3>2, <3>3 DEF Contains
    <3>4. ASSUME NEW i \in DOMAIN Append(k, e) PROVE Contains(s, Append(k, e)[i])
      BY <2>2, <3>2
    <3> QED BY <2>1, <2>3, <3>1, <3>3, <3>4
  <2>4. CASE ~(e \in S /\ ~Contains(k, e))
    BY <2>1, <2>2, <2>4
  <2> QED BY <2>3, <2>4
<1> HIDE DEF P
<1>5. P \in SUBSET Nat
  BY DEF P
<1>6. \A n \in Nat : n \in P
  BY <1>3, <1>4, <1>5, AllNumbers
<1>7. Good(g[Len(s)])
  BY <1>0, <1>6 DEF P
<1>8. FirstsIn(s, S) = g[Len(s)]
  BY FirstsInIsTable DEF g
<1> QED BY <1>7, <1>8

-----------------------------------------------------------------------------
(* The inductive invariant. *)

(* A deployment the request may call: of a model in the configured         *)
(* direction, and on loopback if the request is offline.                   *)
Reachable(d) ==
  \E m \in Models : MayCall(m) /\ d \in eligible_deployment_targets(request, m)

(* What is still ahead of the walk.                                        *)
AheadInPlan(d) == \E i \in DOMAIN plan : d \in Pool[plan[i]]
AheadInTargets(d) == \E i \in DOMAIN targets : targets[i] = d

(* The walk comes to no deployment twice.                                  *)
AheadInv ==
  /\ \A i, j \in DOMAIN plan : plan[i] = plan[j] => i = j
  /\ \A i, j \in DOMAIN targets : targets[i] = targets[j] => i = j
  /\ \A d \in Deployments : ~(AheadInPlan(d) /\ AheadInTargets(d))
  /\ \A d \in Deployments :
       AheadInPlan(d) \/ AheadInTargets(d) => sends[d] = 0 /\ attempt[d] = "none" /\ last[d] = "none"

(* It comes only to deployments the request may call.                      *)
DirectionInv ==
  /\ \A i \in DOMAIN plan : MayCall(plan[i])
  /\ \A i \in DOMAIN targets : Reachable(targets[i])
  /\ current # None => Reachable(current)
  /\ \A d \in Deployments : sends[d] > 0 => Reachable(d)

(* The attempts the loops own, by the await they are at.                   *)
LoopInv ==
  /\ current # None <=> at \in {"send", "backoff"}
  /\ current # None => attempt[current] = "held" /\ sends[current] = tries
  /\ established # None =>
       /\ attempt[established] = "held" /\ last[established] = "success"
       /\ established # current /\ request.mode = "streaming"
  /\ at = "relay" => established # None
  /\ at = "done" => established = None
  /\ at = "plan" => established = None
  /\ result = "pending" <=> at # "done"

(* A buffered request that is not over has no answer yet.                  *)
AnswerInv ==
  /\ BufferedAnswersOnce
  /\ request.mode = "buffered" /\ result = "pending" => \A d \in Deployments : last[d] \notin Answers

IInv ==
  /\ TypeOK /\ AheadInv /\ DirectionInv /\ LoopInv /\ AnswerInv
  /\ EveryAttemptSettled /\ FateMatchesUpstream

-----------------------------------------------------------------------------
(* The plan. *)

(* A model of the ladder has a first tier.                                 *)
LEMMA PositionIsTier ==
  ASSUME ConstantsArePlans, NEW m, Contains(Ladder, m)
  PROVE  position(m) \in 1..Len(Ladder)
PROOF
<1>0. Ladder \in Seq(Models) /\ Len(Ladder) \in Nat /\ DOMAIN Ladder = 1..Len(Ladder)
  BY DEF ConstantsArePlans
<1> DEFINE T == {i \in 1..Len(Ladder) : Ladder[i] = m}
<1>1. T \in SUBSET Nat /\ T # {}
  BY <1>0 DEF Contains
<1>2. PICK x \in T : \A y \in T : x <= y
  BY <1>1, LeastNumber
<1>3. \A j \in 1..(x - 1) : Ladder[j] # m
  BY <1>0, <1>2
<1>4. x \in DOMAIN Ladder /\ Ladder[x] = m /\ \A j \in 1..(x - 1) : Ladder[j] # m
  BY <1>0, <1>3
<1>5. position(m) \in DOMAIN Ladder
  BY <1>4 DEF position
<1> QED BY <1>0, <1>5

(* The cross-tier candidates are in the direction of the policy.           *)
LEMMA FailoverIsDirected ==
  ASSUME ConstantsArePlans, NEW c, NEW policy \in {"same-tier", "degrade", "escalate"}
  PROVE  /\ failover_candidates(c, policy) \in Seq(Models)
         /\ \A k \in DOMAIN failover_candidates(c, policy) :
              /\ Contains(Ladder, c)
              /\ \E i \in DOMAIN Ladder :
                   /\ Ladder[i] = failover_candidates(c, policy)[k]
                   /\ \/ policy = "degrade" /\ i < position(c)
                      \/ policy = "escalate" /\ i > position(c)
PROOF
<1> DEFINE f == failover_candidates(c, policy)
           n == Len(Ladder)
           p == position(c)
<1>0. Ladder \in Seq(Models) /\ n \in Nat /\ DOMAIN Ladder = 1..n /\ \A i \in 1..n : Ladder[i] \in Models
  BY DEF ConstantsArePlans
<1>1. CASE ~Contains(Ladder, c) \/ policy = "same-tier"
  <2>1. f = <<>>
    BY <1>1 DEF failover_candidates
  <2> QED BY <2>1
<1>2. CASE Contains(Ladder, c) /\ policy = "degrade"
  <2>0. p \in 1..n
    BY <1>2, PositionIsTier
  <2> HIDE DEF p, n
  <2> DEFINE u == SubSeq(Ladder, 1, p - 1)
  <2>1. Len(u) = p - 1 /\ \A i \in 1..(p - 1) : u[i] = Ladder[i]
    BY <1>0, <2>0 DEF n
  <2>2. f = [i \in 1..Len(u) |-> u[(Len(u) - i) + 1]]
    BY <1>2 DEF failover_candidates, Reverse, p
  <2> HIDE DEF u
  <2>3. f = [i \in 1..(p - 1) |-> u[((p - 1) - i) + 1]]
    BY <2>1, <2>2
  <2> HIDE DEF f
  <2>4. ASSUME NEW k \in 1..(p - 1)
        PROVE  (p - k) \in 1..n /\ p - k < p /\ f[k] = Ladder[p - k]
    <3>1. ((p - 1) - k) + 1 = p - k /\ (p - k) \in 1..(p - 1) /\ (p - k) \in 1..n
      BY <1>0, <2>0
    <3> QED BY <2>0, <2>1, <2>3, <3>1
  <2>5. f \in [1..(p - 1) -> Models] /\ DOMAIN f = 1..(p - 1)
    BY <1>0, <2>3, <2>4
  <2>6. p - 1 \in Nat
    BY <2>0, <1>0
  <2>7. f \in Seq(Models)
    BY <2>5, <2>6
  <2>8. ASSUME NEW k \in DOMAIN f PROVE \E i \in DOMAIN Ladder : Ladder[i] = f[k] /\ i < p
    BY <1>0, <2>4, <2>5
  <2> QED BY <1>2, <2>7, <2>8 DEF f, p
<1>3. CASE Contains(Ladder, c) /\ policy = "escalate"
  <2>0. p \in 1..n
    BY <1>3, PositionIsTier
  <2>1. f = SubSeq(Ladder, p + 1, n)
    BY <1>3 DEF failover_candidates
  <2> HIDE DEF p, n, f
  <2>2. f \in Seq(Models) /\ DOMAIN f = 1..(n - p) /\ \A k \in 1..(n - p) : f[k] = Ladder[p + k]
    BY <1>0, <2>0, <2>1
  <2>3. ASSUME NEW k \in DOMAIN f PROVE p + k \in DOMAIN Ladder /\ Ladder[p + k] = f[k] /\ p + k > p
    BY <1>0, <2>0, <2>2
  <2>4. \A k \in DOMAIN f : \E i \in DOMAIN Ladder : Ladder[i] = f[k] /\ i > p
    BY <2>3
  <2> QED BY <1>3, <2>2, <2>4 DEF f, p
<1> QED BY <1>1, <1>2, <1>3

(* What is known of a request.                                             *)
LEMMA RequestTypes ==
  ASSUME ConstantsArePlans, NEW r \in Requests
  PROVE  /\ r.mode \in {"buffered", "streaming"} /\ r.kind \in {"scored", "pinned", "preset"}
         /\ r.policy \in {"same-tier", "degrade", "escalate"} /\ r.offline \in BOOLEAN
         /\ r.chosen \in Models /\ delivery_name(r) \in Models
PROOF
<1>1. /\ r.mode \in {"buffered", "streaming"} /\ r.kind \in {"scored", "pinned", "preset"}
      /\ r.policy \in {"same-tier", "degrade", "escalate"} /\ r.offline \in BOOLEAN
      /\ r.chosen \in Models
  BY DEF Requests
<1>2. Ladder \in Seq(Models) /\ Ladder # <<>>
  BY DEF ConstantsArePlans
<1>3. Ladder[1] \in Models
  BY <1>2
<1> QED BY <1>1, <1>3 DEF delivery_name

(* Every candidate is one the policy of the request allows.                *)
LEMMA CandidatesAreAllowed ==
  ASSUME ConstantsArePlans, request \in Requests
  PROVE  /\ candidates(request) \in Seq(Models)
         /\ \A k \in DOMAIN candidates(request) : MayCall(candidates(request)[k])
PROOF
<1> DEFINE c == candidates(request)
           d == delivery_name(request)
<1>0. /\ request.kind \in {"scored", "pinned", "preset"}
      /\ request.policy \in {"same-tier", "degrade", "escalate"} /\ d \in Models
  BY RequestTypes
<1> HIDE DEF d
<1>1. CASE request.kind = "pinned"
  <2>1. c = <<>>
    BY <1>1, Zenon DEF candidates
  <2> QED BY <2>1
<1>2. CASE request.kind = "preset"
  <2> DEFINE S == Models \ {d}
  <2>1. c = FirstsIn(Preset, S)
    BY <1>2 DEF candidates, d
  <2>2. Preset \in Seq(Models) /\ S \in SUBSET Models
    BY DEF ConstantsArePlans
  <2> HIDE DEF S
  <2>3. FirstsIn(Preset, S) \in Seq(S) /\ \A k \in DOMAIN FirstsIn(Preset, S) : Contains(Preset, FirstsIn(Preset, S)[k])
    BY <2>2, FirstsInKeeps
  <2>4. c \in Seq(S) /\ \A k \in DOMAIN c : Contains(Preset, c[k])
    BY <2>1, <2>3
  <2> HIDE DEF c
  <2>5. c \in Seq(Models)
    BY <2>2, <2>4
  <2> QED BY <1>2, <2>4, <2>5 DEF c, MayCall
<1>3. CASE request.kind = "scored"
  <2> DEFINE a == FallbacksOf[d]
             b == IF request.offline THEN <<>> ELSE failover_candidates(request.chosen, request.policy)
  <2>1. c = a \o b
    BY <1>3 DEF candidates, d
  <2>2. a \in Seq(Models)
    BY <1>0 DEF ConstantsArePlans
  <2>3. b \in Seq(Models)
    BY <1>0, FailoverIsDirected
  <2>4. ASSUME NEW k \in DOMAIN b PROVE MayCall(b[k])
    <3>1. ~request.offline /\ b = failover_candidates(request.chosen, request.policy)
      BY <2>4
    <3> HIDE DEF b
    <3>2. /\ Contains(Ladder, request.chosen)
          /\ \E i \in DOMAIN Ladder :
               /\ Ladder[i] = b[k]
               /\ \/ request.policy = "degrade" /\ i < position(request.chosen)
                  \/ request.policy = "escalate" /\ i > position(request.chosen)
      BY <1>0, <3>1, FailoverIsDirected
    <3> QED BY <1>3, <3>2 DEF MayCall
  <2>5. ASSUME NEW k \in DOMAIN a PROVE MayCall(a[k])
    <3>1. Contains(a, a[k])
      BY <2>2 DEF Contains
    <3> QED BY <1>3, <3>1 DEF MayCall, d
  <2> HIDE DEF a, b, c
  <2>6. c \in Seq(Models)
    BY <2>1, <2>2, <2>3
  <2>7. ASSUME NEW k \in DOMAIN c PROVE MayCall(c[k])
    <3>1. CASE k \in DOMAIN a
      <4>1. c[k] = a[k]
        BY <2>1, <2>2, <2>3, <3>1
      <4> QED BY <2>5, <3>1, <4>1
    <3>2. CASE k \notin DOMAIN a
      <4>1. k - Len(a) \in DOMAIN b /\ c[k] = b[k - Len(a)]
        BY <2>1, <2>2, <2>3, <2>6, <3>2
      <4> QED BY <2>4, <4>1
    <3> QED BY <3>1, <3>2
  <2> QED BY <2>6, <2>7 DEF c
<1> QED BY <1>0, <1>1, <1>2, <1>3

(* The plan names allowed models, each once.                               *)
LEMMA PlanIsAllowed ==
  ASSUME ConstantsArePlans, request \in Requests, NEW open
  PROVE  /\ delivery_plan(request, open) \in Seq(Models)
         /\ \A i, j \in DOMAIN delivery_plan(request, open) :
              delivery_plan(request, open)[i] = delivery_plan(request, open)[j] => i = j
         /\ \A i \in DOMAIN delivery_plan(request, open) : MayCall(delivery_plan(request, open)[i])
PROOF
<1> DEFINE a == <<delivery_name(request)>>
           b == candidates(request)
           s == a \o b
           S == Eligible(request, open)
           p == delivery_plan(request, open)
<1>1. a \in Seq(Models) /\ Len(a) = 1 /\ a[1] = delivery_name(request) /\ DOMAIN a = 1..1
  BY RequestTypes
<1>2. b \in Seq(Models) /\ \A k \in DOMAIN b : MayCall(b[k])
  BY CandidatesAreAllowed
<1>3. S \in SUBSET Models
  BY DEF Eligible
<1>4. p = FirstsIn(s, S)
  BY DEF delivery_plan
<1>5. MayCall(a[1])
  BY <1>1 DEF MayCall
<1> HIDE DEF a, b, S, p
<1>6. s \in Seq(Models)
  BY <1>1, <1>2
<1>a. Len(a) = 1 /\ Len(b) \in Nat /\ DOMAIN b = 1..Len(b)
  BY <1>1, <1>2
<1>b. /\ Len(s) = 1 + Len(b) /\ s[1] = a[1] /\ DOMAIN b = 1..Len(b) /\ Len(b) \in Nat
      /\ \A k \in 2..(1 + Len(b)) : s[k] = b[k - 1]
  <2>1. Len(s) = Len(a) + Len(b) /\ \A k \in 1..(Len(a) + Len(b)) : s[k] = IF k <= Len(a) THEN a[k] ELSE b[k - Len(a)]
    BY <1>1, <1>2, ConcatProperties
  <2> HIDE DEF s
  <2>2. \A k \in 2..(1 + Len(b)) : k \in 1..(Len(a) + Len(b)) /\ ~(k <= Len(a)) /\ k - Len(a) = k - 1
    BY <1>a
  <2>3. 1 \in 1..(Len(a) + Len(b)) /\ 1 <= Len(a)
    BY <1>a
  <2> QED BY <1>a, <2>1, <2>2, <2>3
<1>7. ASSUME NEW m, Contains(s, m) PROVE MayCall(m)
  <2>1. PICK k \in 1..Len(s) : s[k] = m
    BY <1>7 DEF Contains
  <2>2. CASE k = 1
    <3>1. m = a[1]
      BY <1>b, <2>1, <2>2
    <3> QED BY <1>5, <3>1
  <2>3. CASE k # 1
    <3>1. k - 1 \in DOMAIN b /\ m = b[k - 1]
      BY <1>b, <2>1, <2>3
    <3> QED BY <1>2, <3>1
  <2> QED BY <2>2, <2>3
<1> HIDE DEF s
<1>8. /\ p \in Seq(S)
      /\ \A i, j \in DOMAIN p : p[i] = p[j] => i = j
      /\ \A i \in DOMAIN p : Contains(s, p[i])
  BY <1>3, <1>4, <1>6, FirstsInKeeps
<1>9. p \in Seq(Models)
  BY <1>3, <1>8
<1> QED BY <1>7, <1>8, <1>9 DEF p

-----------------------------------------------------------------------------
(* Each step preserves the invariant. *)

(* The pools of the models.                                                *)
LEMMA PoolFacts ==
  ASSUME ConstantsArePlans
  PROVE  /\ None \notin Deployments /\ Retries \in Nat
         /\ \A m \in Models : Pool[m] \subseteq Deployments /\ IsFiniteSet(Pool[m])
         /\ \A m, n \in Models, d \in Deployments : d \in Pool[m] /\ d \in Pool[n] => m = n
PROOF
  BY DEF ConstantsArePlans, Deployments

(* The first states.                                                       *)
LEMMA InitInv == ConstantsArePlans /\ Init => IInv
PROOF
<1> SUFFICES ASSUME ConstantsArePlans, Init PROVE IInv
  OBVIOUS
<1>0. Retries \in Nat /\ None \notin Deployments
  BY PoolFacts
<1>1. plan \in Seq(Models) /\ (\A i, j \in DOMAIN plan : plan[i] = plan[j] => i = j)
      /\ \A i \in DOMAIN plan : MayCall(plan[i])
  <2>1. request \in Requests
    BY DEF Init
  <2>2. PICK open \in SUBSET Models : plan = delivery_plan(request, open)
    BY DEF Init
  <2> QED BY <2>1, <2>2, PlanIsAllowed
<1>2. DOMAIN targets = {} /\ targets \in Seq(Deployments)
  BY DEF Init
<1>3. TypeOK
  BY <1>0, <1>1, <1>2 DEF TypeOK, Init, Awaits, Fates
<1>4. AheadInv
  BY <1>1, <1>2 DEF AheadInv, AheadInTargets, Init
<1>5. DirectionInv
  BY <1>1, <1>2 DEF DirectionInv, Init
<1>6. LoopInv
  BY DEF LoopInv, Init
<1>7. AnswerInv
  BY DEF AnswerInv, BufferedAnswersOnce, Answers, Init
<1>8. EveryAttemptSettled /\ FateMatchesUpstream
  BY DEF EveryAttemptSettled, FateMatchesUpstream, Init
<1> QED BY <1>3, <1>4, <1>5, <1>6, <1>7, <1>8 DEF IInv

(* A step that touches no deployment ahead of the walk.                    *)
LEMMA AheadKept ==
  ASSUME IInv, UNCHANGED <<plan, targets>>,
         \A d \in Deployments :
           attempt[d] = "none" => sends'[d] = sends[d] /\ attempt'[d] = attempt[d] /\ last'[d] = last[d]
  PROVE  AheadInv'
PROOF
  BY DEF IInv, AheadInv, AheadInPlan, AheadInTargets

(* A step that calls only deployments the request may call.                *)
LEMMA DirectionKept ==
  ASSUME IInv, UNCHANGED request, \A i \in DOMAIN plan' : MayCall(plan'[i]),
         \A i \in DOMAIN targets' : Reachable(targets'[i]),
         current' # None => Reachable(current'),
         \A d \in Deployments : sends'[d] > 0 => Reachable(d)
  PROVE  DirectionInv'
PROOF
<1>1. \A m : MayCall(m)' <=> MayCall(m)
  BY DEF MayCall
<1>2. \A d : Reachable(d)' <=> Reachable(d)
  BY <1>1 DEF Reachable
<1> QED BY <1>1, <1>2 DEF DirectionInv

(* What a circuit may have heard of a deployment, by its last result and   *)
(* the number of calls.                                                    *)
FateIs(fate, res, n) ==
  /\ fate = "succeeded" => res \in {"success", "client_error"}
  /\ fate = "failed" => \/ res \in {"auth_failure", "fatal", "relay_failure"}
                        \/ res \in Retryable /\ n = Retries + 1
  /\ fate = "released" => res \in Fatal \union {"relay_neutral"}

LEMMA FatesAre == FateMatchesUpstream <=> \A d \in Deployments : FateIs(attempt[d], last[d], sends[d])
PROOF
  BY DEF FateMatchesUpstream, FateIs

Outcomes == {"served", "exhausted", "error", "state_error", "cancelled"}

(* A step that returns, having settled the attempt in hand as f says.      *)
LEMMA ReturnKeeps ==
  ASSUME ConstantsArePlans, IInv, at # "done", NEW outcome \in Outcomes,
         NEW f \in [Deployments -> Fates], Return(outcome, f),
         UNCHANGED <<request, plan, targets, tries>>,
         sends' \in [Deployments -> 0..(Retries + 1)],
         last' \in [Deployments -> {"none"} \union Results \union RelayResults],
         \A d \in Deployments :
           d # current => f[d] = attempt[d] /\ sends'[d] = sends[d] /\ last'[d] = last[d],
         current # None =>
           /\ f[current] \notin {"none", "held"}
           /\ FateIs(f[current], last'[current], sends'[current])
           /\ request.mode = "buffered" /\ last'[current] \in Answers => outcome = "served"
  PROVE  IInv'
PROOF
<1>0. None \notin Deployments /\ Retries \in Nat
  BY PoolFacts
<1>a. TypeOK /\ AheadInv /\ DirectionInv /\ LoopInv /\ AnswerInv /\ EveryAttemptSettled
  BY DEF IInv
<1>b. \A d \in Deployments : FateIs(attempt[d], last[d], sends[d])
  BY FatesAre DEF IInv
<1>1. attempt' = IF established = None THEN f ELSE [f EXCEPT ![established] = "dropped"]
  BY DEF Return, DropEstablished
<1>2. established' = None /\ current' = None /\ result' = outcome /\ at' = "done"
  BY DEF Return
<1>3. attempt' \in [Deployments -> Fates]
      /\ \A d \in Deployments : attempt'[d] = IF d = established THEN "dropped" ELSE f[d]
  BY <1>0, <1>1 DEF Fates
<1>4. TypeOK'
  BY <1>2, <1>3, <1>a DEF TypeOK, Awaits, Outcomes
<1>5. AheadInv'
  <2>1. ASSUME NEW d \in Deployments, attempt[d] = "none"
        PROVE  sends'[d] = sends[d] /\ attempt'[d] = attempt[d] /\ last'[d] = last[d]
    <3>1. d # current /\ d # established
      BY <1>0, <1>a, <2>1 DEF LoopInv
    <3> QED BY <1>3, <3>1
  <2> QED BY <2>1, AheadKept
<1>6. DirectionInv'
  <2>1. \A d \in Deployments : sends'[d] > 0 => Reachable(d)
    BY <1>0, <1>a DEF DirectionInv
  <2> QED BY <1>2, <1>a, <2>1, DirectionKept DEF DirectionInv
<1>7. LoopInv'
  BY <1>2 DEF LoopInv, Outcomes
<1>8. AnswerInv'
  <2>1. CASE request.mode = "buffered"
    <3>1. ASSUME NEW d \in Deployments, last'[d] \in Answers PROVE d = current /\ outcome = "served"
      <4>1. last[d] \notin Answers
        BY <1>a, <2>1 DEF AnswerInv, LoopInv
      <4>2. d = current
        BY <3>1, <4>1
      <4> QED BY <1>0, <2>1, <3>1, <4>2
    <3> QED BY <1>2, <3>1 DEF AnswerInv, BufferedAnswersOnce, Outcomes
  <2>2. CASE request.mode # "buffered"
    BY <2>2 DEF AnswerInv, BufferedAnswersOnce
  <2> QED BY <2>1, <2>2
<1>9. EveryAttemptSettled'
  <2>1. ASSUME NEW d \in Deployments PROVE attempt'[d] # "held"
    <3>1. CASE d = established
      BY <1>3, <3>1
    <3>2. CASE d = current /\ d # established
      BY <1>0, <1>3, <3>2
    <3>3. CASE d # current /\ d # established
      <4>1. attempt[d] # "held"
        BY <1>a, <3>3 DEF EveryAttemptSettled
      <4> QED BY <1>3, <3>3, <4>1
    <3> QED BY <3>1, <3>2, <3>3
  <2> QED BY <2>1 DEF EveryAttemptSettled
<1>10. FateMatchesUpstream'
  <2>1. ASSUME NEW d \in Deployments PROVE FateIs(attempt'[d], last'[d], sends'[d])
    <3>1. CASE d = established
      BY <1>3, <3>1 DEF FateIs
    <3>2. CASE d = current /\ d # established
      BY <1>0, <1>3, <3>2
    <3>3. CASE d # current /\ d # established
      BY <1>3, <1>b, <3>3
    <3> QED BY <3>1, <3>2, <3>3
  <2> QED BY <2>1 DEF FateMatchesUpstream, FateIs
<1> QED BY <1>4, <1>5, <1>6, <1>7, <1>8, <1>9, <1>10 DEF IInv

(* The end of the plan, and a circuit that cannot be asked: nothing is in  *)
(* hand.                                                                   *)
LEMMA EmptyHandedStep ==
  ASSUME ConstantsArePlans, IInv, Exhausted \/ BeginStateError
  PROVE  IInv'
PROOF
<1>1. at \in {"plan", "targets"} /\ UNCHANGED <<request, plan, targets, tries, sends, last>>
  BY DEF Exhausted, BeginStateError
<1>2. TypeOK /\ LoopInv
  BY DEF IInv
<1>3. current = None /\ at # "done"
  BY <1>1, <1>2 DEF LoopInv
<1>4. PICK outcome \in Outcomes : Return(outcome, attempt)
  BY DEF Exhausted, BeginStateError, Outcomes
<1>5. /\ attempt \in [Deployments -> Fates]
      /\ sends' \in [Deployments -> 0..(Retries + 1)]
      /\ last' \in [Deployments -> {"none"} \union Results \union RelayResults]
  BY <1>1, <1>2 DEF TypeOK
<1> QED BY <1>1, <1>3, <1>4, <1>5, ReturnKeeps

(* A result of the upstream that is called.                                *)
LEMMA ReceivedIs ==
  ASSUME ConstantsArePlans, IInv, NEW res \in Results, Received(res)
  PROVE  /\ current \in Deployments /\ at = "send" /\ attempt[current] = "held"
         /\ sends[current] = tries /\ Reachable(current) /\ current # established
         /\ sends' \in [Deployments -> 0..(Retries + 1)] /\ sends'[current] = tries + 1
         /\ last' \in [Deployments -> {"none"} \union Results \union RelayResults] /\ last'[current] = res
         /\ \A d \in Deployments : d # current => sends'[d] = sends[d] /\ last'[d] = last[d]
PROOF
<1>0. TypeOK /\ LoopInv /\ DirectionInv /\ Retries \in Nat /\ None \notin Deployments
  BY PoolFacts DEF IInv
<1>1. at = "send" /\ current \in Deployments /\ attempt[current] = "held" /\ sends[current] = tries /\ tries \in 0..Retries
  BY <1>0 DEF Received, LoopInv, TypeOK
<1>2. Reachable(current) /\ current # established
  BY <1>0, <1>1 DEF DirectionInv, LoopInv
<1>3. sends' = [sends EXCEPT ![current] = sends[current] + 1] /\ last' = [last EXCEPT ![current] = res]
  BY DEF Received
<1>4. sends \in [Deployments -> 0..(Retries + 1)] /\ last \in [Deployments -> {"none"} \union Results \union RelayResults]
  BY <1>0 DEF TypeOK
<1>5. tries + 1 \in 0..(Retries + 1)
  BY <1>0, <1>1
<1>6. sends' \in [Deployments -> 0..(Retries + 1)] /\ sends'[current] = tries + 1
  BY <1>1, <1>3, <1>4, <1>5
<1>7. last' \in [Deployments -> {"none"} \union Results \union RelayResults] /\ last'[current] = res
  BY <1>1, <1>3, <1>4
<1>8. \A d \in Deployments : d # current => sends'[d] = sends[d] /\ last'[d] = last[d]
  BY <1>3, <1>4
<1> QED BY <1>1, <1>2, <1>6, <1>7, <1>8

(* An answer that is returned to the client.                               *)
LEMMA AnswerStep ==
  ASSUME ConstantsArePlans, IInv, NEW res \in Answers, BufferedAnswer(res) \/ StreamAnswer(res)
  PROVE  IInv'
PROOF
<1> DEFINE f == SettleCurrent(AnswerFate(res))
<1>1. Received(res) /\ Return("served", f) /\ UNCHANGED <<request, plan, targets, tries>> /\ res \in Results
  BY DEF BufferedAnswer, StreamAnswer, Results
<1>2. /\ current \in Deployments /\ at # "done"
      /\ sends' \in [Deployments -> 0..(Retries + 1)]
      /\ last' \in [Deployments -> {"none"} \union Results \union RelayResults] /\ last'[current] = res
      /\ \A d \in Deployments : d # current => sends'[d] = sends[d] /\ last'[d] = last[d]
  BY <1>1, ReceivedIs
<1>3. attempt \in [Deployments -> Fates]
  BY DEF IInv, TypeOK
<1>4. f \in [Deployments -> Fates] /\ f[current] = AnswerFate(res) /\ \A d \in Deployments : d # current => f[d] = attempt[d]
  BY <1>2, <1>3 DEF SettleCurrent, AnswerFate, Fates
<1>5. AnswerFate(res) \notin {"none", "held"} /\ FateIs(AnswerFate(res), res, sends'[current])
  BY DEF AnswerFate, FateIs, Answers
<1> HIDE DEF f
<1>6. "served" \in Outcomes
  BY DEF Outcomes
<1> QED BY <1>1, <1>2, <1>4, <1>5, <1>6, ReturnKeeps

(* A delivery error that ends the request.                                 *)
LEMMA FatalErrorStep ==
  ASSUME ConstantsArePlans, IInv, NEW res \in Fatal, FatalError(res)
  PROVE  IInv'
PROOF
<1> DEFINE fate == IF request.mode = "streaming" /\ res = "fatal" THEN "failed" ELSE "released"
           f == SettleCurrent(fate)
<1>1. Received(res) /\ Return("error", f) /\ UNCHANGED <<request, plan, targets, tries>> /\ res \in Results
  BY DEF FatalError, Results
<1>2. /\ current \in Deployments /\ at # "done"
      /\ sends' \in [Deployments -> 0..(Retries + 1)]
      /\ last' \in [Deployments -> {"none"} \union Results \union RelayResults] /\ last'[current] = res
      /\ \A d \in Deployments : d # current => sends'[d] = sends[d] /\ last'[d] = last[d]
  BY <1>1, ReceivedIs
<1>3. attempt \in [Deployments -> Fates]
  BY DEF IInv, TypeOK
<1>5. fate \in Fates /\ fate \notin {"none", "held"} /\ FateIs(fate, res, sends'[current]) /\ res \notin Answers
  BY DEF Fates, FateIs, Fatal, Answers
<1> HIDE DEF fate
<1>4. f \in [Deployments -> Fates] /\ f[current] = fate /\ \A d \in Deployments : d # current => f[d] = attempt[d]
  BY <1>2, <1>3, <1>5 DEF SettleCurrent
<1> HIDE DEF f
<1>6. "error" \in Outcomes
  BY DEF Outcomes
<1> QED BY <1>1, <1>2, <1>4, <1>5, <1>6, ReturnKeeps

(* The client goes away.                                                   *)
LEMMA CancelStep ==
  ASSUME ConstantsArePlans, IInv, Cancel
  PROVE  IInv'
PROOF
<1> DEFINE f == IF current = None THEN attempt ELSE SettleCurrent("dropped")
<1>1. Return("cancelled", f) /\ UNCHANGED <<request, plan, targets, tries, sends, last>> /\ at # "done"
  BY DEF Cancel
<1>2. TypeOK /\ AnswerInv /\ LoopInv
  BY DEF IInv
<1>3. /\ sends' \in [Deployments -> 0..(Retries + 1)]
      /\ last' \in [Deployments -> {"none"} \union Results \union RelayResults]
      /\ attempt \in [Deployments -> Fates] /\ current \in Deployments \union {None}
  BY <1>1, <1>2 DEF TypeOK
<1>4. /\ f \in [Deployments -> Fates] /\ \A d \in Deployments : d # current => f[d] = attempt[d]
      /\ current # None => f[current] = "dropped"
  BY <1>3 DEF SettleCurrent, Fates
<1> HIDE DEF f
<1>5. current # None =>
        /\ f[current] \notin {"none", "held"} /\ FateIs(f[current], last'[current], sends'[current])
        /\ ~(request.mode = "buffered" /\ last'[current] \in Answers)
  <2> SUFFICES ASSUME current # None
               PROVE  /\ f[current] \notin {"none", "held"} /\ FateIs(f[current], last'[current], sends'[current])
                      /\ ~(request.mode = "buffered" /\ last'[current] \in Answers)
    OBVIOUS
  <2>1. f[current] = "dropped" /\ current \in Deployments
    BY <1>3, <1>4
  <2>2. FateIs(f[current], last'[current], sends'[current])
    BY <2>1 DEF FateIs
  <2>3. ~(request.mode = "buffered" /\ last'[current] \in Answers)
    BY <1>1, <1>2, <2>1 DEF AnswerInv, LoopInv
  <2> QED BY <2>1, <2>2, <2>3
<1>6. "cancelled" \in Outcomes
  BY DEF Outcomes
<1> QED BY <1>1, <1>3, <1>4, <1>5, <1>6, ReturnKeeps

(* The rest of a sequence.                                                 *)
LEMMA TailIs ==
  ASSUME NEW T, NEW s \in Seq(T), s # <<>>
  PROVE  /\ Head(s) = s[1] /\ 1 \in DOMAIN s /\ s[1] \in T /\ Tail(s) \in Seq(T)
         /\ \A i \in DOMAIN Tail(s) :
              i \in Nat /\ i + 1 \in DOMAIN s /\ i + 1 # 1 /\ Tail(s)[i] = s[i + 1]
PROOF
  OBVIOUS

(* The next plan entry: its deployments move from the plan to the targets. *)
LEMMA NextModelStep ==
  ASSUME ConstantsArePlans, IInv, NextModel
  PROVE  IInv'
PROOF
<1>a. TypeOK /\ AheadInv /\ DirectionInv /\ LoopInv /\ AnswerInv
  BY DEF IInv
<1>0. /\ at = "plan" /\ plan # <<>> /\ plan' = Tail(plan) /\ at' = "targets"
      /\ UNCHANGED <<request, current, tries, established, sends, last, attempt, result>>
  BY DEF NextModel
<1> DEFINE m == plan[1]
<1>1. /\ Head(plan) = m /\ 1 \in DOMAIN plan /\ m \in Models /\ plan' \in Seq(Models)
      /\ \A i \in DOMAIN plan' : i \in Nat /\ i + 1 \in DOMAIN plan /\ i + 1 # 1 /\ plan'[i] = plan[i + 1]
  <2>1. plan \in Seq(Models)
    BY <1>a DEF TypeOK
  <2> QED BY <1>0, <2>1, TailIs
<1>2. PICK S \in SUBSET eligible_deployment_targets(request, m) : targets' \in SetToSeqs(S)
  BY <1>1 DEF NextModel
<1>3. S \subseteq Pool[m] /\ Pool[m] \subseteq Deployments /\ IsFiniteSet(Pool[m])
  BY <1>1, PoolFacts DEF eligible_deployment_targets
<1>4. Cardinality(S) \in Nat
  BY <1>3, FS_Subset, FS_CardinalityType
<1>5. /\ targets' \in [1..Cardinality(S) -> S]
      /\ \A i, j \in 1..Cardinality(S) : i # j => targets'[i] # targets'[j]
  BY <1>2 DEF SetToSeqs
<1>6. DOMAIN targets' = 1..Cardinality(S) /\ targets' \in Seq(Deployments) /\ \A i \in DOMAIN targets' : targets'[i] \in S
  BY <1>3, <1>4, <1>5
<1> HIDE DEF m
<1>7. TypeOK'
  BY <1>0, <1>1, <1>6, <1>a DEF TypeOK, Awaits
<1>8. AheadInv'
  <2>1. ASSUME NEW i \in DOMAIN plan', NEW j \in DOMAIN plan', plan'[i] = plan'[j] PROVE i = j
    BY <1>1, <1>a, <2>1 DEF AheadInv
  <2>2. \A i, j \in DOMAIN targets' : targets'[i] = targets'[j] => i = j
    BY <1>5, <1>6
  <2>3. ASSUME NEW d \in Deployments, AheadInPlan(d)' PROVE AheadInPlan(d) /\ d \notin Pool[m]
    <3>1. PICK i \in DOMAIN plan' : d \in Pool[plan'[i]]
      BY <2>3 DEF AheadInPlan
    <3>2. i + 1 \in DOMAIN plan /\ plan'[i] = plan[i + 1] /\ i + 1 # 1
      BY <1>1
    <3>3. plan[i + 1] # m
      BY <1>1, <1>a, <3>2 DEF AheadInv, m
    <3>4. plan[i + 1] \in Models
      BY <1>a, <3>2 DEF TypeOK
    <3>5. d \notin Pool[m]
      BY <1>1, <3>1, <3>2, <3>3, <3>4, PoolFacts
    <3> QED BY <3>1, <3>2, <3>5 DEF AheadInPlan
  <2>4. ASSUME NEW d \in Deployments, AheadInTargets(d)' PROVE AheadInPlan(d) /\ d \in Pool[m]
    <3>1. d \in Pool[m]
      BY <1>3, <1>6, <2>4 DEF AheadInTargets
    <3> QED BY <1>1, <3>1 DEF AheadInPlan, m
  <2>5. \A d \in Deployments : ~(AheadInPlan(d)' /\ AheadInTargets(d)')
    BY <2>3, <2>4
  <2>6. ASSUME NEW d \in Deployments, AheadInPlan(d)' \/ AheadInTargets(d)'
        PROVE  sends'[d] = 0 /\ attempt'[d] = "none" /\ last'[d] = "none"
    <3>1. AheadInPlan(d)
      BY <2>3, <2>4, <2>6
    <3> QED BY <1>0, <1>a, <3>1 DEF AheadInv
  <2> QED BY <2>1, <2>2, <2>5, <2>6 DEF AheadInv
<1>9. DirectionInv'
  <2>1. \A i \in DOMAIN plan' : MayCall(plan'[i])
    BY <1>1, <1>a DEF DirectionInv
  <2>2. MayCall(m)
    BY <1>1, <1>a DEF DirectionInv, m
  <2>3. \A i \in DOMAIN targets' : Reachable(targets'[i])
    BY <1>1, <1>2, <1>6, <2>2 DEF Reachable
  <2> QED BY <1>0, <1>a, <2>1, <2>3, DirectionKept DEF DirectionInv
<1>10. LoopInv'
  BY <1>0, <1>a DEF LoopInv
<1>11. AnswerInv'
  BY <1>0, <1>a DEF AnswerInv, BufferedAnswersOnce
<1>12. EveryAttemptSettled' /\ FateMatchesUpstream'
  BY <1>0 DEF IInv, EveryAttemptSettled, FateMatchesUpstream
<1> QED BY <1>7, <1>8, <1>9, <1>10, <1>11, <1>12 DEF IInv

(* A deployment that is passed over, or whose attempt begins.              *)
LEMMA TargetStep ==
  ASSUME ConstantsArePlans, IInv, SkipTarget \/ BeginAttempt
  PROVE  IInv'
PROOF
<1>a. TypeOK /\ AheadInv /\ DirectionInv /\ LoopInv /\ AnswerInv
  BY DEF IInv
<1>b. None \notin Deployments /\ Retries \in Nat
  BY PoolFacts
<1>0. /\ at = "targets" /\ targets # <<>> /\ targets' = Tail(targets)
      /\ UNCHANGED <<request, plan, established, sends, last, result>>
  BY DEF SkipTarget, BeginAttempt
<1> DEFINE h == targets[1]
<1>1. /\ Head(targets) = h /\ 1 \in DOMAIN targets /\ h \in Deployments /\ targets' \in Seq(Deployments)
      /\ \A i \in DOMAIN targets' :
           i \in Nat /\ i + 1 \in DOMAIN targets /\ i + 1 # 1 /\ targets'[i] = targets[i + 1]
  <2>1. targets \in Seq(Deployments)
    BY <1>a DEF TypeOK
  <2> QED BY <1>0, <2>1, TailIs
<1> HIDE DEF h
<1>2. Reachable(h) /\ AheadInTargets(h)
  BY <1>1, <1>a DEF DirectionInv, AheadInTargets, h
<1>3. sends[h] = 0 /\ attempt[h] = "none" /\ last[h] = "none"
  BY <1>1, <1>2, <1>a DEF AheadInv
<1>4. ASSUME NEW d \in Deployments, AheadInTargets(d)' PROVE AheadInTargets(d) /\ d # h
  <2>1. PICK i \in DOMAIN targets' : targets'[i] = d
    BY <1>4 DEF AheadInTargets
  <2>2. i + 1 \in DOMAIN targets /\ targets[i + 1] = d /\ i + 1 # 1
    BY <1>1, <2>1
  <2>3. d # h
    BY <1>1, <1>a, <2>2 DEF AheadInv, h
  <2> QED BY <2>2, <2>3 DEF AheadInTargets
<1>5. \A d \in Deployments : AheadInPlan(d)' => AheadInPlan(d) /\ d # h
  BY <1>0, <1>1, <1>2, <1>a DEF AheadInPlan, AheadInv
<1>6. current = None
  BY <1>0, <1>a DEF LoopInv
<1>7. \A d \in Deployments : d # h => attempt'[d] = attempt[d]
  BY <1>1, <1>a DEF SkipTarget, BeginAttempt, TypeOK
<1>8. AheadInv'
  <2>1. ASSUME NEW i \in DOMAIN targets', NEW j \in DOMAIN targets', targets'[i] = targets'[j] PROVE i = j
    BY <1>1, <1>a, <2>1 DEF AheadInv
  <2>2. \A d \in Deployments : ~(AheadInPlan(d)' /\ AheadInTargets(d)')
    BY <1>4, <1>5, <1>a DEF AheadInv
  <2>3. ASSUME NEW d \in Deployments, AheadInPlan(d)' \/ AheadInTargets(d)'
        PROVE  sends'[d] = 0 /\ attempt'[d] = "none" /\ last'[d] = "none"
    <3>1. d # h /\ (AheadInPlan(d) \/ AheadInTargets(d))
      BY <1>4, <1>5, <2>3
    <3> QED BY <1>0, <1>7, <1>a, <3>1 DEF AheadInv
  <2>4. \A i, j \in DOMAIN plan' : plan'[i] = plan'[j] => i = j
    BY <1>0, <1>a DEF AheadInv
  <2> QED BY <2>1, <2>2, <2>3, <2>4 DEF AheadInv
<1>9. DirectionInv'
  <2>1. \A i \in DOMAIN targets' : Reachable(targets'[i])
    BY <1>1, <1>a DEF DirectionInv
  <2>2. current' # None => Reachable(current')
    BY <1>1, <1>2, <1>6 DEF SkipTarget, BeginAttempt
  <2> QED BY <1>0, <1>a, <2>1, <2>2, DirectionKept DEF DirectionInv
<1>10. AnswerInv'
  BY <1>0, <1>a DEF AnswerInv, BufferedAnswersOnce
<1>11. CASE SkipTarget
  <2>0. UNCHANGED <<at, current, tries, attempt>>
    BY <1>11 DEF SkipTarget
  <2>1. TypeOK'
    BY <1>0, <1>1, <1>a, <2>0 DEF TypeOK
  <2>2. LoopInv'
    BY <1>0, <1>a, <2>0 DEF LoopInv
  <2>3. EveryAttemptSettled' /\ FateMatchesUpstream'
    BY <1>0, <2>0 DEF IInv, EveryAttemptSettled, FateMatchesUpstream
  <2> QED BY <1>8, <1>9, <1>10, <2>1, <2>2, <2>3 DEF IInv
<1>12. CASE BeginAttempt
  <2>0. current' = h /\ attempt' = [attempt EXCEPT ![h] = "held"] /\ tries' = 0 /\ at' = "send"
    BY <1>1, <1>12 DEF BeginAttempt
  <2>1. attempt' \in [Deployments -> Fates] /\ attempt'[h] = "held"
    BY <1>1, <1>a, <2>0 DEF TypeOK, Fates
  <2>2. TypeOK'
    BY <1>0, <1>1, <1>a, <1>b, <2>0, <2>1 DEF TypeOK, Awaits
  <2>3. established # None => established # h /\ established \in Deployments
    BY <1>3, <1>a DEF LoopInv, TypeOK
  <2>4. LoopInv'
    BY <1>0, <1>1, <1>3, <1>7, <1>a, <1>b, <2>0, <2>1, <2>3 DEF LoopInv
  <2>5. EveryAttemptSettled'
    <3>1. ASSUME NEW d \in Deployments, attempt'[d] = "held"
          PROVE  result' = "pending" /\ d \in {current', established'}
      <4>1. result' = "pending"
        BY <1>0, <1>a DEF LoopInv
      <4>2. CASE d = h
        BY <2>0, <4>1, <4>2
      <4>3. CASE d # h
        <5>1. d \in {current, established}
          BY <1>7, <3>1, <4>3 DEF IInv, EveryAttemptSettled
        <5> QED BY <1>0, <1>6, <1>b, <4>1, <5>1
      <4> QED BY <4>2, <4>3
    <3> QED BY <3>1 DEF EveryAttemptSettled
  <2>6. FateMatchesUpstream'
    <3>1. ASSUME NEW d \in Deployments PROVE FateIs(attempt'[d], last'[d], sends'[d])
      <4>1. CASE d = h
        BY <2>1, <4>1 DEF FateIs
      <4>2. CASE d # h
        <5>1. FateIs(attempt[d], last[d], sends[d])
          BY FatesAre DEF IInv
        <5> QED BY <1>0, <1>7, <4>2, <5>1
      <4> QED BY <4>1, <4>2
    <3> QED BY <3>1 DEF FateMatchesUpstream, FateIs
  <2> QED BY <1>8, <1>9, <1>10, <2>2, <2>4, <2>5, <2>6 DEF IInv
<1> QED BY <1>11, <1>12

(* The loop moves on without touching an attempt.                          *)
LEMMA MoveStep ==
  ASSUME ConstantsArePlans, IInv, EndOfTargets \/ BackoffOver
  PROVE  IInv'
PROOF
<1>a. TypeOK /\ DirectionInv /\ LoopInv /\ AnswerInv
  BY DEF IInv
<1>0. UNCHANGED <<request, plan, targets, current, tries, established, sends, last, attempt, result>>
  BY DEF EndOfTargets, BackoffOver
<1>1. TypeOK'
  BY <1>0, <1>a DEF TypeOK, Awaits, EndOfTargets, BackoffOver
<1>2. AheadInv'
  BY <1>0, AheadKept
<1>3. DirectionInv'
  BY <1>0, <1>a, DirectionKept DEF DirectionInv
<1>4. LoopInv'
  <2>1. CASE EndOfTargets
    BY <1>0, <1>a, <2>1 DEF LoopInv, EndOfTargets
  <2>2. CASE BackoffOver
    BY <1>0, <1>a, <2>2 DEF LoopInv, BackoffOver
  <2> QED BY <2>1, <2>2
<1>5. AnswerInv'
  BY <1>0, <1>a DEF AnswerInv, BufferedAnswersOnce
<1>6. EveryAttemptSettled' /\ FateMatchesUpstream'
  BY <1>0 DEF IInv, EveryAttemptSettled, FateMatchesUpstream
<1> QED BY <1>1, <1>2, <1>3, <1>4, <1>5, <1>6 DEF IInv

(* A failed try: it is repeated, or the attempt is failed.                 *)
LEMMA FailedTryStep ==
  ASSUME ConstantsArePlans, IInv, NEW res \in Retryable, RetryLater(res) \/ TriesExhausted(res)
  PROVE  IInv'
PROOF
<1>a. TypeOK /\ DirectionInv /\ LoopInv /\ AnswerInv
  BY DEF IInv
<1>b. None \notin Deployments /\ Retries \in Nat
  BY PoolFacts
<1>0. /\ Received(res) /\ res \in Results /\ res \notin Answers /\ res # "success"
      /\ UNCHANGED <<request, plan, targets, established, result>>
  BY DEF RetryLater, TriesExhausted, Results, Retryable, Answers
<1>1. /\ current \in Deployments /\ at = "send" /\ attempt[current] = "held"
      /\ Reachable(current) /\ current # established
      /\ sends' \in [Deployments -> 0..(Retries + 1)] /\ sends'[current] = tries + 1
      /\ last' \in [Deployments -> {"none"} \union Results \union RelayResults] /\ last'[current] = res
      /\ \A d \in Deployments : d # current => sends'[d] = sends[d] /\ last'[d] = last[d]
  BY <1>0, ReceivedIs
<1>2. tries \in 0..Retries /\ attempt \in [Deployments -> Fates]
  BY <1>a DEF TypeOK
<1>3. /\ attempt' \in [Deployments -> Fates] /\ \A d \in Deployments : d # current => attempt'[d] = attempt[d]
      /\ attempt'[current] = "held" \/ attempt'[current] = "failed"
  BY <1>1, <1>2 DEF RetryLater, TriesExhausted, SettleCurrent, Fates
<1>4. AheadInv'
  <2>1. \A d \in Deployments :
          attempt[d] = "none" => sends'[d] = sends[d] /\ attempt'[d] = attempt[d] /\ last'[d] = last[d]
    BY <1>1, <1>3
  <2> QED BY <1>0, <2>1, AheadKept
<1>5. DirectionInv'
  <2>1. \A d \in Deployments : sends'[d] > 0 => Reachable(d)
    BY <1>1, <1>a DEF DirectionInv
  <2>2. current' # None => Reachable(current')
    BY <1>1 DEF RetryLater, TriesExhausted
  <2> QED BY <1>0, <1>a, <2>1, <2>2, DirectionKept DEF DirectionInv
<1>6. AnswerInv'
  <2>1. \A d \in Deployments : last'[d] \in Answers => last[d] \in Answers
    BY <1>0, <1>1
  <2> QED BY <1>0, <1>a, <2>1 DEF AnswerInv, BufferedAnswersOnce
<1>7. FateMatchesUpstream'
  <2>1. ASSUME NEW d \in Deployments PROVE FateIs(attempt'[d], last'[d], sends'[d])
    <3>1. CASE d = current
      <4>1. attempt'[d] = "failed" => sends'[d] = Retries + 1
        <5>1. CASE RetryLater(res)
          BY <1>1, <3>1, <5>1 DEF RetryLater
        <5>2. CASE TriesExhausted(res)
          <6>1. tries = Retries
            BY <1>2, <1>b, <5>2 DEF TriesExhausted, MoreTries
          <6> QED BY <1>1, <3>1, <6>1
        <5> QED BY <5>1, <5>2
      <4> QED BY <1>1, <1>3, <3>1, <4>1 DEF FateIs
    <3>2. CASE d # current
      <4>1. FateIs(attempt[d], last[d], sends[d])
        BY FatesAre DEF IInv
      <4> QED BY <1>1, <1>3, <3>2, <4>1
    <3> QED BY <3>1, <3>2
  <2> QED BY <2>1 DEF FateMatchesUpstream, FateIs
<1>8. established # None =>
        /\ attempt'[established] = "held" /\ last'[established] = "success"
        /\ request.mode = "streaming" /\ established \in Deployments
  BY <1>1, <1>3, <1>a DEF LoopInv, TypeOK
<1>9. CASE RetryLater(res)
  <2>0. tries' = tries + 1 /\ at' = "backoff" /\ UNCHANGED <<current, attempt>> /\ tries < Retries
    BY <1>9 DEF RetryLater, MoreTries
  <2>1. tries' \in 0..Retries
    BY <1>2, <1>b, <2>0
  <2>2. TypeOK'
    BY <1>0, <1>1, <1>3, <1>a, <2>0, <2>1 DEF TypeOK, Awaits
  <2>3. LoopInv'
    BY <1>0, <1>1, <1>8, <1>a, <1>b, <2>0 DEF LoopInv
  <2>4. EveryAttemptSettled'
    BY <1>0, <2>0 DEF IInv, EveryAttemptSettled
  <2> QED BY <1>4, <1>5, <1>6, <1>7, <2>2, <2>3, <2>4 DEF IInv
<1>10. CASE TriesExhausted(res)
  <2>0. tries' = tries /\ at' = "targets" /\ current' = None /\ attempt' = [attempt EXCEPT ![current] = "failed"]
    BY <1>10 DEF TriesExhausted, SettleCurrent
  <2>1. TypeOK'
    BY <1>0, <1>1, <1>3, <1>a, <2>0 DEF TypeOK, Awaits
  <2>2. LoopInv'
    BY <1>0, <1>1, <1>8, <1>a, <1>b, <2>0 DEF LoopInv
  <2>3. attempt'[current] = "failed"
    BY <1>1, <1>2, <2>0
  <2>4. EveryAttemptSettled'
    BY <1>0, <1>1, <1>3, <1>a, <2>0, <2>3 DEF IInv, EveryAttemptSettled
  <2> QED BY <1>4, <1>5, <1>6, <1>7, <2>1, <2>2, <2>4 DEF IInv
<1> QED BY <1>9, <1>10

(* A stream is accepted.                                                   *)
LEMMA StreamEstablishedStep ==
  ASSUME ConstantsArePlans, IInv, StreamEstablished
  PROVE  IInv'
PROOF
<1>a. TypeOK /\ DirectionInv /\ LoopInv
  BY DEF IInv
<1>b. None \notin Deployments /\ Retries \in Nat
  BY PoolFacts
<1>0. /\ Received("success") /\ "success" \in Results /\ request.mode = "streaming"
      /\ attempt' = (IF established = None THEN attempt ELSE [attempt EXCEPT ![established] = "dropped"])
      /\ established' = current /\ current' = None /\ at' = "targets"
      /\ UNCHANGED <<request, plan, targets, tries, result>>
  BY DEF StreamEstablished, DropEstablished, Results, Answers
<1>1. /\ current \in Deployments /\ at = "send" /\ attempt[current] = "held"
      /\ Reachable(current) /\ current # established
      /\ sends' \in [Deployments -> 0..(Retries + 1)]
      /\ last' \in [Deployments -> {"none"} \union Results \union RelayResults] /\ last'[current] = "success"
      /\ \A d \in Deployments : d # current => sends'[d] = sends[d] /\ last'[d] = last[d]
  BY <1>0, ReceivedIs
<1>2. attempt \in [Deployments -> Fates] /\ established \in Deployments \union {None}
  BY <1>a DEF TypeOK
<1>3. /\ attempt' \in [Deployments -> Fates]
      /\ \A d \in Deployments : attempt'[d] = IF d = established THEN "dropped" ELSE attempt[d]
  BY <1>0, <1>2, <1>b DEF Fates
<1>4. TypeOK'
  BY <1>0, <1>1, <1>3, <1>a DEF TypeOK, Awaits
<1>5. AheadInv'
  <2>1. ASSUME NEW d \in Deployments, attempt[d] = "none"
        PROVE  sends'[d] = sends[d] /\ attempt'[d] = attempt[d] /\ last'[d] = last[d]
    <3>1. d # current /\ d # established
      BY <1>1, <1>a, <1>b, <2>1 DEF LoopInv
    <3> QED BY <1>1, <1>3, <3>1
  <2> QED BY <1>0, <2>1, AheadKept
<1>6. DirectionInv'
  <2>1. \A d \in Deployments : sends'[d] > 0 => Reachable(d)
    BY <1>1, <1>a DEF DirectionInv
  <2> QED BY <1>0, <1>a, <2>1, DirectionKept DEF DirectionInv
<1>7. LoopInv'
  BY <1>0, <1>1, <1>3, <1>a, <1>b DEF LoopInv
<1>8. AnswerInv'
  BY <1>0 DEF AnswerInv, BufferedAnswersOnce
<1>9. EveryAttemptSettled'
  <2>1. ASSUME NEW d \in Deployments, attempt'[d] = "held"
        PROVE  result' = "pending" /\ d \in {current', established'}
    <3>1. attempt[d] = "held" /\ d # established
      BY <1>3, <2>1
    <3> QED BY <1>0, <3>1 DEF IInv, EveryAttemptSettled
  <2> QED BY <2>1 DEF EveryAttemptSettled
<1>10. FateMatchesUpstream'
  <2>1. ASSUME NEW d \in Deployments PROVE FateIs(attempt'[d], last'[d], sends'[d])
    <3>1. CASE d = established \/ d = current
      BY <1>1, <1>3, <3>1 DEF FateIs
    <3>2. CASE d # current /\ d # established
      <4>1. FateIs(attempt[d], last[d], sends[d])
        BY FatesAre DEF IInv
      <4> QED BY <1>1, <1>3, <3>2, <4>1
    <3> QED BY <3>1, <3>2
  <2> QED BY <2>1 DEF FateMatchesUpstream, FateIs
<1> QED BY <1>4, <1>5, <1>6, <1>7, <1>8, <1>9, <1>10 DEF IInv

(* The relay of the accepted stream ends.                                  *)
LEMMA RelayStep ==
  ASSUME ConstantsArePlans, IInv, RelayFinished \/ \E res \in RelayResults : RelayFailed(res)
  PROVE  IInv'
PROOF
<1>a. TypeOK /\ DirectionInv /\ LoopInv
  BY DEF IInv
<1>b. None \notin Deployments
  BY PoolFacts
<1>0. /\ at = "relay" /\ established' = None /\ at' = "done" /\ result' \in {"served", "stream_error"}
      /\ UNCHANGED <<request, plan, targets, current, tries, sends>>
  BY DEF RelayFinished, RelayFailed
<1>1. /\ established \in Deployments /\ attempt[established] = "held" /\ last[established] = "success"
      /\ current = None /\ request.mode = "streaming"
  BY <1>0, <1>a DEF LoopInv, TypeOK
<1>2. /\ attempt \in [Deployments -> Fates]
      /\ last \in [Deployments -> {"none"} \union Results \union RelayResults]
  BY <1>a DEF TypeOK
<1>3. PICK fate \in {"succeeded", "failed", "released"}, res \in {"success"} \union RelayResults :
        /\ attempt' = [attempt EXCEPT ![established] = fate]
        /\ last' = [last EXCEPT ![established] = res]
        /\ FateIs(fate, res, sends'[established])
  <2>1. CASE RelayFinished
    <3>1. last' = [last EXCEPT ![established] = "success"]
      BY <1>1, <1>2, <2>1 DEF RelayFinished
    <3>2. FateIs("succeeded", "success", sends'[established])
      BY DEF FateIs
    <3> QED BY <2>1, <3>1, <3>2 DEF RelayFinished
  <2>2. ASSUME NEW res \in RelayResults, RelayFailed(res)
        PROVE  \E fate \in {"succeeded", "failed", "released"} :
                 /\ attempt' = [attempt EXCEPT ![established] = fate]
                 /\ last' = [last EXCEPT ![established] = res]
                 /\ FateIs(fate, res, sends'[established])
    <3> DEFINE fate == IF res = "relay_failure" THEN "failed" ELSE "released"
    <3>1. attempt' = [attempt EXCEPT ![established] = fate] /\ last' = [last EXCEPT ![established] = res]
      BY <2>2 DEF RelayFailed
    <3>2. fate \in {"succeeded", "failed", "released"} /\ FateIs(fate, res, sends'[established])
      BY DEF FateIs, RelayResults
    <3> QED BY <3>1, <3>2
  <2> QED BY <2>1, <2>2
<1>4. attempt' \in [Deployments -> Fates] /\ last' \in [Deployments -> {"none"} \union Results \union RelayResults]
  BY <1>1, <1>2, <1>3 DEF Fates, Results, Answers
<1>5. /\ attempt'[established] = fate /\ last'[established] = res
      /\ \A d \in Deployments : d # established => attempt'[d] = attempt[d] /\ last'[d] = last[d]
  BY <1>1, <1>2, <1>3
<1>6. TypeOK'
  BY <1>0, <1>4, <1>a DEF TypeOK, Awaits
<1>7. AheadInv'
  <2>1. \A d \in Deployments :
          attempt[d] = "none" => sends'[d] = sends[d] /\ attempt'[d] = attempt[d] /\ last'[d] = last[d]
    BY <1>0, <1>1, <1>5
  <2> QED BY <1>0, <2>1, AheadKept
<1>8. DirectionInv'
  BY <1>0, <1>1, <1>a, DirectionKept DEF DirectionInv
<1>9. LoopInv'
  BY <1>0, <1>1 DEF LoopInv
<1>10. AnswerInv'
  BY <1>0, <1>1 DEF AnswerInv, BufferedAnswersOnce
<1>11. EveryAttemptSettled'
  <2>1. ASSUME NEW d \in Deployments PROVE attempt'[d] # "held"
    <3>1. CASE d = established
      BY <1>5, <3>1
    <3>2. CASE d # established
      BY <1>1, <1>5, <1>b, <3>2 DEF IInv, EveryAttemptSettled
    <3> QED BY <3>1, <3>2
  <2> QED BY <2>1 DEF EveryAttemptSettled
<1>12. FateMatchesUpstream'
  <2>1. ASSUME NEW d \in Deployments PROVE FateIs(attempt'[d], last'[d], sends'[d])
    <3>1. CASE d = established
      BY <1>3, <1>5, <3>1
    <3>2. CASE d # established
      <4>1. FateIs(attempt[d], last[d], sends[d])
        BY FatesAre DEF IInv
      <4> QED BY <1>0, <1>5, <3>2, <4>1
    <3> QED BY <3>1, <3>2
  <2> QED BY <2>1 DEF FateMatchesUpstream, FateIs
<1> QED BY <1>6, <1>7, <1>8, <1>9, <1>10, <1>11, <1>12 DEF IInv

(* Every step keeps the invariant.                                         *)
LEMMA NextInv == ConstantsArePlans /\ IInv /\ [Next]_vars => IInv'
PROOF
<1> SUFFICES ASSUME ConstantsArePlans, IInv, [Next]_vars PROVE IInv'
  OBVIOUS
<1>1. CASE UNCHANGED vars
  <2>0. UNCHANGED <<request, plan, targets, at, current, tries, established, sends, last, attempt, result>>
    BY <1>1 DEF vars
  <2>a. TypeOK /\ DirectionInv /\ LoopInv /\ AnswerInv
    BY DEF IInv
  <2>1. TypeOK' /\ LoopInv' /\ AnswerInv'
    BY <2>0, <2>a DEF TypeOK, LoopInv, AnswerInv, BufferedAnswersOnce
  <2>2. AheadInv'
    BY <2>0, AheadKept
  <2>3. DirectionInv'
    BY <2>0, <2>a, DirectionKept DEF DirectionInv
  <2>4. EveryAttemptSettled' /\ FateMatchesUpstream'
    BY <2>0 DEF IInv, EveryAttemptSettled, FateMatchesUpstream
  <2> QED BY <2>1, <2>2, <2>3, <2>4 DEF IInv
<1>2. CASE Step
  <2>1. CASE NextModel
    BY <2>1, NextModelStep
  <2>2. CASE Exhausted \/ BeginStateError
    BY <2>2, EmptyHandedStep
  <2>3. CASE EndOfTargets \/ BackoffOver
    BY <2>3, MoveStep
  <2>4. CASE SkipTarget \/ BeginAttempt
    BY <2>4, TargetStep
  <2>5. CASE \E res \in Answers : BufferedAnswer(res) \/ StreamAnswer(res)
    BY <2>5, AnswerStep
  <2>6. CASE StreamEstablished
    BY <2>6, StreamEstablishedStep
  <2>7. CASE \E res \in Retryable : RetryLater(res) \/ TriesExhausted(res)
    BY <2>7, FailedTryStep
  <2>8. CASE \E res \in Fatal : FatalError(res)
    BY <2>8, FatalErrorStep
  <2>9. CASE RelayFinished \/ \E res \in RelayResults : RelayFailed(res)
    BY <2>9, RelayStep
  <2> QED BY <1>2, <2>1, <2>2, <2>3, <2>4, <2>5, <2>6, <2>7, <2>8, <2>9 DEF Step
<1>3. CASE Cancel
  BY <1>3, CancelStep
<1> QED BY <1>1, <1>2, <1>3 DEF Next, Done

-----------------------------------------------------------------------------
(* The theorems. *)

(* Every reachable state of a delivery satisfies the invariant, whatever   *)
(* the models, tiers, fallbacks, pools and retries of the configuration.   *)
THEOREM Invariance == Spec => []IInv
PROOF
<1>1. Init => IInv
  BY InitInv, PlansAreValid
<1>2. IInv /\ [Next]_vars => IInv'
  BY NextInv, PlansAreValid
<1> QED BY <1>1, <1>2, PTL DEF Spec

(* However a request ends (answer, error, exhausted plan, failed stream,   *)
(* cancellation at any await), no circuit attempt is left held, and each   *)
(* circuit heard what its deployment did: a failure is reported only after *)
(* the full number of tries or a result that counts against it.            *)
THEOREM SettledTruly == Spec => []AttemptsSettledTruly
PROOF
<1>1. IInv => AttemptsSettledTruly
  BY DEF IInv, AttemptsSettledTruly
<1> QED BY <1>1, Invariance, PTL

(* A buffered request takes one answer: no deployment is called after one  *)
(* that answered.                                                          *)
THEOREM AnswersOnce == Spec => []BufferedAnswersOnce
PROOF
<1>1. IInv => BufferedAnswersOnce
  BY DEF IInv, AnswerInv
<1> QED BY <1>1, Invariance, PTL

(* Every model called is the one chosen or one its fallbacks, its preset   *)
(* or the failover policy name in the configured direction.                *)
THEOREM FailsOverInDirection == Spec => []FailoverDirection
PROOF
<1>1. IInv => FailoverDirection
  <2> SUFFICES ASSUME IInv, NEW d \in Deployments, sends[d] > 0
               PROVE  MayCall(ModelOf(d))
    BY DEF FailoverDirection, Called
  <2>1. PICK m \in Models : MayCall(m) /\ d \in Pool[m]
    BY DEF IInv, DirectionInv, Reachable, eligible_deployment_targets
  <2>2. ModelOf(d) \in Models /\ d \in Pool[ModelOf(d)]
    BY <2>1 DEF ModelOf
  <2>3. ModelOf(d) = m
    BY <2>1, <2>2, PoolFacts, PlansAreValid
  <2> QED BY <2>1, <2>3
<1> QED BY <1>1, Invariance, PTL

(* An offline request calls no deployment that is not on loopback, on      *)
(* whatever path retries and failover lead.                                *)
THEOREM OfflineIsLocal == Spec => []OfflineStaysLocal
PROOF
<1>1. IInv => OfflineStaysLocal
  BY DEF IInv, DirectionInv, Reachable, eligible_deployment_targets, OfflineStaysLocal
<1> QED BY <1>1, Invariance, PTL

-----------------------------------------------------------------------------
(* Proofs: the fleet circuit never strands a target, for any number of      *)
(* requests and targets, any threshold, cooldown and key TTL.               *)

USE ThresholdAssumption, CooldownAssumption, KeyTTLAssumption,
    NoProbeAssumption

\* The inductive invariant: every conjunct needs only the types of the hash.
HealthInv == HealthTypeOK /\ ClaimHasDeadline /\ OpenNeedsThreshold

\* HINCRBY within the modelled range.
LEMMA CountUpInRange ==
  ASSUME NEW n \in 0..Threshold
  PROVE  CountUp(n) \in 0..Threshold /\ CountUp(n) >= n
  BY DEF CountUp

\* What each completing script does to the three invariants.
LEMMA ScriptsKeepInv ==
  ASSUME HealthInv, NEW p \in Probes, NEW t \in Targets,
         guard' \in [Probes -> Guards], target' \in [Probes -> Targets],
         \/ Claim(p, t)
         \/ Release(p, t)
         \/ CompleteSuccess(t)
         \/ CompleteFailure(t)
  PROVE  HealthInv'
<1> USE DEF HealthInv, HealthTypeOK, ClaimHasDeadline, OpenNeedsThreshold
<1>1. CASE Claim(p, t)
  BY <1>1 DEF Claim
<1>2. CASE Release(p, t)
  BY <1>2 DEF Release
<1>3. CASE CompleteSuccess(t)
  BY <1>3 DEF CompleteSuccess
<1>4. CASE CompleteFailure(t)
  BY <1>4, CountUpInRange DEF CompleteFailure
<1> QED
  BY <1>1, <1>2, <1>3, <1>4

\* Expiry removes a key with all its fields, so it cannot leave a claim
\* without a deadline nor an open circuit without its failures.
LEMMA TickKeepsInv == HealthInv /\ Tick => HealthInv'
  BY DEF HealthInv, HealthTypeOK, ClaimHasDeadline, OpenNeedsThreshold, Tick, Expiring

\* The invariant holds in every reachable state: type correctness, no claimed
\* probe without a deadline, and no open circuit below the threshold, under
\* lost calls, cancellations and crashes.
THEOREM FleetInvariant == HealthSpec => []HealthInv
<1>1. HealthInit => HealthInv
  BY DEF HealthInit, HealthInv, HealthTypeOK, ClaimHasDeadline, OpenNeedsThreshold, Guards
<1>2. HealthInv /\ [HealthNext]_healthVars => HealthInv'
  <2> SUFFICES ASSUME HealthInv, [HealthNext]_healthVars
               PROVE  HealthInv'
    OBVIOUS
  <2>1. CASE Tick
    BY <2>1, TickKeepsInv
  <2>2. ASSUME NEW p \in Probes, NEW t \in Targets,
               BeginGranted(p, t) \/ BeginReplyLost(p, t)
        PROVE  HealthInv'
    <3>1. guard' \in [Probes -> Guards] /\ target' \in [Probes -> Targets]
      BY <2>2 DEF BeginGranted, BeginReplyLost, HealthInv, HealthTypeOK, Guards
    <3>2. Claim(p, t)
      BY <2>2 DEF BeginGranted, BeginReplyLost
    <3> QED
      BY <3>1, <3>2, ScriptsKeepInv
  <2>3. ASSUME NEW p \in Probes, NEW v \in Verdicts, Finish(p, v)
        PROVE  HealthInv'
    BY <2>3 DEF Finish, HealthInv, HealthTypeOK, ClaimHasDeadline, OpenNeedsThreshold,
                hash, Guards, Verdicts
  <2>4. ASSUME NEW p \in Probes, Settle(p)
        PROVE  HealthInv'
    <3>1. guard' \in [Probes -> Guards] /\ target' \in [Probes -> Targets]
      BY <2>4 DEF Settle, HealthInv, HealthTypeOK, Guards
    <3>2. target[p] \in Targets
      BY DEF HealthInv, HealthTypeOK
    <3>3. \/ Release(p, target[p])
          \/ CompleteSuccess(target[p])
          \/ CompleteFailure(target[p])
          \/ UNCHANGED hash
      BY <2>4 DEF Settle, Verdicts
    <3>4. CASE UNCHANGED hash
      BY <3>1, <3>4 DEF HealthInv, HealthTypeOK, ClaimHasDeadline, OpenNeedsThreshold, hash
    <3> QED
      BY <3>1, <3>2, <3>3, <3>4, ScriptsKeepInv
  <2>5. ASSUME NEW p \in Probes, Vanish(p)
        PROVE  HealthInv'
    BY <2>5 DEF Vanish, HealthInv, HealthTypeOK, ClaimHasDeadline, OpenNeedsThreshold,
                hash, Guards
  <2>6. CASE UNCHANGED healthVars
    BY <2>6 DEF healthVars, HealthInv, HealthTypeOK, ClaimHasDeadline, OpenNeedsThreshold
  <2> QED
    BY <2>1, <2>2, <2>3, <2>4, <2>5, <2>6 DEF HealthNext
<1> QED
  BY <1>1, <1>2, PTL DEF HealthSpec

\* No crash, cancellation or lost call leaves a claim that Redis never drops.
THEOREM ClaimAlwaysHasDeadline == HealthSpec => []ClaimHasDeadline
BY FleetInvariant, PTL DEF HealthInv

\* The fleet circuit is never open with fewer failures than configured.
THEOREM OpenAlwaysNeedsThreshold == HealthSpec => []OpenNeedsThreshold
BY FleetInvariant, PTL DEF HealthInv

-----------------------------------------------------------------------------
\* The action OwnerDecides is about, for one target.
OwnerStep(t) ==
  probe[t] # NoProbe /\ <<failures[t], open_left[t]>> # <<failures'[t], open_left'[t]>>
    => \/ guard[probe[t]] \in {"success", "failure"} /\ target[probe[t]] = t
       \/ ttl'[t] < ttl[t]

\* A completion changes another request's circuit only when that circuit has
\* no owner: results that arrive late, twice or after the key expired are
\* ignored while somebody else probes.
THEOREM OwnerAlwaysDecides == HealthSpec => OwnerDecides
<1>1. ASSUME HealthInv, [HealthNext]_healthVars, NEW t \in Targets
      PROVE  OwnerStep(t)
  <2>1. CASE Tick
    BY <1>1, <2>1 DEF Tick, HealthInv, HealthTypeOK, ClaimHasDeadline, OwnerStep
  <2>2. ASSUME NEW p \in Probes, NEW u \in Targets,
               BeginGranted(p, u) \/ BeginReplyLost(p, u)
        PROVE  OwnerStep(t)
    BY <2>2 DEF BeginGranted, BeginReplyLost, Claim, OwnerStep
  <2>3. ASSUME NEW p \in Probes, NEW v \in Verdicts, Finish(p, v)
        PROVE  OwnerStep(t)
    BY <2>3 DEF Finish, hash, OwnerStep
  <2>4. ASSUME NEW p \in Probes, Settle(p)
        PROVE  OwnerStep(t)
    <3>1. CASE UNCHANGED <<failures, open_left>>
      BY <3>1 DEF OwnerStep
    <3>2. CASE ~ UNCHANGED <<failures, open_left>>
      <4>1. /\ guard[p] \in {"success", "failure"}
            /\ CompleteAllowed(p, target[p])
            /\ CompleteSuccess(target[p]) \/ CompleteFailure(target[p])
        BY <2>4, <3>2 DEF Settle, Verdicts, Release, hash
      <4>2. \A u \in Targets : u # target[p] =>
              failures'[u] = failures[u] /\ open_left'[u] = open_left[u]
        BY <1>1, <4>1 DEF CompleteSuccess, CompleteFailure, HealthInv, HealthTypeOK
      <4> QED
        BY <4>1, <4>2 DEF CompleteAllowed, OwnerStep
    <3> QED
      BY <3>1, <3>2
  <2>5. ASSUME NEW p \in Probes, Vanish(p)
        PROVE  OwnerStep(t)
    BY <2>5 DEF Vanish, hash, OwnerStep
  <2>6. CASE UNCHANGED healthVars
    BY <2>6 DEF healthVars, OwnerStep
  <2> QED
    BY <1>1, <2>1, <2>2, <2>3, <2>4, <2>5, <2>6 DEF HealthNext
<1>2. HealthInv /\ [HealthNext]_healthVars => [\A t \in Targets : OwnerStep(t)]_healthVars
  BY <1>1
<1> QED
  BY <1>2, FleetInvariant, PTL DEF HealthSpec, OwnerDecides, OwnerStep

=============================================================================
