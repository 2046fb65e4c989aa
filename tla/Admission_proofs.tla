-------------------------- MODULE Admission_proofs --------------------------
(***************************************************************************)
(* Proofs about delivery admission.  The permits are conserved because the  *)
(* list of waiters names exactly the waiting requests of its replica, each  *)
(* once: a permit handed to the head of the list moves between two requests *)
(* of the same replica.                                                     *)
(***************************************************************************)
EXTENDS Admission, FiniteSetTheorems, TLAPS

\* The waiters' list names waiting requests of its replica, each once.
WaitersListed ==
  \A r \in Replicas :
    /\ \A i \in 1..Len(waiters[r]) :
         Home[waiters[r][i]] = r /\ phase[waiters[r][i]] = "waiting"
    /\ \A i, j \in 1..Len(waiters[r]) : waiters[r][i] = waiters[r][j] => i = j

\* Lemma: adding a new element to a finite set.
LEMMA CardAdd ==
  ASSUME NEW S, IsFiniteSet(S), NEW x, x \notin S
  PROVE  /\ Cardinality(S \union {x}) = Cardinality(S) + 1
         /\ Cardinality(S) \in Nat
  BY FS_AddElement, FS_CardinalityType

\* Lemma: removing an element of a finite set.
LEMMA CardDel ==
  ASSUME NEW S, IsFiniteSet(S), NEW x \in S
  PROVE  /\ Cardinality(S \ {x}) = Cardinality(S) - 1
         /\ Cardinality(S) \in Nat
         /\ Cardinality(S \ {x}) \in Nat
  BY FS_RemoveElement, FS_CardinalityType

\* Lemma: sets of requests are finite.
LEMMA InPhaseFinite ==
  ASSUME NEW r, NEW ps PROVE IsFiniteSet(InPhase(r, ps))
  BY RequestsFinite, FS_Subset DEF InPhase

\* Lemma: what one moving request does to the sets of requests per phase.
LEMMA MoveOne ==
  ASSUME TypeOK, NEW q \in Requests, NEW to,
         phase' = [phase EXCEPT ![q] = to],
         NEW r, NEW ps
  PROVE  InPhase(r, ps)' =
           IF r # Home[q] THEN InPhase(r, ps)
           ELSE IF to \in ps THEN InPhase(r, ps) \union {q}
           ELSE InPhase(r, ps) \ {q}
  BY DEF InPhase, TypeOK

\* Lemma: the head of a non-empty list of waiters.
LEMMA HeadWaiter ==
  ASSUME TypeOK, WaitersListed, NEW r \in Replicas, waiters[r] # <<>>
  PROVE  /\ Head(waiters[r]) \in Requests
         /\ Home[Head(waiters[r])] = r
         /\ phase[Head(waiters[r])] = "waiting"
  <1>1. waiters[r] \in Seq(Requests) BY DEF TypeOK
  <1>2. Len(waiters[r]) \in Nat /\ Len(waiters[r]) >= 1 /\ Head(waiters[r]) = waiters[r][1]
        /\ waiters[r][1] \in Requests
    BY <1>1
  <1> QED BY <1>2 DEF WaitersListed

-----------------------------------------------------------------------------
(* Lemmas about the semaphores. *)

PermitPhases == {"granted", "leasing", "serving"}
QueuePhases == {"queued", "waiting", "granted"}

\* Lemma: a move that neither takes nor returns an in-flight permit.
LEMMA PermitStays ==
  ASSUME TypeOK, PermitsConserved, NEW q \in Requests, NEW to,
         phase' = [phase EXCEPT ![q] = to],
         phase[q] \in PermitPhases <=> to \in PermitPhases,
         UNCHANGED available
  PROVE  PermitsConserved'
  <1>1. \A r : InPhase(r, PermitPhases)' = InPhase(r, PermitPhases)
    BY DEF InPhase, TypeOK
  <1> QED BY <1>1 DEF PermitsConserved, HoldsPermit, PermitPhases

\* Lemma: a request that takes a permit from the pool.
LEMMA PermitTaken ==
  ASSUME TypeOK, PermitsConserved, NEW q \in Requests, NEW to \in PermitPhases,
         phase' = [phase EXCEPT ![q] = to],
         phase[q] \notin PermitPhases,
         TakePermit(Home[q])
  PROVE  PermitsConserved' /\ available' \in [Replicas -> 0..MaxInFlight]
  <1>1. Home[q] \in Replicas BY HomeAssumption
  <1>2. q \notin InPhase(Home[q], PermitPhases) BY DEF InPhase
  <1>3. \A r : InPhase(r, PermitPhases)' =
          IF r = Home[q] THEN InPhase(r, PermitPhases) \union {q}
          ELSE InPhase(r, PermitPhases)
    BY MoveOne
  <1>4. Cardinality(InPhase(Home[q], PermitPhases) \union {q})
          = Cardinality(InPhase(Home[q], PermitPhases)) + 1
        /\ Cardinality(InPhase(Home[q], PermitPhases)) \in Nat
    BY <1>2, InPhaseFinite, CardAdd
  <1>5. \A r \in Replicas : available[r] \in 0..MaxInFlight BY DEF TypeOK
  <1>6. available' \in [Replicas -> 0..MaxInFlight]
    BY <1>1, <1>5, InFlightAssumption DEF TakePermit, TypeOK
  <1>7. \A r \in Replicas : available'[r] = IF r = Home[q] THEN available[r] - 1 ELSE available[r]
    BY <1>1 DEF TakePermit, TypeOK
  <1>8. \A r \in Replicas : available[r] + Cardinality(InPhase(r, PermitPhases)) = MaxInFlight
    BY DEF PermitsConserved, HoldsPermit, PermitPhases
  <1>9. SUFFICES \A r \in Replicas :
                   available'[r] + Cardinality(InPhase(r, PermitPhases)') = MaxInFlight
    BY <1>6 DEF PermitsConserved, HoldsPermit, PermitPhases
  <1>10. TAKE r \in Replicas
  <1>11. CASE r = Home[q]
    <2>1. Cardinality(InPhase(r, PermitPhases)') = Cardinality(InPhase(r, PermitPhases)) + 1
      BY <1>3, <1>4, <1>11
    <2>2. available'[r] = available[r] - 1 BY <1>7, <1>11
    <2> QED BY <2>1, <2>2, <1>4, <1>5, <1>8, <1>11, InFlightAssumption
  <1>12. CASE r # Home[q] BY <1>3, <1>7, <1>8, <1>12
  <1> QED BY <1>11, <1>12

\* Lemma: a permit that comes back goes to the pool or to the oldest waiter,
\* and stays one permit.
LEMMA PermitReturned ==
  ASSUME TypeOK, PermitsConserved, WaitersListed,
         NEW q \in Requests, phase[q] \in PermitPhases,
         ReturnPermit(Home[q], [phase EXCEPT ![q] = "done"])
  PROVE  /\ available' \in [Replicas -> 0..MaxInFlight]
         /\ waiters' \in [Replicas -> Seq(Requests)]
         /\ phase' \in [Requests -> Phases]
         /\ PermitsConserved'
         /\ WaitersListed'
         /\ \A r : InPhase(r, QueuePhases)' = InPhase(r, QueuePhases) \ {q}
         /\ \A x \in Requests : x # q /\ phase[x] \notin {"waiting"} => phase'[x] = phase[x]
         /\ phase'[q] = "done"
  <1> DEFINE h == Home[q]
  <1>1. h \in Replicas BY HomeAssumption
  <1>2. q \in InPhase(h, PermitPhases) BY DEF InPhase
  <1>3. /\ Cardinality(InPhase(h, PermitPhases) \ {q}) = Cardinality(InPhase(h, PermitPhases)) - 1
        /\ Cardinality(InPhase(h, PermitPhases)) \in Nat
        /\ Cardinality(InPhase(h, PermitPhases) \ {q}) \in Nat
    BY <1>2, InPhaseFinite, CardDel
  <1>4. \A r \in Replicas : available[r] + Cardinality(InPhase(r, PermitPhases)) = MaxInFlight
    BY DEF PermitsConserved, HoldsPermit, PermitPhases
  <1>5. \A r \in Replicas : available[r] \in 0..MaxInFlight /\ waiters[r] \in Seq(Requests)
    BY DEF TypeOK
  <1>6. PermitsConserved' <=> \A r \in Replicas :
          available'[r] + Cardinality(InPhase(r, PermitPhases)') = MaxInFlight
    BY DEF PermitsConserved, HoldsPermit, PermitPhases
  <1>7. CASE waiters[h] = <<>>
    <2>1. /\ available' = [available EXCEPT ![h] = @ + 1]
          /\ phase' = [phase EXCEPT ![q] = "done"]
          /\ UNCHANGED waiters
      BY <1>7 DEF ReturnPermit
    <2>2. \A r : InPhase(r, PermitPhases)' =
            IF r = h THEN InPhase(r, PermitPhases) \ {q} ELSE InPhase(r, PermitPhases)
      BY <2>1 DEF InPhase, TypeOK, PermitPhases
    <2>3. available' \in [Replicas -> 0..MaxInFlight]
      <3>1. available[h] + 1 \in 0..MaxInFlight
        BY <1>1, <1>3, <1>4, <1>5, InFlightAssumption
      <3> QED BY <3>1, <2>1, <1>1 DEF TypeOK
    <2>4. \A r \in Replicas : available'[r] = IF r = h THEN available[r] + 1 ELSE available[r]
      BY <1>1, <2>1 DEF TypeOK
    <2>5. PermitsConserved'
      <3>1. SUFFICES ASSUME NEW r \in Replicas
                     PROVE  available'[r] + Cardinality(InPhase(r, PermitPhases)') = MaxInFlight
        BY <1>6
      <3>2. CASE r = h
        <4>1. Cardinality(InPhase(r, PermitPhases)') = Cardinality(InPhase(r, PermitPhases)) - 1
          BY <2>2, <1>3, <3>2
        <4> QED BY <4>1, <2>4, <1>3, <1>4, <1>5, <3>2, InFlightAssumption
      <3>3. CASE r # h BY <2>2, <2>4, <1>4, <3>3
      <3> QED BY <3>2, <3>3
    <2>6. WaitersListed' BY <2>1 DEF WaitersListed, TypeOK, PermitPhases
    <2>8. \A r : InPhase(r, QueuePhases)' = InPhase(r, QueuePhases) \ {q}
      BY <2>1 DEF QueuePhases, InPhase, TypeOK
    <2> QED BY <2>1, <2>3, <2>5, <2>6, <2>8 DEF TypeOK, Phases
  <1>8. CASE waiters[h] # <<>>
    <2> DEFINE w == Head(waiters[h])
    <2>1. /\ waiters' = [waiters EXCEPT ![h] = Tail(@)]
          /\ phase' = [[phase EXCEPT ![q] = "done"] EXCEPT ![w] = "granted"]
          /\ UNCHANGED available
      BY <1>8 DEF ReturnPermit
    <2>2. w \in Requests /\ Home[w] = h /\ phase[w] = "waiting"
      BY <1>1, <1>8, HeadWaiter
    <2>3. w # q BY <2>2 DEF PermitPhases
    <2>4. \A r : InPhase(r, PermitPhases)' =
            IF r = h THEN (InPhase(r, PermitPhases) \ {q}) \union {w} ELSE InPhase(r, PermitPhases)
      BY <2>1, <2>2, <2>3 DEF InPhase, TypeOK, PermitPhases
    <2>5. w \notin InPhase(h, PermitPhases) BY <2>2 DEF InPhase, PermitPhases
    <2>6. Cardinality((InPhase(h, PermitPhases) \ {q}) \union {w})
            = Cardinality(InPhase(h, PermitPhases) \ {q}) + 1
      <3>1. IsFiniteSet(InPhase(h, PermitPhases) \ {q})
        BY InPhaseFinite, FS_RemoveElement
      <3> QED BY <3>1, <2>5, CardAdd
    <2>7. PermitsConserved'
      <3>1. SUFFICES ASSUME NEW r \in Replicas
                     PROVE  available'[r] + Cardinality(InPhase(r, PermitPhases)') = MaxInFlight
        BY <1>6
      <3>2. CASE r = h
        <4>1. InPhase(h, PermitPhases)' = (InPhase(h, PermitPhases) \ {q}) \union {w}
          BY <2>4
        <4>2. Cardinality(InPhase(h, PermitPhases)') = Cardinality(InPhase(h, PermitPhases))
          BY <4>1, <2>6, <1>3
        <4> QED BY <4>2, <2>1, <1>4, <3>2
      <3>3. CASE r # h BY <2>4, <2>1, <1>4, <3>3
      <3> QED BY <3>2, <3>3
    <2>8. waiters' \in [Replicas -> Seq(Requests)] BY <2>1, <1>1, <1>5, <1>8 DEF TypeOK
    <2>9. WaitersListed'
      <3>1. SUFFICES ASSUME NEW r \in Replicas
                     PROVE  /\ \A i \in 1..Len(waiters'[r]) :
                                 Home[waiters'[r][i]] = r /\ phase'[waiters'[r][i]] = "waiting"
                            /\ \A i, j \in 1..Len(waiters'[r]) :
                                 waiters'[r][i] = waiters'[r][j] => i = j
        BY DEF WaitersListed
      <3>2. CASE r = h
        <4>1. waiters'[r] = Tail(waiters[h]) BY <2>1, <1>1, <3>2 DEF TypeOK
        <4>2. Len(waiters[h]) \in Nat /\ Len(waiters[h]) >= 1 /\ waiters[h][1] = w
          BY <1>1, <1>5, <1>8
        <4>3. /\ Len(Tail(waiters[h])) = Len(waiters[h]) - 1
              /\ \A i \in 1..Len(Tail(waiters[h])) :
                   Tail(waiters[h])[i] = waiters[h][i + 1] /\ waiters[h][i + 1] \in Requests
          BY <1>1, <1>5, <1>8
        <4>4. \A i \in 1..Len(waiters'[r]) :
                 /\ i + 1 \in 1..Len(waiters[h])
                 /\ waiters'[r][i] = waiters[h][i + 1]
          BY <4>1, <4>2, <4>3
        <4>5. \A i \in 1..Len(waiters'[r]) : waiters[h][i + 1] # w
          <5>1. TAKE i \in 1..Len(waiters'[r])
          <5>2. i + 1 # 1 /\ 1 \in 1..Len(waiters[h]) BY <4>2
          <5> QED BY <4>2, <4>4, <5>2, <1>1 DEF WaitersListed
        <4>6. \A i \in 1..Len(waiters'[r]) :
                 Home[waiters'[r][i]] = r /\ phase'[waiters'[r][i]] = "waiting"
          <5>1. TAKE i \in 1..Len(waiters'[r])
          <5>2. Home[waiters[h][i + 1]] = h /\ phase[waiters[h][i + 1]] = "waiting"
            BY <4>4, <1>1 DEF WaitersListed
          <5>3. waiters[h][i + 1] \in Requests BY <4>1, <4>3
          <5>4. waiters[h][i + 1] # q BY <5>2 DEF PermitPhases
          <5> QED BY <5>2, <5>3, <5>4, <4>4, <4>5, <3>2, <2>1 DEF TypeOK
        <4>7. \A i, j \in 1..Len(waiters'[r]) : waiters'[r][i] = waiters'[r][j] => i = j
          BY <4>4, <4>1, <4>3, <1>1, <4>2 DEF WaitersListed
        <4> QED BY <4>6, <4>7
      <3>3. CASE r # h
        <4>1. waiters'[r] = waiters[r] BY <2>1, <3>3 DEF TypeOK
        <4>2. \A i \in 1..Len(waiters[r]) : waiters[r][i] \in Requests BY <1>5
        <4> QED BY <4>1, <4>2, <2>1, <2>2, <3>3, SMTT(30) DEF WaitersListed, TypeOK, PermitPhases
      <3> QED BY <3>2, <3>3
    <2>11. \A r : InPhase(r, QueuePhases)' = InPhase(r, QueuePhases) \ {q}
      BY <2>1, <2>2, <2>3 DEF QueuePhases, InPhase, TypeOK
    <2> QED BY <2>1, <2>2, <2>3, <2>7, <2>8, <2>9, <2>11 DEF TypeOK, Phases
  <1> QED BY <1>7, <1>8

\* Lemma: a move that neither joins nor leaves the queue.
LEMMA QueueStays ==
  ASSUME QueuePermitsConserved, UNCHANGED queue_free,
         \A r : InPhase(r, QueuePhases)' = InPhase(r, QueuePhases)
  PROVE  QueuePermitsConserved'
  BY DEF QueuePermitsConserved, HoldsQueuePermit, QueuePhases

\* Lemma: a request that gives its queue permit back.
LEMMA QueueLeft ==
  ASSUME TypeOK, QueuePermitsConserved, NEW q \in Requests, phase[q] \in QueuePhases,
         LeaveQueue(Home[q]),
         \A r : InPhase(r, QueuePhases)' = InPhase(r, QueuePhases) \ {q}
  PROVE  QueuePermitsConserved' /\ queue_free' \in [Replicas -> 0..MaxQueued]
  <1> DEFINE h == Home[q]
             Q(r) == InPhase(r, QueuePhases)
  <1>1. h \in Replicas BY HomeAssumption
  <1>2. /\ Cardinality(Q(h) \ {q}) = Cardinality(Q(h)) - 1
        /\ Cardinality(Q(h)) \in Nat /\ Cardinality(Q(h) \ {q}) \in Nat
    <2>1. q \in Q(h) BY DEF InPhase
    <2> QED BY <2>1, InPhaseFinite, CardDel
  <1>3. \A r \in Replicas : r # h => Q(r)' = Q(r) BY DEF InPhase
  <1>4. \A r \in Replicas : queue_free[r] + Cardinality(Q(r)) = MaxQueued /\ queue_free[r] \in 0..MaxQueued
    BY DEF QueuePermitsConserved, HoldsQueuePermit, QueuePhases, TypeOK
  <1>5. \A r \in Replicas : queue_free'[r] = IF r = h THEN queue_free[r] + 1 ELSE queue_free[r]
    BY <1>1 DEF LeaveQueue, TypeOK
  <1>6. queue_free' \in [Replicas -> 0..MaxQueued]
    <2>1. queue_free[h] + 1 \in 0..MaxQueued BY <1>1, <1>2, <1>4, QueuedAssumption
    <2> QED BY <2>1, <1>1 DEF LeaveQueue, TypeOK
  <1>7. queue_free'[h] + Cardinality(Q(h)') = MaxQueued
    <2>1. Q(h)' = Q(h) \ {q} OBVIOUS
    <2>2. queue_free'[h] = queue_free[h] + 1 BY <1>1, <1>5
    <2>3. queue_free[h] + Cardinality(Q(h)) = MaxQueued /\ queue_free[h] \in Int BY <1>1, <1>4
    <2>4. Cardinality(Q(h)') = Cardinality(Q(h)) - 1 BY <2>1, <1>2
    <2> QED BY <2>2, <2>3, <2>4, <1>2, QueuedAssumption
  <1>8. \A r \in Replicas : queue_free'[r] + Cardinality(Q(r)') = MaxQueued
    BY <1>3, <1>4, <1>5, <1>7
  <1> QED BY <1>6, <1>8 DEF QueuePermitsConserved, HoldsQueuePermit, QueuePhases

\* Lemma: a request that takes a queue permit.
LEMMA QueueJoined ==
  ASSUME TypeOK, QueuePermitsConserved, NEW q \in Requests, JoinQueue(q)
  PROVE  QueuePermitsConserved' /\ queue_free' \in [Replicas -> 0..MaxQueued]
  <1> DEFINE h == Home[q]
             Q(r) == InPhase(r, QueuePhases)
  <1>1. h \in Replicas BY HomeAssumption
  <1>2. q \notin Q(h) BY DEF InPhase, QueuePhases, JoinQueue, Moves
  <1>3. \A r \in Replicas : Q(r)' = IF r = h THEN Q(r) \union {q} ELSE Q(r)
    BY DEF InPhase, JoinQueue, Moves, TypeOK, QueuePhases
  <1>4. Cardinality(Q(h) \union {q}) = Cardinality(Q(h)) + 1 /\ Cardinality(Q(h)) \in Nat
    BY <1>2, InPhaseFinite, CardAdd
  <1>5. \A r \in Replicas : queue_free[r] + Cardinality(Q(r)) = MaxQueued /\ queue_free[r] \in 0..MaxQueued
    BY DEF QueuePermitsConserved, HoldsQueuePermit, QueuePhases, TypeOK
  <1>6. \A r \in Replicas : queue_free'[r] = IF r = h THEN queue_free[r] - 1 ELSE queue_free[r]
    BY <1>1 DEF JoinQueue, TypeOK
  <1>7. queue_free[h] > 0 BY DEF JoinQueue
  <1>8. queue_free' \in [Replicas -> 0..MaxQueued]
    <2>1. queue_free[h] - 1 \in 0..MaxQueued BY <1>1, <1>5, <1>7, QueuedAssumption
    <2> QED BY <2>1, <1>1 DEF JoinQueue, TypeOK
  <1>9. queue_free'[h] + Cardinality(Q(h)') = MaxQueued
    <2>1. Q(h)' = Q(h) \union {q} BY <1>1, <1>3
    <2>2. queue_free'[h] = queue_free[h] - 1 BY <1>1, <1>6
    <2>3. queue_free[h] + Cardinality(Q(h)) = MaxQueued /\ queue_free[h] \in Int BY <1>1, <1>5
    <2>4. Cardinality(Q(h)') = Cardinality(Q(h)) + 1 BY <2>1, <1>4
    <2> QED BY <2>2, <2>3, <2>4, <1>4, QueuedAssumption
  <1>10. \A r \in Replicas : queue_free'[r] + Cardinality(Q(r)') = MaxQueued
    BY <1>3, <1>5, <1>6, <1>9
  <1> QED BY <1>8, <1>10 DEF QueuePermitsConserved, HoldsQueuePermit, QueuePhases

\* Lemma: a request that is not waiting before or after its move.
LEMMA ListStays ==
  ASSUME TypeOK, WaitersListed, NEW q \in Requests, NEW to,
         phase' = [phase EXCEPT ![q] = to], phase[q] # "waiting", UNCHANGED waiters
  PROVE  WaitersListed'
  <1>1. \A r \in Replicas : \A i \in 1..Len(waiters[r]) : waiters[r][i] \in Requests
    BY DEF TypeOK
  <1> QED BY <1>1 DEF WaitersListed, TypeOK

\* Lemma: Acquire is registered at the end of the list.
LEMMA ListAppended ==
  ASSUME TypeOK, WaitersListed, NEW q \in Requests, FirstPollPending(q)
  PROVE  WaitersListed' /\ waiters' \in [Replicas -> Seq(Requests)]
  <1> DEFINE h == Home[q]
  <1>1. h \in Replicas BY HomeAssumption
  <1>2. /\ phase[q] = "queued"
        /\ phase' = [phase EXCEPT ![q] = "waiting"]
        /\ waiters' = [waiters EXCEPT ![h] = Append(@, q)]
    BY DEF FirstPollPending, Moves
  <1>3. \A r \in Replicas : waiters[r] \in Seq(Requests) BY DEF TypeOK
  <1>4. /\ Len(waiters[h]) \in Nat
        /\ Len(Append(waiters[h], q)) = Len(waiters[h]) + 1
        /\ Append(waiters[h], q)[Len(waiters[h]) + 1] = q
        /\ \A i \in 1..Len(waiters[h]) :
             Append(waiters[h], q)[i] = waiters[h][i] /\ waiters[h][i] \in Requests
    BY <1>1, <1>3
  <1>5. waiters' \in [Replicas -> Seq(Requests)] BY <1>1, <1>2, <1>3 DEF TypeOK
  <1>6. SUFFICES ASSUME NEW r \in Replicas
                 PROVE  /\ \A i \in 1..Len(waiters'[r]) :
                             Home[waiters'[r][i]] = r /\ phase'[waiters'[r][i]] = "waiting"
                        /\ \A i, j \in 1..Len(waiters'[r]) :
                             waiters'[r][i] = waiters'[r][j] => i = j
    BY <1>5 DEF WaitersListed
  <1>7. CASE r = h
    <2>1. waiters'[r] = Append(waiters[h], q) BY <1>1, <1>2, <1>7 DEF TypeOK
    <2>2. \A i \in 1..Len(waiters[h]) :
             Home[waiters[h][i]] = h /\ phase[waiters[h][i]] = "waiting" /\ waiters[h][i] # q
      BY <1>1, <1>2 DEF WaitersListed
    <2>3. \A i \in 1..Len(waiters'[r]) :
             i = Len(waiters[h]) + 1 \/ i \in 1..Len(waiters[h])
      BY <2>1, <1>4
    <2>4. ASSUME NEW i \in 1..Len(waiters'[r])
          PROVE  Home[waiters'[r][i]] = r /\ phase'[waiters'[r][i]] = "waiting"
      BY <2>1, <2>2, <2>3, <1>2, <1>4, <1>7 DEF TypeOK
    <2>5. ASSUME NEW i \in 1..Len(waiters'[r]), NEW j \in 1..Len(waiters'[r]),
                 waiters'[r][i] = waiters'[r][j]
          PROVE  i = j
      BY <2>5, <2>1, <2>2, <2>3, <1>1, <1>4 DEF WaitersListed
    <2> QED BY <2>4, <2>5
  <1>8. CASE r # h
    <2>1. waiters'[r] = waiters[r] BY <1>2, <1>8 DEF TypeOK
    <2>2. \A i \in 1..Len(waiters[r]) : waiters[r][i] \in Requests BY <1>3
    <2> QED BY <2>1, <2>2, <1>2, <1>8 DEF WaitersListed, TypeOK
  <1> QED BY <1>7, <1>8

\* Lemma: a request that stops waiting is taken out of the list.
LEMMA ListShortened ==
  ASSUME TypeOK, WaitersListed, NEW q \in Requests, StopWaiting(q)
  PROVE  WaitersListed' /\ waiters' \in [Replicas -> Seq(Requests)]
  <1> DEFINE h == Home[q]
             s == waiters[h]
  <1>1. h \in Replicas BY HomeAssumption
  <1>2. PICK k \in 1..Len(s) : s[k] = q /\ waiters' = [waiters EXCEPT ![h] = Without(@, k)]
    BY DEF StopWaiting, Unregister
  <1>3. phase' = [phase EXCEPT ![q] = "done"] BY DEF StopWaiting, Moves
  <1>4. s \in Seq(Requests) /\ Len(s) \in Nat /\ Len(s) >= 1
        /\ \A i \in 1..Len(s) : s[i] \in Requests
    BY <1>1, <1>2 DEF TypeOK
  <1>5. Without(s, k) \in Seq(Requests) /\ Len(Without(s, k)) = Len(s) - 1
    <2>1. Without(s, k) \in [1..(Len(s) - 1) -> Requests] BY <1>2, <1>4 DEF Without
    <2> QED BY <2>1, <1>4
  <1>6. waiters' \in [Replicas -> Seq(Requests)] BY <1>1, <1>2, <1>5 DEF TypeOK
  <1>7. SUFFICES ASSUME NEW r \in Replicas
                 PROVE  /\ \A i \in 1..Len(waiters'[r]) :
                             Home[waiters'[r][i]] = r /\ phase'[waiters'[r][i]] = "waiting"
                        /\ \A i, j \in 1..Len(waiters'[r]) :
                             waiters'[r][i] = waiters'[r][j] => i = j
    BY <1>6 DEF WaitersListed
  <1>8. CASE r = h
    <2> DEFINE at(i) == IF i < k THEN i ELSE i + 1
    <2>1. waiters'[r] = Without(s, k) BY <1>1, <1>2, <1>8 DEF TypeOK
    <2>2. \A i \in 1..Len(waiters'[r]) :
             /\ waiters'[r][i] = s[at(i)]
             /\ at(i) \in 1..Len(s)
             /\ at(i) # k
      BY <2>1, <1>2, <1>4, <1>5 DEF Without
    <2>3. \A i \in 1..Len(waiters'[r]) : s[at(i)] # q
      BY <2>2, <1>1, <1>2 DEF WaitersListed
    <2>4. ASSUME NEW i \in 1..Len(waiters'[r])
          PROVE  Home[waiters'[r][i]] = r /\ phase'[waiters'[r][i]] = "waiting"
      <3>1. Home[s[at(i)]] = h /\ phase[s[at(i)]] = "waiting" /\ s[at(i)] \in Requests
        BY <2>2, <1>1, <1>4 DEF WaitersListed
      <3> QED BY <3>1, <2>2, <2>3, <1>3, <1>8 DEF TypeOK
    <2>5. ASSUME NEW i \in 1..Len(waiters'[r]), NEW j \in 1..Len(waiters'[r]),
                 waiters'[r][i] = waiters'[r][j]
          PROVE  i = j
      <3>1. s[at(i)] = s[at(j)] /\ at(i) \in 1..Len(s) /\ at(j) \in 1..Len(s)
        BY <2>5, <2>2
      <3>2. at(i) = at(j) BY <3>1, <1>1 DEF WaitersListed
      <3>3. i \in Int /\ j \in Int /\ k \in Int BY <2>1, <1>4, <1>5
      <3> QED BY <3>2, <3>3
    <2> QED BY <2>4, <2>5
  <1>9. CASE r # h
    <2>1. waiters'[r] = waiters[r] BY <1>2, <1>9 DEF TypeOK
    <2>2. \A i \in 1..Len(waiters[r]) : waiters[r][i] \in Requests BY DEF TypeOK
    <2>3. \A i \in 1..Len(waiters[r]) : waiters[r][i] # q BY <1>9 DEF WaitersListed
    <2> QED BY <2>1, <2>2, <2>3, <1>3 DEF WaitersListed, TypeOK
  <1> QED BY <1>8, <1>9

-----------------------------------------------------------------------------
(* The inductive invariant. *)

SemaphoreInv ==
  /\ WaitersListed
  /\ PermitsConserved
  /\ QueuePermitsConserved

\* A guard belongs to a running delivery and a release to a finished one; the
\* key outlives its members.
LeaseInv ==
  /\ FleetBound
  /\ \A q \in held : phase[q] = "serving"
  /\ \A q \in releasing : phase[q] = "done"
  /\ \A q \in Requests : leases[q] =< key_left

Inv == TypeOK /\ SemaphoreInv /\ LeaseInv

SemaphoreTypes ==
  /\ available \in [Replicas -> 0..MaxInFlight]
  /\ queue_free \in [Replicas -> 0..MaxQueued]
  /\ waiters \in [Replicas -> Seq(Requests)]
  /\ phase \in [Requests -> Phases]

\* Lemma: the initial state satisfies the invariant.
LEMMA InitInv == Init => Inv
  <1> SUFFICES ASSUME Init PROVE Inv OBVIOUS
  <1>1. TypeOK BY InFlightAssumption, QueuedAssumption, TTLAssumption DEF Init, TypeOK, Phases
  <1>2. \A r : HoldsPermit(r) = {} /\ HoldsQueuePermit(r) = {}
    BY DEF Init, InPhase, HoldsPermit, HoldsQueuePermit
  <1>3. PermitsConserved
    <2>1. \A r \in Replicas : available[r] = MaxInFlight BY DEF Init
    <2>2. \A r : Cardinality(HoldsPermit(r)) = 0 BY <1>2, FS_EmptySet
    <2> QED BY <2>1, <2>2, InFlightAssumption DEF PermitsConserved
  <1>4. QueuePermitsConserved
    <2>1. \A r \in Replicas : queue_free[r] = MaxQueued BY DEF Init
    <2>2. \A r : Cardinality(HoldsQueuePermit(r)) = 0 BY <1>2, FS_EmptySet
    <2> QED BY <2>1, <2>2, QueuedAssumption DEF QueuePermitsConserved
  <1>5. WaitersListed BY DEF Init, WaitersListed
  <1>6. LeaseInv
    <2>1. Leased = {} BY DEF Leased, Init
    <2> QED BY <2>1, FS_EmptySet, InFlightAssumption DEF LeaseInv, FleetBound, Init
  <1> QED BY <1>1, <1>3, <1>4, <1>5, <1>6 DEF Inv, SemaphoreInv

\* Lemma: every step keeps the semaphores and the waiters' list consistent.
LEMMA SemaphoreStep ==
  ASSUME TypeOK, SemaphoreInv, [Next]_vars
  PROVE  SemaphoreInv' /\ SemaphoreTypes'
  <1> USE DEF SemaphoreInv
  <1>1. ASSUME NEW q \in Requests, NEW to \in Phases,
               phase' = [phase EXCEPT ![q] = to], phase[q] # "waiting",
               phase[q] \in PermitPhases <=> to \in PermitPhases,
               phase[q] \in QueuePhases <=> to \in QueuePhases,
               UNCHANGED <<available, queue_free, waiters>>
        PROVE  SemaphoreInv' /\ SemaphoreTypes'
    <2>1. \A r : InPhase(r, QueuePhases)' = InPhase(r, QueuePhases)
      BY <1>1 DEF InPhase, TypeOK
    <2>2. PermitsConserved' BY <1>1, PermitStays
    <2>3. QueuePermitsConserved' BY <1>1, <2>1, QueueStays
    <2>4. WaitersListed' BY <1>1, ListStays
    <2> QED BY <1>1, <2>2, <2>3, <2>4 DEF SemaphoreTypes, TypeOK
  <1>2. ASSUME NEW q \in Requests, phase[q] \in {"leasing", "serving"},
               ReturnPermit(Home[q], [phase EXCEPT ![q] = "done"]),
               UNCHANGED queue_free
        PROVE  SemaphoreInv' /\ SemaphoreTypes'
    <2>1. phase[q] \in PermitPhases BY <1>2 DEF PermitPhases
    <2>2. \A r : InPhase(r, QueuePhases)' = InPhase(r, QueuePhases) \ {q}
      BY <1>2, <2>1, PermitReturned
    <2>3. \A r : q \notin InPhase(r, QueuePhases) BY <1>2 DEF InPhase, QueuePhases
    <2>4. QueuePermitsConserved' BY <1>2, <2>2, <2>3, QueueStays
    <2> QED BY <1>2, <2>1, <2>4, PermitReturned DEF SemaphoreTypes, TypeOK
  <1>3. ASSUME UNCHANGED <<available, queue_free, waiters, phase>>
        PROVE  SemaphoreInv' /\ SemaphoreTypes'
    BY <1>3 DEF WaitersListed, PermitsConserved, QueuePermitsConserved,
       HoldsPermit, HoldsQueuePermit, InPhase, SemaphoreTypes, TypeOK
  <1>4. ASSUME NEW q \in Requests, AdmitNow(q) PROVE SemaphoreInv' /\ SemaphoreTypes'
    <2>1. /\ phase' = [phase EXCEPT ![q] = "leasing"] /\ phase[q] = "idle"
          /\ TakePermit(Home[q]) /\ UNCHANGED <<queue_free, waiters>>
      BY <1>4 DEF AdmitNow, Moves
    <2>2. PermitsConserved' /\ available' \in [Replicas -> 0..MaxInFlight]
      BY <2>1, PermitTaken DEF PermitPhases
    <2>3. \A r : InPhase(r, QueuePhases)' = InPhase(r, QueuePhases)
      BY <2>1 DEF InPhase, TypeOK, QueuePhases
    <2>4. QueuePermitsConserved' BY <2>1, <2>3, QueueStays
    <2>5. WaitersListed' BY <2>1, ListStays
    <2> QED BY <2>1, <2>2, <2>4, <2>5 DEF SemaphoreTypes, TypeOK, Phases
  <1>5. ASSUME NEW q \in Requests, JoinQueue(q) PROVE SemaphoreInv' /\ SemaphoreTypes'
    <2>1. /\ phase' = [phase EXCEPT ![q] = "queued"] /\ phase[q] = "full"
          /\ UNCHANGED <<available, waiters>>
      BY <1>5 DEF JoinQueue, Moves
    <2>2. QueuePermitsConserved' /\ queue_free' \in [Replicas -> 0..MaxQueued]
      BY <1>5, QueueJoined
    <2>3. PermitsConserved' BY <2>1, PermitStays DEF PermitPhases
    <2>4. WaitersListed' BY <2>1, ListStays
    <2> QED BY <2>1, <2>2, <2>3, <2>4 DEF SemaphoreTypes, TypeOK, Phases
  <1>6. ASSUME NEW q \in Requests, FirstPollReady(q) PROVE SemaphoreInv' /\ SemaphoreTypes'
    <2>1. /\ phase' = [phase EXCEPT ![q] = "leasing"] /\ phase[q] = "queued"
          /\ TakePermit(Home[q]) /\ LeaveQueue(Home[q]) /\ UNCHANGED waiters
      BY <1>6 DEF FirstPollReady, Moves
    <2>2. PermitsConserved' /\ available' \in [Replicas -> 0..MaxInFlight]
      BY <2>1, PermitTaken DEF PermitPhases
    <2>3. \A r : InPhase(r, QueuePhases)' = InPhase(r, QueuePhases) \ {q}
      BY <2>1 DEF InPhase, TypeOK, QueuePhases
    <2>4. QueuePermitsConserved' /\ queue_free' \in [Replicas -> 0..MaxQueued]
      <3>1. phase[q] \in QueuePhases BY <2>1 DEF QueuePhases
      <3> QED BY <2>1, <2>3, <3>1, QueueLeft
    <2>5. WaitersListed' BY <2>1, ListStays
    <2> QED BY <2>1, <2>2, <2>4, <2>5 DEF SemaphoreTypes, TypeOK, Phases
  <1>7. ASSUME NEW q \in Requests, FirstPollPending(q) PROVE SemaphoreInv' /\ SemaphoreTypes'
    <2>1. /\ phase' = [phase EXCEPT ![q] = "waiting"] /\ phase[q] = "queued"
          /\ available[Home[q]] = 0
          /\ waiters' = [waiters EXCEPT ![Home[q]] = Append(@, q)]
          /\ UNCHANGED <<available, queue_free>>
      BY <1>7 DEF FirstPollPending, Moves
    <2>2. PermitsConserved' BY <2>1, PermitStays DEF PermitPhases
    <2>3. \A r : InPhase(r, QueuePhases)' = InPhase(r, QueuePhases)
      BY <2>1 DEF InPhase, TypeOK, QueuePhases
    <2>4. QueuePermitsConserved' BY <2>1, <2>3, QueueStays
    <2>5. WaitersListed' /\ waiters' \in [Replicas -> Seq(Requests)] BY <1>7, ListAppended
    <2> QED BY <2>1, <2>2, <2>4, <2>5 DEF SemaphoreTypes, TypeOK, Phases
  <1>8. ASSUME NEW q \in Requests, WakeUp(q) PROVE SemaphoreInv' /\ SemaphoreTypes'
    <2>1. /\ phase' = [phase EXCEPT ![q] = "leasing"] /\ phase[q] = "granted"
          /\ LeaveQueue(Home[q]) /\ UNCHANGED <<available, waiters>>
      BY <1>8 DEF WakeUp, Moves
    <2>2. PermitsConserved' BY <2>1, PermitStays DEF PermitPhases
    <2>3. \A r : InPhase(r, QueuePhases)' = InPhase(r, QueuePhases) \ {q}
      BY <2>1 DEF InPhase, TypeOK, QueuePhases
    <2>4. QueuePermitsConserved' /\ queue_free' \in [Replicas -> 0..MaxQueued]
      <3>1. phase[q] \in QueuePhases BY <2>1 DEF QueuePhases
      <3> QED BY <2>1, <2>3, <3>1, QueueLeft
    <2>5. WaitersListed' BY <2>1, ListStays
    <2> QED BY <2>1, <2>2, <2>4, <2>5 DEF SemaphoreTypes, TypeOK, Phases
  <1>9. ASSUME NEW q \in Requests, StopWaiting(q) PROVE SemaphoreInv' /\ SemaphoreTypes'
    <2>1. /\ phase' = [phase EXCEPT ![q] = "done"] /\ phase[q] = "waiting"
          /\ LeaveQueue(Home[q]) /\ UNCHANGED available
      BY <1>9 DEF StopWaiting, Moves
    <2>2. PermitsConserved' BY <2>1, PermitStays DEF PermitPhases
    <2>3. \A r : InPhase(r, QueuePhases)' = InPhase(r, QueuePhases) \ {q}
      BY <2>1 DEF InPhase, TypeOK, QueuePhases
    <2>4. QueuePermitsConserved' /\ queue_free' \in [Replicas -> 0..MaxQueued]
      <3>1. phase[q] \in QueuePhases BY <2>1 DEF QueuePhases
      <3> QED BY <2>1, <2>3, <3>1, QueueLeft
    <2>5. WaitersListed' /\ waiters' \in [Replicas -> Seq(Requests)] BY <1>9, ListShortened
    <2> QED BY <2>1, <2>2, <2>4, <2>5 DEF SemaphoreTypes, TypeOK, Phases
  <1>10. ASSUME NEW q \in Requests, CancelGranted(q) PROVE SemaphoreInv' /\ SemaphoreTypes'
    <2>1. /\ phase[q] = "granted" /\ LeaveQueue(Home[q])
          /\ ReturnPermit(Home[q], [phase EXCEPT ![q] = "done"])
      BY <1>10 DEF CancelGranted
    <2>2. phase[q] \in PermitPhases /\ phase[q] \in QueuePhases
      BY <2>1 DEF PermitPhases, QueuePhases
    <2>3. \A r : InPhase(r, QueuePhases)' = InPhase(r, QueuePhases) \ {q}
      BY <2>1, <2>2, PermitReturned
    <2>4. QueuePermitsConserved' /\ queue_free' \in [Replicas -> 0..MaxQueued]
      BY <2>1, <2>2, <2>3, QueueLeft
    <2> QED BY <2>1, <2>2, <2>4, PermitReturned DEF SemaphoreTypes
  <1>11. ASSUME NEW r \in Replicas, Crash(r) PROVE SemaphoreInv' /\ SemaphoreTypes'
    <2>1. /\ available' = [available EXCEPT ![r] = MaxInFlight]
          /\ queue_free' = [queue_free EXCEPT ![r] = MaxQueued]
          /\ waiters' = [waiters EXCEPT ![r] = <<>>]
          /\ phase' = [q \in Requests |->
                         IF Home[q] = r /\ phase[q] # "idle" THEN "done" ELSE phase[q]]
      BY <1>11 DEF Crash
    <2>2. SemaphoreTypes'
      BY <2>1, InFlightAssumption, QueuedAssumption DEF SemaphoreTypes, TypeOK, Phases
    <2>3. \A x \in Replicas : x # r =>
            /\ InPhase(x, PermitPhases)' = InPhase(x, PermitPhases)
            /\ InPhase(x, QueuePhases)' = InPhase(x, QueuePhases)
      BY <2>1 DEF InPhase, TypeOK
    <2>4. InPhase(r, PermitPhases)' = {} /\ InPhase(r, QueuePhases)' = {}
      BY <2>1 DEF InPhase, PermitPhases, QueuePhases, TypeOK
    <2>5. Cardinality(InPhase(r, PermitPhases)') = 0 /\ Cardinality(InPhase(r, QueuePhases)') = 0
      BY <2>4, FS_EmptySet
    <2>6. PermitsConserved'
      BY <2>1, <2>3, <2>5, InFlightAssumption DEF PermitsConserved, HoldsPermit, PermitPhases, TypeOK
    <2>7. QueuePermitsConserved'
      BY <2>1, <2>3, <2>5, QueuedAssumption
      DEF QueuePermitsConserved, HoldsQueuePermit, QueuePhases, TypeOK
    <2>8. WaitersListed'
      <3>1. \A x \in Replicas : \A i \in 1..Len(waiters[x]) : waiters[x][i] \in Requests
        BY DEF TypeOK
      <3>2. \A x \in Replicas : waiters'[x] = IF x = r THEN <<>> ELSE waiters[x]
        BY <2>1 DEF TypeOK
      <3> QED BY <2>1, <3>1, <3>2 DEF WaitersListed
    <2> QED BY <2>2, <2>6, <2>7, <2>8
  <1>12. CASE UNCHANGED vars BY <1>3, <1>12 DEF vars
  <1>13. CASE Tick BY <1>3, <1>13 DEF Tick
  <1>14. ASSUME NEW q \in Requests, Acquire(q) PROVE SemaphoreInv' /\ SemaphoreTypes'
    <2>1. CASE Saturated(q) BY <1>1, <2>1 DEF Saturated, Moves, Phases, PermitPhases, QueuePhases
    <2>2. CASE QueueFull(q) BY <1>1, <2>2 DEF QueueFull, Moves, Phases, PermitPhases, QueuePhases
    <2> QED BY <1>4, <1>5, <1>6, <1>7, <1>8, <1>9, <1>10, <1>14, <2>1, <2>2 DEF Acquire
  <1>15. ASSUME NEW q \in Requests, Lease(q) PROVE SemaphoreInv' /\ SemaphoreTypes'
    <2>1. CASE LeaseGranted(q)
      BY <1>1, <2>1 DEF LeaseGranted, Moves, Phases, PermitPhases, QueuePhases
    <2>2. CASE LeaseUnavailable(q)
      BY <1>1, <2>2 DEF LeaseUnavailable, Moves, Phases, PermitPhases, QueuePhases
    <2>3. CASE LeaseReplyLost(q)
      BY <1>1, <2>3 DEF LeaseReplyLost, Moves, Phases, PermitPhases, QueuePhases
    <2>4. CASE LeaseRefused(q) BY <1>2, <2>4 DEF LeaseRefused
    <2>5. CASE CancelLeasing(q) BY <1>2, <2>5 DEF CancelLeasing
    <2>6. CASE Finish(q) BY <1>2, <2>6 DEF Finish
    <2>7. CASE ReleaseLease(q) BY <1>3, <2>7 DEF ReleaseLease
    <2>8. CASE ReleaseLost(q) BY <1>3, <2>8 DEF ReleaseLost
    <2> QED BY <1>15, <2>1, <2>2, <2>3, <2>4, <2>5, <2>6, <2>7, <2>8 DEF Lease
  <1> QED BY <1>11, <1>12, <1>13, <1>14, <1>15 DEF Next

\* Lemma: storing a lease when there is room keeps the fleet bound.
LEMMA StoreBound ==
  ASSUME TypeOK, FleetBound, NEW q \in Requests, LeaseFree(q), StoreLease(q)
  PROVE  /\ FleetBound'
         /\ leases' \in [Requests -> 0..LeaseTTL]
         /\ key_left' \in 0..LeaseTTL
         /\ (\A x \in Requests : leases[x] =< key_left)
              => \A x \in Requests : leases'[x] =< key_left'
  <1>1. CASE q \in Leased
    BY <1>1 DEF StoreLease, FleetBound, Leased, TypeOK
  <1>2. CASE q \notin Leased
    <2>1. leases' = [leases EXCEPT ![q] = LeaseTTL] /\ key_left' = LeaseTTL
      BY <1>2 DEF StoreLease
    <2>2. Leased' = Leased \union {q} BY <2>1, TTLAssumption DEF Leased, TypeOK
    <2>3. IsFiniteSet(Leased) BY RequestsFinite, FS_Subset DEF Leased
    <2>4. Cardinality(Leased') = Cardinality(Leased) + 1 /\ Cardinality(Leased) \in Nat
      BY <1>2, <2>2, <2>3, CardAdd
    <2>5. FleetBound' BY <1>2, <2>4, InFlightAssumption DEF FleetBound, LeaseFree
    <2>6. \A x \in Requests : leases'[x] =< key_left'
      BY <2>1, TTLAssumption DEF TypeOK
    <2> QED BY <2>1, <2>5, <2>6, TTLAssumption DEF TypeOK
  <1> QED BY <1>1, <1>2

\* Lemma: fewer leases keep the fleet bound.
LEMMA FewerLeases ==
  ASSUME FleetBound, Leased' \subseteq Leased PROVE FleetBound'
  <1>1. IsFiniteSet(Leased) BY RequestsFinite, FS_Subset DEF Leased
  <1>2. Cardinality(Leased') =< Cardinality(Leased) /\ Cardinality(Leased) \in Nat
        /\ Cardinality(Leased') \in Nat
    BY <1>1, FS_Subset, FS_CardinalityType
  <1> QED BY <1>2, InFlightAssumption DEF FleetBound

LeaseTypes ==
  /\ held \in SUBSET Requests
  /\ releasing \in SUBSET Requests
  /\ leases \in [Requests -> 0..LeaseTTL]
  /\ key_left \in 0..LeaseTTL

\* Lemma: every step keeps the leases, their owners and their deadlines.
LEMMA LeaseStep ==
  ASSUME TypeOK, SemaphoreInv, LeaseInv, [Next]_vars
  PROVE  LeaseInv' /\ LeaseTypes'
  <1> USE DEF LeaseInv
  <1>1. ASSUME NEW q \in Requests, NEW to, phase' = [phase EXCEPT ![q] = to],
               phase[q] \notin {"serving", "done"},
               UNCHANGED <<held, releasing, leases, key_left>>
        PROVE  LeaseInv' /\ LeaseTypes'
    BY <1>1 DEF FleetBound, Leased, LeaseTypes, TypeOK
  <1>2. ASSUME NEW q \in Requests, phase[q] \in PermitPhases,
               ReturnPermit(Home[q], [phase EXCEPT ![q] = "done"])
        PROVE  /\ phase'[q] = "done"
               /\ \A x \in Requests :
                    x # q /\ phase[x] \in {"serving", "done"} => phase'[x] = phase[x]
    BY <1>2, PermitReturned DEF SemaphoreInv
  <1>3. ASSUME NEW q \in Requests, phase[q] \in {"granted", "leasing"},
               ReturnPermit(Home[q], [phase EXCEPT ![q] = "done"]),
               UNCHANGED <<held, releasing, leases, key_left>>
        PROVE  LeaseInv' /\ LeaseTypes'
    <2>1. phase[q] \in PermitPhases BY <1>3 DEF PermitPhases
    <2> QED BY <1>2, <1>3, <2>1 DEF FleetBound, Leased, LeaseTypes, TypeOK
  <1>4. ASSUME NEW q \in Requests, Acquire(q) PROVE LeaseInv' /\ LeaseTypes'
    <2>1. CASE CancelGranted(q) BY <1>3, <2>1 DEF CancelGranted, redis
    <2>2. CASE AdmitNow(q) BY <1>1, <2>2 DEF AdmitNow, Moves, redis
    <2>3. CASE Saturated(q) BY <1>1, <2>3 DEF Saturated, Moves, redis
    <2>4. CASE JoinQueue(q) BY <1>1, <2>4 DEF JoinQueue, Moves, redis
    <2>5. CASE QueueFull(q) BY <1>1, <2>5 DEF QueueFull, Moves, redis
    <2>6. CASE FirstPollReady(q) BY <1>1, <2>6 DEF FirstPollReady, Moves, redis
    <2>7. CASE FirstPollPending(q) BY <1>1, <2>7 DEF FirstPollPending, Moves, redis
    <2>8. CASE WakeUp(q) BY <1>1, <2>8 DEF WakeUp, Moves, redis
    <2>9. CASE StopWaiting(q) BY <1>1, <2>9 DEF StopWaiting, Moves, redis
    <2> QED BY <1>4, <2>1, <2>2, <2>3, <2>4, <2>5, <2>6, <2>7, <2>8, <2>9 DEF Acquire
  <1>5. ASSUME NEW q \in Requests, Lease(q) PROVE LeaseInv' /\ LeaseTypes'
    <2>1. CASE LeaseGranted(q)
      BY <2>1, StoreBound DEF LeaseGranted, Moves, LeaseTypes, TypeOK
    <2>2. CASE LeaseReplyLost(q)
      BY <2>2, StoreBound DEF LeaseReplyLost, Moves, LeaseTypes, TypeOK
    <2>3. CASE LeaseUnavailable(q) BY <1>1, <2>3 DEF LeaseUnavailable, Moves, redis
    <2>4. CASE LeaseRefused(q) BY <1>3, <2>4 DEF LeaseRefused, redis
    <2>5. CASE CancelLeasing(q)
      <3>1. CASE UNCHANGED redis BY <1>3, <2>5, <3>1 DEF CancelLeasing, redis
      <3>2. CASE LeaseFree(q) /\ StoreLease(q)
        <4>1. phase[q] \in PermitPhases BY <2>5 DEF CancelLeasing, PermitPhases
        <4> QED BY <2>5, <3>2, <4>1, <1>2, StoreBound DEF CancelLeasing, LeaseTypes, TypeOK
      <3> QED BY <2>5, <3>1, <3>2 DEF CancelLeasing
    <2>6. CASE Finish(q)
      <3>1. phase[q] \in PermitPhases BY <2>6 DEF Finish, PermitPhases
      <3> QED BY <2>6, <3>1, <1>2 DEF Finish, redis, FleetBound, Leased, LeaseTypes, TypeOK
    <2>7. CASE ReleaseLease(q)
      <3>1. leases' = [leases EXCEPT ![q] = 0] BY <2>7 DEF ReleaseLease
      <3>2. Leased' \subseteq Leased BY <3>1 DEF Leased, TypeOK
      <3>3. \A x \in Requests : leases'[x] =< key_left'
        <4>1. CASE Leased \subseteq {q} BY <4>1, <2>7, <3>1 DEF ReleaseLease, Leased, TypeOK
        <4>2. CASE ~(Leased \subseteq {q}) BY <4>2, <2>7, <3>1 DEF ReleaseLease, TypeOK
        <4> QED BY <4>1, <4>2
      <3>4. FleetBound' BY <3>2, FewerLeases
      <3>5. LeaseTypes' BY <2>7, <3>1, TTLAssumption DEF ReleaseLease, LeaseTypes, TypeOK
      <3> QED BY <2>7, <3>3, <3>4, <3>5 DEF ReleaseLease
    <2>8. CASE ReleaseLost(q)
      BY <2>8 DEF ReleaseLost, redis, FleetBound, Leased, LeaseTypes, TypeOK
    <2> QED BY <1>5, <2>1, <2>2, <2>3, <2>4, <2>5, <2>6, <2>7, <2>8 DEF Lease
  <1>6. CASE Tick
    <2>1. Leased' \subseteq Leased BY <1>6 DEF Tick, Leased, TypeOK
    <2>2. FleetBound' BY <2>1, FewerLeases
    <2>3. LeaseTypes' BY <1>6, TTLAssumption DEF Tick, LeaseTypes, TypeOK
    <2>4. \A x \in Requests : leases'[x] =< key_left' BY <1>6 DEF Tick, TypeOK
    <2> QED BY <1>6, <2>2, <2>3, <2>4 DEF Tick
  <1>7. ASSUME NEW r \in Replicas, Crash(r) PROVE LeaseInv' /\ LeaseTypes'
    BY <1>7 DEF Crash, redis, FleetBound, Leased, LeaseTypes, TypeOK
  <1>8. CASE UNCHANGED vars BY <1>8 DEF vars, FleetBound, Leased, LeaseTypes, TypeOK
  <1> QED BY <1>4, <1>5, <1>6, <1>7, <1>8 DEF Next

-----------------------------------------------------------------------------
(* The theorems. *)

\* The whole invariant: types, semaphores and leases.
THEOREM AdmissionInvariant == Spec => []Inv
  <1>1. Init => Inv BY InitInv
  <1>2. Inv /\ [Next]_vars => Inv'
    <2> SUFFICES ASSUME Inv, [Next]_vars PROVE Inv' OBVIOUS
    <2>1. SemaphoreInv' /\ SemaphoreTypes' BY SemaphoreStep DEF Inv
    <2>2. LeaseInv' /\ LeaseTypes' BY LeaseStep DEF Inv
    <2> QED BY <2>1, <2>2 DEF Inv, TypeOK, SemaphoreTypes, LeaseTypes
  <1> QED BY <1>1, <1>2, PTL DEF Spec

\* No in-flight permit is ever lost or used twice, for any number of requests
\* and replicas, with disconnects at every await and crashes.
THEOREM PermitsAlwaysConserved == Spec => []PermitsConserved
  BY AdmissionInvariant, PTL DEF Inv, SemaphoreInv

\* The same for the queue's permits.
THEOREM QueuePermitsAlwaysConserved == Spec => []QueuePermitsConserved
  BY AdmissionInvariant, PTL DEF Inv, SemaphoreInv

\* The fleet's leases stay within max_in_flight.
THEOREM FleetAlwaysBound == Spec => []FleetBound
  BY AdmissionInvariant, PTL DEF Inv, LeaseInv

\* A running delivery's lease is lost only to the clock.
THEOREM LeaseAlwaysLostToTime == Spec => LeaseLostOnlyToTime
  <1> DEFINE A == \A q \in held : leases'[q] < leases[q] => leases'[q] = leases[q] - 1
  <1>1. Inv /\ [Next]_vars => [A]_vars
    <2> SUFFICES ASSUME Inv, Next, NEW q \in held, leases'[q] < leases[q]
                 PROVE  leases'[q] = leases[q] - 1
      OBVIOUS
    <2>1. q \in Requests /\ leases[q] \in 0..LeaseTTL /\ leases[q] =< key_left
          /\ key_left \in 0..LeaseTTL /\ phase[q] = "serving"
      BY DEF Inv, TypeOK, LeaseInv
    <2>2. CASE Tick BY <2>1, <2>2 DEF Tick
    <2>3. ASSUME NEW x \in Requests, StoreLease(x) PROVE ~(leases'[q] < leases[q])
      BY <2>1, <2>3, TTLAssumption DEF StoreLease, Inv, TypeOK
    <2>4. ASSUME NEW x \in Requests, ReleaseLease(x) PROVE ~(leases'[q] < leases[q])
      <3>1. x # q BY <2>1, <2>4 DEF ReleaseLease, Inv, LeaseInv
      <3> QED BY <2>1, <2>4, <3>1 DEF ReleaseLease, Inv, TypeOK
    <2>5. ASSUME UNCHANGED leases PROVE FALSE BY <2>1, <2>5
    <2>6. CASE \E r \in Replicas : Crash(r) BY <2>5, <2>6 DEF Crash, redis
    <2>7. CASE \E x \in Requests : Acquire(x)
      BY <2>5, <2>7 DEF Acquire, AdmitNow, Saturated, JoinQueue, QueueFull, FirstPollReady,
         FirstPollPending, WakeUp, StopWaiting, CancelGranted, redis
    <2>8. CASE \E x \in Requests : Lease(x)
      BY <2>3, <2>4, <2>5, <2>8 DEF Lease, LeaseGranted, LeaseRefused, LeaseUnavailable,
         LeaseReplyLost, CancelLeasing, Finish, ReleaseLost, redis
    <2> QED BY <2>2, <2>6, <2>7, <2>8 DEF Next
  <1> QED BY <1>1, AdmissionInvariant, PTL DEF Spec, LeaseLostOnlyToTime

-----------------------------------------------------------------------------
(* Refinement. *)

\* Lemma: a returned permit is a Leave or a HandOver of the pool.
LEMMA ReturnIsPoolStep ==
  ASSUME Inv, NEW q \in Requests, phase[q] \in PermitPhases,
         ReturnPermit(Home[q], [phase EXCEPT ![q] = "done"])
  PROVE  Pool!Next
  <1> DEFINE h == Home[q]
  <1>1. h \in Replicas BY HomeAssumption
  <1>2. q \in HoldsPermit(h) BY DEF HoldsPermit, InPhase, PermitPhases
  <1>3. CASE waiters[h] = <<>>
    <2>1. phase' = [phase EXCEPT ![q] = "done"] BY <1>3 DEF ReturnPermit
    <2>2. \A r \in Replicas : HoldsPermit(r)' = IF r = h THEN HoldsPermit(r) \ {q} ELSE HoldsPermit(r)
      BY <2>1 DEF HoldsPermit, InPhase, Inv, TypeOK
    <2>3. \A r \in Replicas : InPhase(r, {"queued", "waiting"})' = InPhase(r, {"queued", "waiting"})
      BY <2>1 DEF InPhase, Inv, TypeOK, PermitPhases
    <2>4. Pool!Leave(h, q) BY <1>1, <1>2, <2>2, <2>3 DEF Pool!Leave
    <2> QED BY <1>1, <2>4 DEF Pool!Next
  <1>4. CASE waiters[h] # <<>>
    <2> DEFINE w == Head(waiters[h])
    <2>1. phase' = [[phase EXCEPT ![q] = "done"] EXCEPT ![w] = "granted"]
      BY <1>4 DEF ReturnPermit
    <2>2. w \in Requests /\ Home[w] = h /\ phase[w] = "waiting"
      BY <1>1, <1>4, HeadWaiter DEF Inv, SemaphoreInv
    <2>3. w # q BY <2>2 DEF PermitPhases
    <2>4. \A r \in Replicas : HoldsPermit(r)' =
            IF r = h THEN (HoldsPermit(r) \ {q}) \union {w} ELSE HoldsPermit(r)
      BY <2>1, <2>2, <2>3 DEF HoldsPermit, InPhase, Inv, TypeOK
    <2>5. \A r \in Replicas : InPhase(r, {"queued", "waiting"})' =
            IF r = h THEN InPhase(r, {"queued", "waiting"}) \ {w}
            ELSE InPhase(r, {"queued", "waiting"})
      BY <2>1, <2>2, <2>3 DEF InPhase, Inv, TypeOK, PermitPhases
    <2>6. w \in InPhase(h, {"queued", "waiting"}) BY <2>2 DEF InPhase
    <2>7. Pool!HandOver(h, q, w)
      BY <1>1, <1>2, <2>4, <2>5, <2>6 DEF Pool!HandOver
    <2> QED BY <1>1, <2>2, <2>7 DEF Pool!Next
  <1> QED BY <1>3, <1>4

\* Lemma: a request that takes a free permit enters the pool.
LEMMA TakeIsPoolStep ==
  ASSUME Inv, NEW q \in Requests, phase[q] \in {"idle", "queued"},
         phase' = [phase EXCEPT ![q] = "leasing"], TakePermit(Home[q])
  PROVE  Pool!Next
  <1> DEFINE h == Home[q]
  <1>1. h \in Replicas BY HomeAssumption
  <1>2. q \notin HoldsPermit(h) BY DEF HoldsPermit, InPhase
  <1>3. Cardinality(HoldsPermit(h)) < MaxInFlight
    <2>1. available[h] + Cardinality(HoldsPermit(h)) = MaxInFlight /\ available[h] \in Nat
      BY <1>1 DEF Inv, SemaphoreInv, PermitsConserved, TypeOK
    <2>2. Cardinality(HoldsPermit(h)) \in Nat
      BY InPhaseFinite, FS_CardinalityType DEF HoldsPermit
    <2> QED BY <2>1, <2>2, InFlightAssumption DEF TakePermit
  <1>4. \A r \in Replicas : HoldsPermit(r)' = IF r = h THEN HoldsPermit(r) \union {q} ELSE HoldsPermit(r)
    BY DEF HoldsPermit, InPhase, Inv, TypeOK
  <1>5. \A r \in Replicas : InPhase(r, {"queued", "waiting"})' =
          IF r = h THEN InPhase(r, {"queued", "waiting"}) \ {q}
          ELSE InPhase(r, {"queued", "waiting"})
    BY DEF InPhase, Inv, TypeOK
  <1>6. Pool!Enter(h, q)
    BY <1>1, <1>2, <1>3, <1>4, <1>5 DEF Pool!Enter, Pool!HasSlot, Pool!Cardinality, Cardinality
  <1> QED BY <1>1, <1>6 DEF Pool!Next

\* Lemma: joining the queue is the pool's Wait.
LEMMA JoinIsPoolStep ==
  ASSUME Inv, NEW q \in Requests, JoinQueue(q)
  PROVE  Pool!Next
  <1> DEFINE h == Home[q]
             L(r) == InPhase(r, {"queued", "waiting"})
  <1>1. h \in Replicas BY HomeAssumption
  <1>2. /\ phase[q] = "full" /\ phase' = [phase EXCEPT ![q] = "queued"] /\ queue_free[h] > 0
    BY DEF JoinQueue, Moves
  <1>3. q \notin HoldsPermit(h) \union L(h) BY <1>2 DEF HoldsPermit, InPhase
  <1>4. Cardinality(L(h)) < MaxQueued
    <2>1. queue_free[h] + Cardinality(HoldsQueuePermit(h)) = MaxQueued /\ queue_free[h] \in Nat
      BY <1>1 DEF Inv, SemaphoreInv, QueuePermitsConserved, TypeOK
    <2>2. L(h) \subseteq HoldsQueuePermit(h) BY DEF HoldsQueuePermit, InPhase
    <2>3. IsFiniteSet(HoldsQueuePermit(h)) BY InPhaseFinite DEF HoldsQueuePermit
    <2>4. /\ Cardinality(HoldsQueuePermit(h)) \in Nat /\ Cardinality(L(h)) \in Nat
          /\ Cardinality(L(h)) =< Cardinality(HoldsQueuePermit(h))
      BY <2>2, <2>3, FS_Subset, FS_CardinalityType
    <2> QED BY <1>2, <2>1, <2>4, QueuedAssumption
  <1>5. \A r \in Replicas : HoldsPermit(r)' = HoldsPermit(r)
    BY <1>2 DEF HoldsPermit, InPhase, Inv, TypeOK
  <1>6. \A r \in Replicas : L(r)' = IF r = h THEN L(r) \union {q} ELSE L(r)
    BY <1>2 DEF InPhase, Inv, TypeOK
  <1>7. Pool!Wait(h, q)
    BY <1>1, <1>3, <1>4, <1>5, <1>6 DEF Pool!Wait, Pool!HasRoom, Pool!Cardinality, Cardinality
  <1> QED BY <1>1, <1>7 DEF Pool!Next

\* Lemma: giving up is the pool's GiveUp.
LEMMA StopIsPoolStep ==
  ASSUME Inv, NEW q \in Requests, StopWaiting(q)
  PROVE  Pool!Next
  <1> DEFINE h == Home[q]
             L(r) == InPhase(r, {"queued", "waiting"})
  <1>1. h \in Replicas BY HomeAssumption
  <1>2. /\ phase[q] = "waiting" /\ phase' = [phase EXCEPT ![q] = "done"]
    BY DEF StopWaiting, Moves
  <1>3. q \in L(h) BY <1>2 DEF InPhase
  <1>4. \A r \in Replicas : HoldsPermit(r)' = HoldsPermit(r)
    BY <1>2 DEF HoldsPermit, InPhase, Inv, TypeOK
  <1>5. \A r \in Replicas : L(r)' = IF r = h THEN L(r) \ {q} ELSE L(r)
    BY <1>2 DEF InPhase, Inv, TypeOK
  <1>6. Pool!GiveUp(h, q) BY <1>1, <1>3, <1>4, <1>5 DEF Pool!GiveUp
  <1> QED BY <1>1, <1>6 DEF Pool!Next

\* Lemma: a crash is the pool's Reset.
LEMMA CrashIsPoolStep ==
  ASSUME Inv, NEW r \in Replicas, Crash(r)
  PROVE  Pool!Next
  <1> DEFINE L(x) == InPhase(x, {"queued", "waiting"})
  <1>1. phase' = [q \in Requests |->
                    IF Home[q] = r /\ phase[q] # "idle" THEN "done" ELSE phase[q]]
    BY DEF Crash
  <1>2. \A x \in Replicas : HoldsPermit(x)' = IF x = r THEN {} ELSE HoldsPermit(x)
    BY <1>1 DEF HoldsPermit, InPhase, Inv, TypeOK
  <1>3. \A x \in Replicas : L(x)' = IF x = r THEN {} ELSE L(x)
    BY <1>1 DEF InPhase, Inv, TypeOK
  <1>4. Pool!Reset(r) BY <1>2, <1>3 DEF Pool!Reset
  <1> QED BY <1>4 DEF Pool!Next

\* Delivery admission, with its semaphores, wake-ups, timeouts, disconnects
\* and leases, implements the slot pool.
THEOREM AdmissionImplementsPool == Spec => PoolSpec
  <1>1. Init => Pool!Init
    BY DEF Init, Pool!Init, HoldsPermit, InPhase
  <1>2. Inv /\ [Next]_vars => [Pool!Next]_Pool!poolvars
    <2> SUFFICES ASSUME Inv, [Next]_vars, ~ UNCHANGED Pool!poolvars PROVE Pool!Next
      OBVIOUS
    <2>1. ASSUME UNCHANGED phase PROVE FALSE
      BY <2>1 DEF Pool!poolvars, HoldsPermit, InPhase
    <2>2. ASSUME NEW q \in Requests, NEW to, phase' = [phase EXCEPT ![q] = to],
                 phase[q] \in PermitPhases <=> to \in PermitPhases,
                 phase[q] \in {"queued", "waiting"} <=> to \in {"queued", "waiting"}
          PROVE  FALSE
      <3>1. \A r \in Replicas : HoldsPermit(r)' = HoldsPermit(r)
        BY <2>2 DEF HoldsPermit, InPhase, PermitPhases, Inv, TypeOK
      <3>2. \A r \in Replicas : InPhase(r, {"queued", "waiting"})' = InPhase(r, {"queued", "waiting"})
        BY <2>2 DEF InPhase, Inv, TypeOK
      <3> QED BY <3>1, <3>2 DEF Pool!poolvars
    <2>3. ASSUME NEW q \in Requests, Acquire(q) PROVE Pool!Next
      <3>1. CASE AdmitNow(q) BY <3>1, TakeIsPoolStep DEF AdmitNow, Moves
      <3>2. CASE Saturated(q) BY <3>2, <2>2 DEF Saturated, Moves, PermitPhases
      <3>3. CASE JoinQueue(q) BY <3>3, JoinIsPoolStep
      <3>4. CASE QueueFull(q) BY <3>4, <2>2 DEF QueueFull, Moves, PermitPhases
      <3>5. CASE FirstPollReady(q) BY <3>5, TakeIsPoolStep DEF FirstPollReady, Moves
      <3>6. CASE FirstPollPending(q) BY <3>6, <2>2 DEF FirstPollPending, Moves, PermitPhases
      <3>7. CASE WakeUp(q) BY <3>7, <2>2 DEF WakeUp, Moves, PermitPhases
      <3>8. CASE StopWaiting(q) BY <3>8, StopIsPoolStep
      <3>9. CASE CancelGranted(q) BY <3>9, ReturnIsPoolStep DEF CancelGranted, PermitPhases
      <3> QED BY <2>3, <3>1, <3>2, <3>3, <3>4, <3>5, <3>6, <3>7, <3>8, <3>9 DEF Acquire
    <2>4. ASSUME NEW q \in Requests, Lease(q) PROVE Pool!Next
      <3>1. CASE LeaseGranted(q) BY <3>1, <2>2 DEF LeaseGranted, Moves, PermitPhases
      <3>2. CASE LeaseUnavailable(q) BY <3>2, <2>2 DEF LeaseUnavailable, Moves, PermitPhases
      <3>3. CASE LeaseReplyLost(q) BY <3>3, <2>2 DEF LeaseReplyLost, Moves, PermitPhases
      <3>4. CASE LeaseRefused(q) BY <3>4, ReturnIsPoolStep DEF LeaseRefused, PermitPhases
      <3>5. CASE CancelLeasing(q) BY <3>5, ReturnIsPoolStep DEF CancelLeasing, PermitPhases
      <3>6. CASE Finish(q) BY <3>6, ReturnIsPoolStep DEF Finish, PermitPhases
      <3>7. CASE ReleaseLease(q) BY <3>7, <2>1 DEF ReleaseLease
      <3>8. CASE ReleaseLost(q) BY <3>8, <2>1 DEF ReleaseLost
      <3> QED BY <2>4, <3>1, <3>2, <3>3, <3>4, <3>5, <3>6, <3>7, <3>8 DEF Lease
    <2>5. CASE Tick BY <2>1, <2>5 DEF Tick
    <2>6. CASE UNCHANGED vars BY <2>1, <2>6 DEF vars
    <2> QED BY <2>3, <2>4, <2>5, <2>6, CrashIsPoolStep DEF Next
  <1> QED BY <1>1, <1>2, AdmissionInvariant, PTL DEF Spec, PoolSpec, Pool!Spec
=============================================================================
