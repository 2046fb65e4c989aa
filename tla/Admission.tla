----------------------------- MODULE Admission ------------------------------
(***************************************************************************)
(* Delivery admission: the in-flight and queue semaphores of               *)
(* wayfinder-gateway/src/admission.rs, acquire_delivery and the permits of  *)
(* lib.rs, and the fleet lease kept in Redis by the ACQUIRE_ and            *)
(* RELEASE_ADMISSION scripts of state.rs.                                   *)
(*                                                                         *)
(* The steps of acquire run on any thread between its awaits, so other      *)
(* requests come in between.  A client may disconnect at every await.  The  *)
(* tokio semaphore is external: a released permit is assigned to the oldest *)
(* waiter, which holds it from then on although it has not run yet.         *)
(***************************************************************************)
EXTENDS Integers, Sequences, FiniteSets

CONSTANTS
  Replicas,     \* gateway processes
  Requests,     \* request ids, unique over the fleet
  Home,         \* the replica that serves each request
  MaxInFlight,  \* max_in_flight, of each process and of the fleet
  MaxQueued,    \* max_queued
  LeaseTTL,     \* SHARED_ADMISSION_TTL_MS
  Faults        \* which of "redis" and "crash" may fail

ASSUME InFlightAssumption == MaxInFlight \in Nat \ {0}
ASSUME QueuedAssumption == MaxQueued \in Nat
ASSUME TTLAssumption == LeaseTTL \in Nat \ {0}
ASSUME HomeAssumption == Home \in [Requests -> Replicas]
ASSUME RequestsFinite == IsFiniteSet(Requests)

\* A value of Home: one replica serves every request.
OneReplica == [q \in Requests |-> CHOOSE r \in Replicas : TRUE]

VARIABLES
  available,   \* free permits of each in_flight semaphore
  queue_free,  \* free permits of each queue semaphore
  waiters,     \* FIFO of the requests registered with each in_flight semaphore
  phase,       \* where each request is in acquire_delivery and after it
  held,        \* requests that own a SharedAdmissionLease
  releasing,   \* lease ids whose background release is under way
  leases,      \* time left of each id in the Redis sorted set; 0: not there
  key_left     \* time left of the sorted set's key

redis == <<leases, key_left>>
vars == <<available, queue_free, waiters, phase, held, releasing, leases, key_left>>

Phases == {"idle", "full", "queued", "waiting", "granted", "leasing", "serving", "done"}

Init ==
  /\ available = [r \in Replicas |-> MaxInFlight]
  /\ queue_free = [r \in Replicas |-> MaxQueued]
  /\ waiters = [r \in Replicas |-> <<>>]
  /\ phase = [q \in Requests |-> "idle"]
  /\ held = {}
  /\ releasing = {}
  /\ leases = [q \in Requests |-> 0]
  /\ key_left = 0

Moves(q, from, to) ==
  /\ phase[q] = from
  /\ phase' = [phase EXCEPT ![q] = to]

-----------------------------------------------------------------------------
(* The semaphores. *)

\* A permit comes back: to the oldest waiter, else to the pool.  ph is the
\* phase map after its holder has left.
ReturnPermit(r, ph) ==
  \/ /\ waiters[r] = <<>>
     /\ available' = [available EXCEPT ![r] = @ + 1]
     /\ phase' = ph
     /\ UNCHANGED waiters
  \/ /\ waiters[r] # <<>>
     /\ waiters' = [waiters EXCEPT ![r] = Tail(@)]
     /\ phase' = [ph EXCEPT ![Head(waiters[r])] = "granted"]
     /\ UNCHANGED available

TakePermit(r) ==
  /\ available[r] > 0
  /\ available' = [available EXCEPT ![r] = @ - 1]

LeaveQueue(r) == queue_free' = [queue_free EXCEPT ![r] = @ + 1]

Without(s, i) == [j \in 1..(Len(s) - 1) |-> IF j < i THEN s[j] ELSE s[j + 1]]

\* Acquire's drop takes the node out of the semaphore's list.
Unregister(q) ==
  \E i \in 1..Len(waiters[Home[q]]) :
    /\ waiters[Home[q]][i] = q
    /\ waiters' = [waiters EXCEPT ![Home[q]] = Without(@, i)]

-----------------------------------------------------------------------------
(* AdmissionPolicy::acquire. *)

\* The first try_acquire_owned succeeds.
AdmitNow(q) ==
  /\ Moves(q, "idle", "leasing")
  /\ TakePermit(Home[q])
  /\ UNCHANGED <<queue_free, waiters, held, releasing, redis>>

\* It fails; the queue is tried next.
Saturated(q) ==
  /\ available[Home[q]] = 0
  /\ Moves(q, "idle", "full")
  /\ UNCHANGED <<available, queue_free, waiters, held, releasing, redis>>

\* try_acquire_owned on the queue semaphore that does not count.
BUG_unbounded_queue(q) ==
  /\ Moves(q, "full", "queued")
  /\ UNCHANGED <<available, queue_free, waiters, held, releasing, redis>>
JoinQueue(q) ==
  /\ queue_free[Home[q]] > 0
  /\ Moves(q, "full", "queued")
  /\ queue_free' = [queue_free EXCEPT ![Home[q]] = @ - 1]
  /\ UNCHANGED <<available, waiters, held, releasing, redis>>

QueueFull(q) ==
  /\ queue_free[Home[q]] = 0
  /\ Moves(q, "full", "done")
  /\ UNCHANGED <<available, queue_free, waiters, held, releasing, redis>>

\* acquire_owned is polled: a permit freed meanwhile is taken without waiting.
FirstPollReady(q) ==
  /\ Moves(q, "queued", "leasing")
  /\ TakePermit(Home[q])
  /\ LeaveQueue(Home[q])
  /\ UNCHANGED <<waiters, held, releasing, redis>>

FirstPollPending(q) ==
  /\ available[Home[q]] = 0
  /\ Moves(q, "queued", "waiting")
  /\ waiters' = [waiters EXCEPT ![Home[q]] = Append(@, q)]
  /\ UNCHANGED <<available, queue_free, held, releasing, redis>>

\* The waiter runs with its permit and drops its queue permit.
WakeUp(q) ==
  /\ Moves(q, "granted", "leasing")
  /\ LeaveQueue(Home[q])
  /\ UNCHANGED <<available, waiters, held, releasing, redis>>

\* The timer is looked at only when a permit is free.
BUG_no_timeout(q) ==
  /\ available[Home[q]] > 0
  /\ Moves(q, "waiting", "done")
  /\ Unregister(q)
  /\ LeaveQueue(Home[q])
  /\ UNCHANGED <<available, held, releasing, redis>>
\* queue_timeout, or the client leaves, before a permit is assigned.
StopWaiting(q) ==
  /\ Moves(q, "waiting", "done")
  /\ Unregister(q)
  /\ LeaveQueue(Home[q])
  /\ UNCHANGED <<available, held, releasing, redis>>

\* The client leaves between the assignment and the wake-up: the dropped
\* future gives the permit back.
CancelGranted(q) ==
  /\ phase[q] = "granted"
  /\ ReturnPermit(Home[q], [phase EXCEPT ![q] = "done"])
  /\ LeaveQueue(Home[q])
  /\ UNCHANGED <<held, releasing, redis>>

-----------------------------------------------------------------------------
(* The fleet lease. *)

Leased == {q \in Requests : leases[q] > 0}

LeaseFree(q) == q \in Leased \/ Cardinality(Leased) < MaxInFlight

\* The key keeps the expiry that the first lease gave it.
BUG_key_not_renewed(q) ==
  /\ leases' = IF q \in Leased THEN leases ELSE [leases EXCEPT ![q] = LeaseTTL]
  /\ key_left' = IF key_left > 0 THEN key_left ELSE LeaseTTL
\* ZADD with the deadline and PEXPIRE of the key, unless the id is there.
StoreLease(q) ==
  /\ leases' = IF q \in Leased THEN leases ELSE [leases EXCEPT ![q] = LeaseTTL]
  /\ key_left' = IF q \in Leased THEN key_left ELSE LeaseTTL

LeaseGranted(q) ==
  /\ LeaseFree(q)
  /\ StoreLease(q)
  /\ Moves(q, "leasing", "serving")
  /\ held' = held \union {q}
  /\ UNCHANGED <<available, queue_free, waiters, releasing>>

\* SharedLimit: the local permit is dropped.
LeaseRefused(q) ==
  /\ ~LeaseFree(q)
  /\ phase[q] = "leasing"
  /\ ReturnPermit(Home[q], [phase EXCEPT ![q] = "done"])
  /\ UNCHANGED <<queue_free, held, releasing, redis>>

\* No shared backend, or Redis fails: the local permit alone admits.
LeaseUnavailable(q) ==
  /\ Moves(q, "leasing", "serving")
  /\ UNCHANGED <<available, queue_free, waiters, held, releasing, redis>>

\* The script ran and its reply was lost: a lease nobody holds a guard for.
LeaseReplyLost(q) ==
  /\ "redis" \in Faults
  /\ LeaseFree(q)
  /\ StoreLease(q)
  /\ Moves(q, "leasing", "serving")
  /\ UNCHANGED <<available, queue_free, waiters, held, releasing>>

\* The client leaves in the await, before or after the script ran.  The guard
\* is built from the reply, so a stored lease has no owner.
CancelLeasing(q) ==
  /\ phase[q] = "leasing"
  /\ ReturnPermit(Home[q], [phase EXCEPT ![q] = "done"])
  /\ \/ UNCHANGED redis
     \/ LeaseFree(q) /\ StoreLease(q)
  /\ UNCHANGED <<queue_free, held, releasing>>

\* The delivery ends, fails or is cancelled: ObservedAdmissionPermit is
\* dropped, first the local permit, then the lease, whose release is spawned.
Finish(q) ==
  /\ phase[q] = "serving"
  /\ ReturnPermit(Home[q], [phase EXCEPT ![q] = "done"])
  /\ held' = held \ {q}
  /\ releasing' = releasing \union ({q} \intersect held)
  /\ UNCHANGED <<queue_free, redis>>

\* RELEASE_ADMISSION removes the lease of this request alone.
ReleaseLease(q) ==
  /\ q \in releasing
  /\ releasing' = releasing \ {q}
  /\ leases' = [leases EXCEPT ![q] = 0]
  /\ key_left' = IF Leased \subseteq {q} THEN 0 ELSE key_left
  /\ UNCHANGED <<available, queue_free, waiters, phase, held>>

ReleaseLost(q) ==
  /\ "redis" \in Faults
  /\ q \in releasing
  /\ releasing' = releasing \ {q}
  /\ UNCHANGED <<available, queue_free, waiters, phase, held, redis>>

-----------------------------------------------------------------------------
(* The environment. *)

\* The process dies and a fresh one takes its place.
Crash(r) ==
  /\ "crash" \in Faults
  /\ LET own == {q \in Requests : Home[q] = r}
     IN  /\ phase' = [q \in Requests |->
                        IF q \in own /\ phase[q] # "idle" THEN "done" ELSE phase[q]]
         /\ held' = held \ own
         /\ releasing' = releasing \ own
  /\ available' = [available EXCEPT ![r] = MaxInFlight]
  /\ queue_free' = [queue_free EXCEPT ![r] = MaxQueued]
  /\ waiters' = [waiters EXCEPT ![r] = <<>>]
  /\ UNCHANGED redis

\* Expired members are never removed and the key has no TTL.
BUG_never_expires == UNCHANGED vars
\* Redis time passes: a member whose deadline is over no longer counts, and
\* the key expires with all its members.
Tick ==
  /\ key_left' = IF key_left > 0 THEN key_left - 1 ELSE 0
  /\ leases' = [q \in Requests |->
                  IF leases[q] > 0 /\ key_left > 1 THEN leases[q] - 1 ELSE 0]
  /\ UNCHANGED <<available, queue_free, waiters, phase, held, releasing>>

Acquire(q) ==
  \/ AdmitNow(q) \/ Saturated(q)
  \/ JoinQueue(q) \/ QueueFull(q)
  \/ FirstPollReady(q) \/ FirstPollPending(q)
  \/ WakeUp(q) \/ StopWaiting(q) \/ CancelGranted(q)

Lease(q) ==
  \/ LeaseGranted(q) \/ LeaseRefused(q) \/ LeaseUnavailable(q)
  \/ LeaseReplyLost(q) \/ CancelLeasing(q)
  \/ Finish(q) \/ ReleaseLease(q) \/ ReleaseLost(q)

Next ==
  \/ Tick
  \/ \E r \in Replicas : Crash(r)
  \/ \E q \in Requests : Acquire(q) \/ Lease(q)

Spec == Init /\ [][Next]_vars

(* The runtime polls a ready task, the queue timer fires, a Redis call       *)
(* returns or fails, and time passes.  A delivery need not end.              *)
FairSpec ==
  /\ Spec
  /\ WF_vars(Tick)
  /\ \A q \in Requests :
       /\ WF_vars(JoinQueue(q) \/ QueueFull(q))
       /\ WF_vars(FirstPollReady(q) \/ FirstPollPending(q))
       /\ WF_vars(WakeUp(q))
       /\ WF_vars(StopWaiting(q))
       /\ WF_vars(LeaseGranted(q) \/ LeaseRefused(q) \/ LeaseUnavailable(q))

-----------------------------------------------------------------------------
(* Properties. *)

\* Type correctness of the semaphores, the requests and the Redis set.
TypeOK ==
  /\ available \in [Replicas -> 0..MaxInFlight]
  /\ queue_free \in [Replicas -> 0..MaxQueued]
  /\ waiters \in [Replicas -> Seq(Requests)]
  /\ phase \in [Requests -> Phases]
  /\ held \in SUBSET Requests
  /\ releasing \in SUBSET Requests
  /\ leases \in [Requests -> 0..LeaseTTL]
  /\ key_left \in 0..LeaseTTL

InPhase(r, ps) == {q \in Requests : Home[q] = r /\ phase[q] \in ps}
HoldsPermit(r) == InPhase(r, {"granted", "leasing", "serving"})
HoldsQueuePermit(r) == InPhase(r, {"queued", "waiting", "granted"})

\* In-flight permits are conserved: through hand-over, timeout and a
\* disconnect at any await, no permit is lost and none is used twice.
PermitsConserved ==
  \A r \in Replicas : available[r] + Cardinality(HoldsPermit(r)) = MaxInFlight

\* Queue permits are conserved in the same way, so the queue neither grows
\* beyond max_queued nor shrinks after timeouts and disconnects.
QueuePermitsConserved ==
  \A r \in Replicas : queue_free[r] + Cardinality(HoldsQueuePermit(r)) = MaxQueued

\* The fleet never stores more leases than max_in_flight.
FleetBound == Cardinality(Leased) =< MaxInFlight

\* The lease of a running delivery is lost only to its own deadline, an instant at
\* a time: the release, late release or expiry of another request's lease, and the
\* expiry of the key that holds them all, never take its fleet slot away.
LeaseLostOnlyToTime ==
  [][\A q \in held : leases'[q] < leases[q] => leases'[q] = leases[q] - 1]_vars

\* Every request that asks for a slot is served or refused: nobody waits for
\* ever although deliveries need not end.
AcquireResolves ==
  \A q \in Requests : phase[q] \in Phases \ {"idle"} ~> phase[q] \in {"serving", "done"}

\* A lease whose request is over leaves Redis, whatever crashed or was lost.
LeaseFreed == \A q \in Requests : phase[q] = "done" ~> leases[q] = 0

\* "The lease is released on normal request completion and expires after a
\* bounded six-hour TTL if a worker disappears": with Redis and every worker
\* alive, a stored lease has an owner or its release is under way.
LeaseHasOwner == \A q \in Leased : q \in held \union releasing

(* What admission promises. *)
Pool == INSTANCE SlotPool WITH
  holders <- [r \in Replicas |-> HoldsPermit(r)],
  queue <- [r \in Replicas |-> InPhase(r, {"queued", "waiting"})]

\* Admission implements the slot pool: slots are bounded, and a slot given up
\* is freed or handed to exactly one waiter.
PoolSpec == Pool!Spec
=============================================================================
