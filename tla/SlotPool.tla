------------------------------ MODULE SlotPool ------------------------------
(***************************************************************************)
(* What delivery admission promises, without semaphores, permits, wake-ups  *)
(* or Redis: on each replica at most MaxInFlight requests hold a delivery   *)
(* slot and at most MaxQueued wait for one; a slot goes to a newcomer or to *)
(* a waiter, and a slot that is given up is freed or handed to a waiter.    *)
(***************************************************************************)
EXTENDS Integers, FiniteSets

CONSTANTS Replicas, Requests, MaxInFlight, MaxQueued

VARIABLES
  holders,   \* per replica, the requests that hold a slot
  queue      \* per replica, the requests that wait for one

poolvars == <<holders, queue>>

Init ==
  /\ holders = [r \in Replicas |-> {}]
  /\ queue = [r \in Replicas |-> {}]

HasSlot(r) == Cardinality(holders[r]) < MaxInFlight
HasRoom(r) == Cardinality(queue[r]) < MaxQueued

\* A newcomer or a waiter takes a free slot.
Enter(r, q) ==
  /\ q \notin holders[r]
  /\ HasSlot(r)
  /\ holders' = [holders EXCEPT ![r] = @ \union {q}]
  /\ queue' = [queue EXCEPT ![r] = @ \ {q}]

Wait(r, q) ==
  /\ q \notin holders[r] \union queue[r]
  /\ HasRoom(r)
  /\ queue' = [queue EXCEPT ![r] = @ \union {q}]
  /\ UNCHANGED holders

GiveUp(r, q) ==
  /\ q \in queue[r]
  /\ queue' = [queue EXCEPT ![r] = @ \ {q}]
  /\ UNCHANGED holders

Leave(r, q) ==
  /\ q \in holders[r]
  /\ holders' = [holders EXCEPT ![r] = @ \ {q}]
  /\ UNCHANGED queue

\* The slot passes from its holder to a waiter and is never free in between.
HandOver(r, q, w) ==
  /\ q \in holders[r]
  /\ w \in queue[r]
  /\ holders' = [holders EXCEPT ![r] = (@ \ {q}) \union {w}]
  /\ queue' = [queue EXCEPT ![r] = @ \ {w}]

\* The process dies and is replaced by an empty one.
Reset(r) ==
  /\ holders' = [holders EXCEPT ![r] = {}]
  /\ queue' = [queue EXCEPT ![r] = {}]

Next ==
  \E r \in Replicas :
    \/ Reset(r)
    \/ \E q \in Requests :
         \/ Enter(r, q) \/ Wait(r, q) \/ GiveUp(r, q) \/ Leave(r, q)
         \/ \E w \in Requests : HandOver(r, q, w)

Spec == Init /\ [][Next]_poolvars
=============================================================================
