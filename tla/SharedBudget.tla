---------------------------- MODULE SharedBudget ----------------------------
(***************************************************************************)
(* Fleet budgets: the spend ledger and the reservations kept in Redis by    *)
(* the RECORD_COST, RESERVE_ and RELEASE_BUDGET scripts of state.rs, the    *)
(* guard SharedBudgetLease and the calls around it in lib.rs, and the       *)
(* budget evaluation of budget.rs.                                          *)
(*                                                                         *)
(* A script is one step.  Every await of a request is a point where others  *)
(* run and where its client may disconnect.  Request ids are unique, so the *)
(* idempotency branches of the scripts are not taken.  Each request has a   *)
(* worker of its own: workers share nothing but Redis.  The lifetime of the *)
(* ledger itself (400 days and more) is beyond the model's horizon.         *)
(*                                                                         *)
(* A budget has a ledger for each day, for each month, or one for all time. *)
(* A request is dated three times, when it is evaluated, when it reserves   *)
(* and when it is charged, and midnight may fall between any two.           *)
(***************************************************************************)
EXTENDS Integers, FiniteSets, Functions

CONSTANTS
  Requests,
  Scopes,    \* the global, workspace and key budgets
  ScopesOf,  \* shared_scopes: the budgets each request counts against
  Hard,      \* the budgets with on_breach = "block"
  Offline,   \* the requests that soften a block to a degrade
  Limit,     \* the limit of each budget
  BudgetWindow, \* the window of each budget: "day", "month" or "all"
  Month,     \* the month of each date
  MaxDate,   \* bound on the date
  Amount,    \* the cost reserved for each request, at the frontier rate
  TTL,       \* SHARED_BUDGET_RESERVATION_TTL_MS
  Faults     \* which of "redis" and "crash" may fail

ASSUME RequestsAssumption == IsFiniteSet(Requests)
ASSUME ScopesOfAssumption == ScopesOf \in [Requests -> SUBSET Scopes \ {{}}]
ASSUME HardAssumption == Hard \subseteq Scopes /\ Offline \subseteq Requests
ASSUME LimitAssumption == Limit \in [Scopes -> Nat]
ASSUME BudgetWindowAssumption == BudgetWindow \in [Scopes -> {"day", "month", "all"}]
ASSUME MonthAssumption == MaxDate \in Nat /\ Month \in [0..MaxDate -> 0..MaxDate]
ASSUME AmountAssumption == Amount \in [Requests -> Nat \ {0}]
ASSUME TTLAssumption == TTL \in Nat \ {0}

VARIABLES
  phase,      \* where each request is
  today,      \* the date, as utc_today has it
  unchecked,  \* ledgers evaluate_shared_for has still to read
  placed,     \* ledgers each request's reservation is for
  billed,     \* ledgers each request's cost is recorded in
  cost,       \* what each delivery turned out to cost
  lease,      \* requests that own a SharedBudgetLease
  releasing,  \* requests whose background release is under way
  realized,   \* realized_micros of each ledger
  reserved,   \* reserved_micros of each ledger
  amounts,    \* the amounts hash of each ledger; 0: no field
  left,       \* time to the deadline of each request in the sorted sets
  key_left,   \* time to the expiry of each ledger's two reservation keys
  uncovered   \* history: requests the ledger did not cover all along

redis == <<realized, reserved, amounts, left, key_left>>
vars == <<phase, today, unchecked, placed, billed, cost, lease, releasing, redis, uncovered>>

dates == <<placed, billed>>
Phases == {"idle", "allowed", "delivering", "recording", "settling", "done"}

\* A ledger is a budget and a period.
Ledgers == Scopes \X (0..MaxDate)
Scope(l) == l[1]
budget_period(date, window) ==
  CASE window = "day" -> date
    [] window = "month" -> Month[date]
    [] window = "all" -> 0
LedgersOf(q, date) == {<<s, budget_period(date, BudgetWindow[s])>> : s \in ScopesOf[q]}

Init ==
  /\ phase = [q \in Requests |-> "idle"]
  /\ today = 0
  /\ unchecked = [q \in Requests |-> LedgersOf(q, 0)]
  /\ placed = [q \in Requests |-> {}]
  /\ billed = [q \in Requests |-> {}]
  /\ cost = [q \in Requests |-> 0]
  /\ lease = {}
  /\ releasing = {}
  /\ realized = [l \in Ledgers |-> 0]
  /\ reserved = [l \in Ledgers |-> 0]
  /\ amounts = [l \in Ledgers |-> [q \in Requests |-> 0]]
  /\ left = [q \in Requests |-> 0]
  /\ key_left = [l \in Ledgers |-> 0]
  /\ uncovered = {}

Moves(q, from, to) ==
  /\ phase[q] = from
  /\ phase' = [phase EXCEPT ![q] = to]

\* shared_scope: a block binds only an online request.
Blocks(q, l) == Scope(l) \in Hard /\ q \notin Offline

-----------------------------------------------------------------------------
(* The budget evaluation, before a route is delivered. *)

\* The evaluation is over and the reservation is dated.
Allow(q) ==
  /\ phase' = [phase EXCEPT ![q] = "allowed"]
  /\ placed' = [placed EXCEPT ![q] = LedgersOf(q, today)]

\* One budget is read and leaves the request free to go on; a spent budget
\* that does not block only degrades the route.
EvaluateScope(q, l) ==
  /\ phase[q] = "idle"
  /\ l \in unchecked[q]
  /\ realized[l] < Limit[Scope(l)] \/ ~Blocks(q, l)
  /\ unchecked' = [unchecked EXCEPT ![q] = @ \ {l}]
  /\ IF unchecked[q] = {l} THEN Allow(q) ELSE UNCHANGED <<phase, placed>>
  /\ UNCHANGED <<today, billed, cost, lease, releasing, redis, uncovered>>

EvaluateBlocked(q, l) ==
  /\ l \in unchecked[q]
  /\ realized[l] >= Limit[Scope(l)] /\ Blocks(q, l)
  /\ Moves(q, "idle", "done")
  /\ unchecked' = [unchecked EXCEPT ![q] = {}]
  /\ UNCHANGED <<today, dates, cost, lease, releasing, redis, uncovered>>

\* The read fails and the local ledger, which knows no other replica, decides.
EvaluateLocally(q) ==
  /\ "redis" \in Faults
  /\ phase[q] = "idle"
  /\ Allow(q) \/ (Moves(q, "idle", "done") /\ UNCHANGED placed)
  /\ unchecked' = [unchecked EXCEPT ![q] = {}]
  /\ UNCHANGED <<today, billed, cost, lease, releasing, redis, uncovered>>

-----------------------------------------------------------------------------
(* RESERVE_BUDGET and reserve_shared_budget. *)

\* The reservations in ledger l whose deadline is over.
Overdue(l) == {q \in Requests : amounts[l][q] > 0 /\ left[q] = 0}

\* The script first drops the expired reservations of the request's ledgers.
PurgedAmounts(q) ==
  [l \in Ledgers |->
     [x \in Requests |->
        IF l \in placed[q] /\ x \in Overdue(l) THEN 0 ELSE amounts[l][x]]]
PurgedReserved(q) ==
  [l \in Ledgers |->
     reserved[l] - (IF l \in placed[q] THEN SumFunctionOnSet(amounts[l], Overdue(l)) ELSE 0)]

\* The check as it was before reservations: realized spend alone.
BUG_checks_realized_only(q) ==
  \A l \in placed[q] : Blocks(q, l) => realized[l] + Amount[q] =< Limit[Scope(l)]
Fits(q) ==
  \A l \in placed[q] :
    Blocks(q, l) => realized[l] + PurgedReserved(q)[l] + Amount[q] =< Limit[Scope(l)]

\* The reservation goes into every ledger of the request.  Both reservation
\* keys of a ledger live as long as its newest reservation.
Store(q) ==
  /\ amounts' = [l \in Ledgers |->
                   IF l \in placed[q]
                   THEN [PurgedAmounts(q)[l] EXCEPT ![q] = Amount[q]]
                   ELSE amounts[l]]
  /\ reserved' = [l \in Ledgers |->
                    PurgedReserved(q)[l] + (IF l \in placed[q] THEN Amount[q] ELSE 0)]
  /\ left' = [left EXCEPT ![q] = TTL]
  /\ key_left' = [l \in Ledgers |-> IF l \in placed[q] THEN TTL ELSE key_left[l]]
  /\ UNCHANGED realized

Purge(q) ==
  /\ amounts' = PurgedAmounts(q)
  /\ reserved' = PurgedReserved(q)
  /\ UNCHANGED <<realized, left, key_left>>

ReserveGranted(q) ==
  /\ Fits(q)
  /\ Store(q)
  /\ Moves(q, "allowed", "delivering")
  /\ lease' = lease \union {q}
  /\ UNCHANGED <<today, unchecked, dates, cost, releasing, uncovered>>

\* HTTP 402.  The purge of the script stays.
ReserveDenied(q) ==
  /\ ~Fits(q)
  /\ Purge(q)
  /\ Moves(q, "allowed", "done")
  /\ UNCHANGED <<today, unchecked, dates, cost, lease, releasing, uncovered>>

\* The call fails: the request is delivered without a reservation.
ReserveUnavailable(q) ==
  /\ "redis" \in Faults
  /\ Moves(q, "allowed", "delivering")
  /\ uncovered' = uncovered \union {q}
  /\ UNCHANGED <<today, unchecked, dates, cost, lease, releasing, redis>>

\* The script ran and its reply was lost: a reservation without a guard.
ReserveReplyLost(q) ==
  /\ "redis" \in Faults
  /\ Fits(q)
  /\ Store(q)
  /\ Moves(q, "allowed", "delivering")
  /\ UNCHANGED <<today, unchecked, dates, cost, lease, releasing, uncovered>>

\* The client leaves in the await, before or after the script ran.
CancelReserving(q) ==
  /\ Moves(q, "allowed", "done")
  /\ \/ UNCHANGED redis
     \/ Fits(q) /\ Store(q)
     \/ ~Fits(q) /\ Purge(q)
  /\ UNCHANGED <<today, unchecked, dates, cost, lease, releasing, uncovered>>

-----------------------------------------------------------------------------
(* Delivery, accounting and settlement. *)

\* SharedBudgetLease::drop spawns the release of a reservation it still has.
DropLease(q) ==
  /\ lease' = lease \ {q}
  /\ releasing' = releasing \union ({q} \intersect lease)

\* An admission error, a failed delivery, an upstream status of 400 or more or
\* a disconnect: nothing is charged and the guard is dropped.
EndUncharged(q) ==
  /\ Moves(q, "delivering", "done")
  /\ DropLease(q)
  /\ UNCHANGED <<today, unchecked, dates, cost, redis, uncovered>>

\* The upstream answered; the cost stays within the reserved worst case and is
\* dated anew.
Delivered(q) ==
  /\ Moves(q, "delivering", "recording")
  /\ \E c \in 1..Amount[q] : cost' = [cost EXCEPT ![q] = c]
  /\ billed' = [billed EXCEPT ![q] = LedgersOf(q, today)]
  /\ UNCHANGED <<today, unchecked, placed, lease, releasing, redis, uncovered>>

\* RECORD_COST.
Charge(q) ==
  /\ realized' = [l \in Ledgers |-> realized[l] + (IF l \in billed[q] THEN cost[q] ELSE 0)]
  /\ UNCHANGED <<reserved, amounts, left, key_left>>

AfterRecord(q) == IF q \in lease THEN "settling" ELSE "done"

\* The realized cost is written before the reservation is settled.
Record(q) ==
  /\ Moves(q, "recording", AfterRecord(q))
  /\ Charge(q)
  /\ UNCHANGED <<today, unchecked, dates, cost, lease, releasing, uncovered>>

\* The error of record_cost is ignored and the reservation is settled.
RecordLost(q) ==
  /\ "redis" \in Faults
  /\ Moves(q, "recording", AfterRecord(q))
  /\ uncovered' = uncovered \union {q}
  /\ UNCHANGED <<today, unchecked, dates, cost, lease, releasing, redis>>

CancelRecording(q) ==
  /\ Moves(q, "recording", "done")
  /\ DropLease(q)
  /\ \/ Charge(q) /\ UNCHANGED uncovered
     \/ UNCHANGED redis /\ uncovered' = uncovered \union {q}
  /\ UNCHANGED <<today, unchecked, dates, cost>>

\* The amount of the request is subtracted whatever the hash holds.
BUG_release_unconditional(q) ==
  /\ reserved' = [l \in Ledgers |-> reserved[l] - (IF l \in placed[q] THEN Amount[q] ELSE 0)]
  /\ amounts' = [l \in Ledgers |-> IF l \in placed[q] THEN [amounts[l] EXCEPT ![q] = 0] ELSE amounts[l]]
  /\ UNCHANGED <<realized, left, key_left>>
\* RELEASE_BUDGET gives back what the amounts hash says is reserved.
Release(q) ==
  /\ reserved' = [l \in Ledgers |-> reserved[l] - (IF l \in placed[q] THEN amounts[l][q] ELSE 0)]
  /\ amounts' = [l \in Ledgers |-> IF l \in placed[q] THEN [amounts[l] EXCEPT ![q] = 0] ELSE amounts[l]]
  /\ UNCHANGED <<realized, left, key_left>>

Settle(q) ==
  /\ Moves(q, "settling", "done")
  /\ Release(q)
  /\ lease' = lease \ {q}
  /\ UNCHANGED <<today, unchecked, dates, cost, releasing, uncovered>>

\* settle takes the reservation out of the guard before its call: if the
\* client leaves in the await, or the call fails, drop finds nothing to release.
SettleLost(q) ==
  /\ Moves(q, "settling", "done")
  /\ lease' = lease \ {q}
  /\ UNCHANGED <<today, unchecked, dates, cost, releasing, redis, uncovered>>

BackgroundRelease(q) ==
  /\ q \in releasing
  /\ releasing' = releasing \ {q}
  /\ Release(q)
  /\ UNCHANGED <<phase, today, unchecked, dates, cost, lease, uncovered>>

ReleaseLost(q) ==
  /\ "redis" \in Faults
  /\ q \in releasing
  /\ releasing' = releasing \ {q}
  /\ UNCHANGED <<phase, today, unchecked, dates, cost, lease, redis, uncovered>>

-----------------------------------------------------------------------------
(* The environment. *)

\* The worker of a request dies, with its guards and background tasks.
Crash(q) ==
  /\ "crash" \in Faults
  /\ phase[q] # "idle"
  /\ phase' = [phase EXCEPT ![q] = "done"]
  /\ lease' = lease \ {q}
  /\ releasing' = releasing \ {q}
  /\ uncovered' = IF phase[q] = "recording" THEN uncovered \union {q} ELSE uncovered
  /\ UNCHANGED <<today, unchecked, dates, cost, redis>>

\* Redis time passes.  A key is gone one instant after its expiry; a
\* reservation that outlived its deadline no longer covers its delivery.
Tick ==
  /\ \E l \in Ledgers : key_left[l] > 0 \/ SumFunction(amounts[l]) > 0
  /\ left' = [q \in Requests |-> IF left[q] > 0 THEN left[q] - 1 ELSE 0]
  /\ key_left' = [l \in Ledgers |-> IF key_left[l] > 0 THEN key_left[l] - 1 ELSE 0]
  /\ amounts' = [l \in Ledgers |->
                   IF key_left[l] = 0 THEN [q \in Requests |-> 0] ELSE amounts[l]]
  /\ uncovered' = uncovered \union
       {q \in Requests : left[q] = 1 /\ phase[q] \in {"delivering", "recording"}}
  /\ UNCHANGED <<phase, today, unchecked, dates, cost, lease, releasing, realized, reserved>>

\* Midnight.  Of the requests that are about to be evaluated, or to reserve, some
\* have read the date already and some read it now.
Undated(q) == phase[q] = "allowed" \/ (phase[q] = "idle" /\ unchecked[q] = LedgersOf(q, today))
NextDay ==
  /\ today < MaxDate
  /\ today' = today + 1
  /\ \E late \in SUBSET {q \in Requests : Undated(q)} :
       LET Redated(ledgers, at) ==
             [q \in Requests |->
                IF q \in late /\ phase[q] = at THEN LedgersOf(q, today + 1) ELSE ledgers[q]]
       IN unchecked' = Redated(unchecked, "idle") /\ placed' = Redated(placed, "allowed")
  /\ UNCHANGED <<phase, billed, cost, lease, releasing, redis, uncovered>>

Evaluate(q) ==
  \/ \E l \in Ledgers : EvaluateScope(q, l) \/ EvaluateBlocked(q, l)
  \/ EvaluateLocally(q)

Reserve(q) ==
  \/ ReserveGranted(q) \/ ReserveDenied(q) \/ CancelReserving(q)
  \/ ReserveUnavailable(q) \/ ReserveReplyLost(q)

Account(q) ==
  \/ EndUncharged(q) \/ Delivered(q)
  \/ Record(q) \/ RecordLost(q) \/ CancelRecording(q)
  \/ Settle(q) \/ SettleLost(q)
  \/ BackgroundRelease(q) \/ ReleaseLost(q)

Next ==
  \/ Tick \/ NextDay
  \/ \E q \in Requests : Evaluate(q) \/ Reserve(q) \/ Account(q) \/ Crash(q)

Spec == Init /\ [][Next]_vars

-----------------------------------------------------------------------------
(* Properties. *)

\* Type correctness; the counters of a ledger are never negative.
TypeOK ==
  /\ phase \in [Requests -> Phases]
  /\ today \in 0..MaxDate
  /\ unchecked \in [Requests -> SUBSET Ledgers]
  /\ placed \in [Requests -> SUBSET Ledgers]
  /\ billed \in [Requests -> SUBSET Ledgers]
  /\ cost \in [Requests -> Nat]
  /\ lease \in SUBSET Requests
  /\ releasing \in SUBSET Requests
  /\ realized \in [Ledgers -> Nat]
  /\ reserved \in [Ledgers -> Nat]
  /\ amounts \in [Ledgers -> [Requests -> Nat]]
  /\ left \in [Requests -> 0..TTL]
  /\ key_left \in [Ledgers -> 0..TTL]
  /\ uncovered \in SUBSET Requests

\* What a request has cost, or may still cost while it is delivered.
Exposure(q) == IF phase[q] = "delivering" THEN Amount[q] ELSE cost[q]

\* The ledgers a request is charged to under its reservation, or may still be.
Covers(q) == IF phase[q] = "delivering" THEN placed[q] ELSE placed[q] \intersect billed[q]

\* "Concurrent hard-cap requests cannot all pass the same remaining balance":
\* the online requests that a ledger of a blocking budget covered all along,
\* reserved in its period and charged in the same, never spend, nor can come to
\* spend, more than the budget, whatever is cancelled or lost.
HardCap ==
  \A l \in Ledgers : Scope(l) \in Hard =>
    LET covered == {q \in Requests \ (Offline \union uncovered) : l \in Covers(q)}
    IN  SumFunctionOnSet([q \in Requests |-> Exposure(q)], covered) =< Limit[Scope(l)]

\* The cap on all that covered requests are charged in a period, which does not
\* hold: the cost of a delivery across midnight goes to the new period, where
\* nothing was reserved for it.
PeriodCap ==
  \A l \in Ledgers : Scope(l) \in Hard =>
    LET charged == {q \in Requests \ (Offline \union uncovered) : l \in billed[q]}
    IN  SumFunctionOnSet(cost, charged) =< Limit[Scope(l)]

\* reserved_micros never falls below the reservations still stored: a
\* reservation is given back at most once, by expiry or by its release,
\* however late that comes.
ReservedCovers == \A l \in Ledgers : reserved[l] >= SumFunction(amounts[l])

\* A reservation that has not expired is stored in every ledger of its
\* request or in none.
AllOrNothing ==
  \A q \in Requests : left[q] > 0 =>
    \/ \A l \in placed[q] : amounts[l][q] = Amount[q]
    \/ \A l \in placed[q] : amounts[l][q] = 0

\* "A conservative request reservation is held until success, cancellation, or
\* a six-hour lease expiry": what is held is what is still stored.
HeldUntilExpiry == \A l \in Ledgers : reserved[l] = SumFunction(amounts[l])
=============================================================================
