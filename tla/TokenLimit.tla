----------------------------- MODULE TokenLimit -----------------------------
(***************************************************************************)
(* Token reservations in fixed windows: RateLimiter of rate_limit.rs,       *)
(* reserve_tokens and reconcile of access.rs, and the RESERVE, RECONCILE    *)
(* and ROLLBACK scripts of state.rs.                                        *)
(*                                                                         *)
(* A reservation takes tokens in every limit of its request, one limit at a *)
(* time.  The process-local limiters trust a clock reading taken before     *)
(* their mutex; the scripts read the time of Redis themselves.  Redis is    *)
(* tried first; when it fails cleanly, the local limiters decide.           *)
(*                                                                         *)
(* Time is counted in windows.  A Redis window key outlives its window, so  *)
(* its expiry cannot be told from a roll.                                   *)
(***************************************************************************)
EXTENDS Integers, Sequences, FiniteSets, Functions

CONSTANTS
  Turns,      \* the requests
  Limits,     \* the global, workspace and key limits with a tpm
  LimitsOf,   \* the limits of each request, in the order they are taken
  Tpm,        \* tokens per window
  Tokens,     \* conservative_token_reservation of each request
  Shared,     \* whether the Redis backend is configured
  MaxWindow,  \* bound on time
  TokenFaults \* {"redis"} if calls may be lost

\* A request meets each of its limits once.
ASSUME TokenAssumption ==
  /\ IsFiniteSet(Turns)
  /\ LimitsOf \in [Turns -> Seq(Limits) \ {<<>>}]
  /\ \A q \in Turns : IsInjective(LimitsOf[q])
  /\ Tpm \in [Limits -> Nat]
  /\ Tokens \in [Turns -> Nat \ {0}]
  /\ Shared \in BOOLEAN /\ MaxWindow \in Nat

Stores == {"local", "redis"}
Windows == 0..MaxWindow
NoWindow == -1

VARIABLES
  clock,    \* the current window
  window,   \* window_id of each limit, per store
  tokens,   \* its tokens
  pc,       \* where each request is
  read,     \* the clock reading each request works with
  store,    \* the store each request reserves in
  index,    \* position in LimitsOf, or in entries while reconciling
  entries,  \* the reservations a request owns, and what each one charges;
            \* kept after the end as the history of charges
  failure,  \* SharedReservationError of a reservation being rolled back
  actual,   \* tokens used, known when the delivery ends
  strays    \* history: requests that may have left a charge behind

counters == <<window, tokens>>
tokenVars == <<clock, counters, pc, read, store, index, entries, failure, actual, strays>>

Entry == [limit: Limits, window: Windows, charge: Nat]
PCs == {"start", "reserving", "rollback", "delivering", "reconciling", "done"}

TokenInit ==
  /\ clock = 0
  /\ window = [t \in Stores |-> [m \in Limits |-> NoWindow]]
  /\ tokens = [t \in Stores |-> [m \in Limits |-> 0]]
  /\ pc = [q \in Turns |-> "start"]
  /\ read = [q \in Turns |-> 0]
  /\ store = [q \in Turns |-> "local"]
  /\ index = [q \in Turns |-> 1]
  /\ entries = [q \in Turns |-> <<>>]
  /\ failure = [q \in Turns |-> "none"]
  /\ actual = [q \in Turns |-> 0]
  /\ strays = {}

Go(q, to) == pc' = [pc EXCEPT ![q] = to]

\* reserve_tokens reads the clock once and starts with the shared limits.
ReserveTokens(q) ==
  /\ pc[q] = "start"
  /\ Go(q, "reserving")
  /\ read' = [read EXCEPT ![q] = clock]
  /\ store' = [store EXCEPT ![q] = IF Shared THEN "redis" ELSE "local"]
  /\ UNCHANGED <<clock, counters, index, entries, failure, actual, strays>>

-----------------------------------------------------------------------------
(* One limit. *)

\* The window a reservation of q falls into.
WindowAt(q) == IF store[q] = "redis" THEN clock ELSE read[q]

\* The tokens of a limit once it has rolled to window w.
RolledTokens(t, m, w) == IF window[t][m] = w THEN tokens[t][m] ELSE 0

SetLimit(t, m, w, n) ==
  /\ window' = [window EXCEPT ![t][m] = w]
  /\ tokens' = [tokens EXCEPT ![t][m] = n]

LimitOf(q) == LimitsOf[q][index[q]]
Before(q) == RolledTokens(store[q], LimitOf(q), WindowAt(q))
TokensFit(q) == Before(q) + Tokens[q] =< Tpm[LimitOf(q)]

\* reserve_inner and RESERVE: the limit rolls, then takes the tokens if they fit.
Attempt(q) ==
  SetLimit(store[q], LimitOf(q), WindowAt(q),
           IF TokensFit(q) THEN Before(q) + Tokens[q] ELSE Before(q))

ReserveLimit(q) ==
  /\ pc[q] = "reserving"
  /\ TokensFit(q)
  /\ Attempt(q)
  /\ entries' = [entries EXCEPT ![q] =
       Append(@, [limit |-> LimitOf(q), window |-> WindowAt(q), charge |-> Tokens[q]])]
  /\ IF index[q] = Len(LimitsOf[q])
     THEN Go(q, "delivering") /\ index' = [index EXCEPT ![q] = 1]
     ELSE UNCHANGED pc /\ index' = [index EXCEPT ![q] = @ + 1]
  /\ UNCHANGED <<clock, read, store, failure, actual, strays>>

\* A later limit refuses and the earlier ones keep their tokens.
BUG_no_rollback(q) ==
  /\ pc[q] = "reserving"
  /\ ~TokensFit(q)
  /\ Attempt(q)
  /\ Go(q, "done")
  /\ entries' = [entries EXCEPT ![q] = <<>>]
  /\ UNCHANGED <<clock, read, store, index, failure, actual, strays>>
\* HTTP 429, after the limits taken so far are rolled back.
RejectLimit(q) ==
  /\ pc[q] = "reserving"
  /\ ~TokensFit(q)
  /\ Attempt(q)
  /\ Go(q, IF entries[q] = <<>> THEN "done" ELSE "rollback")
  /\ UNCHANGED <<clock, read, store, index, entries, failure, actual, strays>>

\* The local limiters take over, with the reading of the shared attempt.
FallBack(q) ==
  /\ Go(q, "reserving")
  /\ store' = [store EXCEPT ![q] = "local"]
  /\ index' = [index EXCEPT ![q] = 1]
  /\ failure' = [failure EXCEPT ![q] = "none"]

\* The call fails; the script may have run, and then its tokens stay.
ReserveFails(q) ==
  /\ "redis" \in TokenFaults
  /\ pc[q] = "reserving" /\ store[q] = "redis"
  /\ \/ UNCHANGED <<counters, strays>>
     \/ Attempt(q) /\ strays' = strays \union {q}
  /\ IF entries[q] = <<>>
     THEN FallBack(q)
     ELSE /\ Go(q, "rollback") /\ UNCHANGED <<store, index>>
          /\ failure' = [failure EXCEPT ![q] = "clean"]
  /\ UNCHANGED <<clock, read, entries, actual>>

-----------------------------------------------------------------------------
(* The rollback of a reservation, newest entry first. *)

Last(q) == entries[q][Len(entries[q])]

\* What follows the rollback of the oldest entry.
Continue(q, e, f) ==
  /\ entries' = [entries EXCEPT ![q] = e]
  /\ IF e = <<>> /\ f = "clean" THEN FallBack(q)
     ELSE /\ IF e = <<>> THEN Go(q, "done") ELSE UNCHANGED pc
          /\ failure' = [failure EXCEPT ![q] = f]
          /\ UNCHANGED <<store, index>>

\* rollback_at and ROLLBACK: only in the original window, never below zero.
GiveBack(q) ==
  LET t == store[q]  m == Last(q).limit
      n == tokens[t][m] - Tokens[q]
  IN  IF window[t][m] = Last(q).window
      THEN tokens' = [tokens EXCEPT ![t][m] = IF n < 0 THEN 0 ELSE n] /\ UNCHANGED window
      ELSE UNCHANGED counters

RollbackEntry(q) ==
  /\ pc[q] = "rollback"
  /\ GiveBack(q)
  /\ Continue(q, SubSeq(entries[q], 1, Len(entries[q]) - 1), failure[q])
  /\ UNCHANGED <<clock, read, actual, strays>>

\* A failed rollback after a failed reservation is Unsafe and ends the request.
RollbackFails(q) ==
  /\ "redis" \in TokenFaults
  /\ pc[q] = "rollback" /\ store[q] = "redis"
  /\ Continue(q, SubSeq(entries[q], 1, Len(entries[q]) - 1),
              IF failure[q] = "clean" THEN "unsafe" ELSE failure[q])
  /\ UNCHANGED counters \/ GiveBack(q)
  /\ strays' = strays \union {q}
  /\ UNCHANGED <<clock, read, actual>>

\* The client leaves in an await of the shared reservation.  No guard owns the
\* entries yet: their tokens stay charged, and so may those of the call under
\* way.
CancelTokens(q) ==
  /\ pc[q] \in {"reserving", "rollback"} /\ store[q] = "redis"
  /\ Go(q, "done")
  /\ entries' = [entries EXCEPT ![q] = <<>>]
  /\ strays' = strays \union {q}
  /\ \/ UNCHANGED counters
     \/ pc[q] = "reserving" /\ Attempt(q)
     \/ pc[q] = "rollback" /\ GiveBack(q)
  /\ UNCHANGED <<clock, read, store, index, failure, actual>>

-----------------------------------------------------------------------------
(* The end of a delivery. *)

\* Usage unknown or estimated, a failure or a disconnect: the conservative
\* charge stays.
KeepCharge(q) ==
  /\ pc[q] = "delivering"
  /\ Go(q, "done")
  /\ UNCHANGED <<clock, counters, read, store, index, entries, failure, actual, strays>>

\* Exact usage; the reservation bounds the prompt and the completion.
ExactUsage(q) ==
  /\ pc[q] = "delivering"
  /\ \E n \in 0..Tokens[q] : actual' = [actual EXCEPT ![q] = n]
  /\ Go(q, "reconciling")
  /\ UNCHANGED <<clock, counters, read, store, index, entries, failure, strays>>

NextEntry(q) ==
  IF index[q] = Len(entries[q])
  THEN Go(q, "done") /\ UNCHANGED index
  ELSE UNCHANGED pc /\ index' = [index EXCEPT ![q] = @ + 1]

\* reconcile_at saturates at zero; RECONCILE adds the signed difference.
ReconcileEntry(q) ==
  /\ pc[q] = "reconciling"
  /\ LET t == store[q]
         e == entries[q][index[q]]
         n == tokens[t][e.limit] - (Tokens[q] - actual[q])
     IN  IF window[t][e.limit] = e.window
         THEN /\ tokens' = [tokens EXCEPT ![t][e.limit] =
                              IF t = "local" /\ n < 0 THEN 0 ELSE n]
              /\ entries' = [entries EXCEPT ![q][index[q]].charge = actual[q]]
         ELSE UNCHANGED <<tokens, entries>>
  /\ NextEntry(q)
  /\ UNCHANGED <<clock, window, read, store, failure, actual, strays>>

\* The call fails or the client leaves: the remaining charges stay.
ReconcileStops(q) ==
  /\ pc[q] = "reconciling" /\ store[q] = "redis"
  /\ Go(q, "done")
  /\ UNCHANGED <<clock, counters, read, store, index, entries, failure, actual, strays>>

WindowEnds ==
  /\ clock < MaxWindow
  /\ clock' = clock + 1
  /\ UNCHANGED <<counters, pc, read, store, index, entries, failure, actual, strays>>

Step(q) ==
  \/ ReserveTokens(q) \/ ReserveLimit(q) \/ RejectLimit(q) \/ ReserveFails(q)
  \/ RollbackEntry(q) \/ RollbackFails(q) \/ CancelTokens(q)
  \/ KeepCharge(q) \/ ExactUsage(q) \/ ReconcileEntry(q) \/ ReconcileStops(q)

TokenNext == WindowEnds \/ \E q \in Turns : Step(q)

TokenSpec == TokenInit /\ [][TokenNext]_tokenVars

-----------------------------------------------------------------------------
(* Properties. *)

\* Type correctness; no counter becomes negative.
TokenTypes ==
  /\ clock \in Windows
  /\ window \in [Stores -> [Limits -> Windows \union {NoWindow}]]
  /\ tokens \in [Stores -> [Limits -> Nat]]
  /\ pc \in [Turns -> PCs]
  /\ read \in [Turns -> Windows]
  /\ store \in [Turns -> Stores]
  /\ index \in [Turns -> Nat]
  /\ entries \in [Turns -> Seq(Entry)]
  /\ failure \in [Turns -> {"none", "clean", "unsafe"}]
  /\ actual \in [Turns -> Nat]
  /\ strays \in SUBSET Turns

\* What the reservations made in store t charge to limit m in window w.
ChargeOf(q, t, m, w) ==
  LET own == {i \in DOMAIN entries[q] : entries[q][i].limit = m /\ entries[q][i].window = w}
  IN  IF store[q] # t THEN 0
      ELSE SumFunctionOnSet([i \in DOMAIN entries[q] |-> entries[q][i].charge], own)
Charged(t, m, w) == SumFunction([q \in Turns |-> ChargeOf(q, t, m, w)])

\* The shared limiter never charges more than tpm tokens to one window, with
\* lost calls, rollbacks, late completions and window rolls in any order.
SharedTokenCap ==
  \A m \in Limits, w \in Windows : Charged("redis", m, w) =< Tpm[m]

\* No counter charges more than its window's reservations and the calls that
\* were lost or cancelled: a refused request leaves nothing behind in the
\* limits it had already passed.
NoPhantomCharge ==
  \A t \in Stores, m \in Limits :
    window[t][m] # NoWindow =>
      LET stray == {q \in strays : t = "redis" /\ m \in Range(LimitsOf[q])}
      IN  tokens[t][m] =< Charged(t, m, window[t][m]) + SumFunctionOnSet(Tokens, stray)

\* "Cap requests and/or upstream tokens over a fixed window": the local limiter
\* never charges more than tpm tokens to one window either.
LocalTokenCap ==
  \A m \in Limits, w \in Windows : Charged("local", m, w) =< Tpm[m]
=============================================================================
