------------------------------- MODULE Canary -------------------------------
(***************************************************************************)
(* The production canary: who is exposed, what the fleet counts, and what  *)
(* trips it (gateway/src/canary.rs, the three scripts in state.rs and      *)
(* their callers in lib.rs).  A rollout's shared state c is a Redis hash   *)
(* with its expiry, a set of counted request ids with its expiry, and the  *)
(* exposure counter of the current window.  Times are Redis server ticks;  *)
(* an expiry of Never means the key has none.                              *)
(***************************************************************************)
EXTENDS Integers, FiniteSets, FiniteSetsExt

Never == 1000000
\* Why a rollout that is not tripped was tripped.
NoReason == ""

NoHash == [window |-> -1, requests |-> 0, errors |-> 0, latency |-> 0,
           samples |-> 0, realized |-> 0, baseline |-> 0, costs |-> 0, tripped |-> NoReason,
           expires |-> Never]

NewRollout == [hash |-> NoHash, seen |-> {}, seenExpires |-> Never,
               exposureWindow |-> -1, exposed |-> 0]

\* Keys whose time has come are gone.
Expired(c, now) ==
  [c EXCEPT !.hash = IF c.hash.expires <= now THEN NoHash ELSE @,
            !.seen = IF c.seenExpires <= now THEN {} ELSE @,
            !.seenExpires = IF c.seenExpires <= now THEN Never ELSE @]

\* A new window starts every counter at zero and forgets the counted ids;
\* the reason of a trip and the expiry of the hash are kept.
Rolled(c, window, now) ==
  LET live == Expired(c, now)
  IN IF live.hash.window = now \div window THEN live
     ELSE [live EXCEPT
             !.hash = [NoHash EXCEPT !.window = now \div window,
                                     !.tripped = live.hash.tripped,
                                     !.expires = live.hash.expires],
             !.seen = {}, !.seenExpires = Never]

\* An outcome without usage carries a cost of -1.
record_canary(c, o, window, now) ==
  LET r == Rolled(c, window, now)
      costed == o.realized >= 0 /\ o.baseline >= 0
      counted == [r.hash EXCEPT
                    !.expires = now + 2 * window,
                    !.requests = @ + 1,
                    !.errors = @ + (IF o.succeeded THEN 0 ELSE 1),
                    !.latency = @ + o.latency, !.samples = @ + 1,
                    !.realized = @ + (IF costed THEN o.realized ELSE 0),
                    !.baseline = @ + (IF costed THEN o.baseline ELSE 0),
                    !.costs = @ + (IF costed THEN 1 ELSE 0)]
  IN IF o.id \in r.seen THEN r
     ELSE [r EXCEPT !.seen = @ \cup {o.id}, !.seenExpires = now + 2 * window, !.hash = counted]

canary_snapshot(c, window, now) == Rolled(c, window, now)

trip_canary(c, reason, hold, now) ==
  LET live == Expired(c, now)
  IN [live EXCEPT !.hash = [@ EXCEPT !.tripped = reason, !.expires = now + hold]]

\* The exposure counter is an ordinary fixed-window rate limit.
admit_exposure(c, window, now) ==
  IF c.exposureWindow = now \div window THEN [c EXCEPT !.exposed = @ + 1]
  ELSE [c EXCEPT !.exposureWindow = now \div window, !.exposed = 1]

exposure_limited(c, max, window, now) ==
  c.exposureWindow = now \div window /\ c.exposed >= max

(***************************************************************************)
(* Policy.  Rates are in percent.  No caller reports a quality loss.       *)
(***************************************************************************)

\* The identity a request is bucketed by, "" when it has none.
assignment_identity(config, r, workspace, key) ==
  CASE config.scope = "request" -> IF r.identity # "" THEN r.identity ELSE r.id
    [] config.scope = "workspace" -> workspace
    [] config.scope = "key" -> key
    [] config.scope = "cohort" ->
         IF config.cohort # "" /\ r.cohort = config.cohort THEN r.cohort ELSE ""

\* Which identities hash below the rollout's fraction.
assignment_bucket(config, identity) == identity \in config.inside

Eligible(config, identity) == identity # "" /\ assignment_bucket(config, identity)

tripwire(config, h) ==
  IF h.requests < config.min_samples THEN ""
  ELSE IF 100 * h.errors > config.max_error_rate * h.requests THEN "error-rate"
  ELSE IF h.samples > 0 /\ h.latency > config.max_latency * h.samples THEN "latency"
  ELSE IF h.costs > 0 /\ h.baseline > 0
          /\ 100 * h.realized > config.max_cost * h.baseline THEN "cost-multiplier"
  ELSE ""
=============================================================================
