------------------------------ MODULE MCLimits ------------------------------
(***************************************************************************)
(* What a request may spend and use.  A behaviour is about one of three     *)
(* things: fleet budgets (an offline request with a key budget that only    *)
(* degrades and two requests with a workspace budget, all under the global  *)
(* one); token reservations (three requests under a key limit, one with a   *)
(* global limit before it); or one limit or rollout on both backends.  The  *)
(* three share nothing here, so the parts a behaviour is not about do not   *)
(* move.  The second and the third request are alike in all of them.        *)
(***************************************************************************)
EXTENDS SharedBudget, TokenLimit, StateBackend, TLC

CONSTANTS q1, q2, q3, global, key, workspace

MCScopesOf == q1 :> {global, key} @@ q2 :> {global, workspace} @@ q3 :> {global, workspace}
MCLimit == global :> 3 @@ key :> 1 @@ workspace :> 1
MCBudgetWindow == global :> "month" @@ key :> "all" @@ workspace :> "day"
MCMonth == [d \in 0..1 |-> 0]
MCAmount == q1 :> 2 @@ q2 :> 1 @@ q3 :> 1
Alike == Permutations({q2, q3})

MCLimitsOf == q1 :> <<global, key>> @@ q2 :> <<key>> @@ q3 :> <<key>>
MCTpm == global :> 2 @@ key :> 1
MCTokens == q1 :> 1 @@ q2 :> 1 @@ q3 :> 1

MCConfigs == {[rpm |-> 2, tpm |-> 3, window |-> 2], [rpm |-> 0, tpm |-> 3, window |-> 2],
              [rpm |-> 1, tpm |-> 0, window |-> 1]}
MCRollouts == {[window |-> 2, hold |-> 1], [window |-> 1, hold |-> 4]}

VARIABLE part  \* what the behaviour is about

MCInit ==
  /\ Init /\ TokenInit /\ BackendInit
  /\ \/ part \in {"budgets", "midnight"} \/ part = "tokens" \/ part = "backends"
  /\ part = "backends" \/ config = [rpm |-> 1, tpm |-> 0, window |-> 1]

Budgets == part = "budgets" /\ Next /\ today' = 0 /\ UNCHANGED <<part, tokenVars, backendVars>>
Midnight ==
  part = "midnight" /\ Next /\ phase'[q1] = "idle" /\ UNCHANGED <<part, tokenVars, backendVars>>
TokenReservations == part = "tokens" /\ TokenNext /\ UNCHANGED <<part, vars, backendVars>>
Backends == part = "backends" /\ BackendNext /\ UNCHANGED <<part, vars, tokenVars>>

MCSpec ==
  MCInit /\ [][Budgets \/ Midnight \/ TokenReservations \/ Backends]_<<part, vars, tokenVars, backendVars>>
=============================================================================
