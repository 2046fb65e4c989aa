----------------------------- MODULE MCDelivery -----------------------------
(***************************************************************************)
(* One request walking its plan, or several requests sharing one target's   *)
(* fleet circuit, on a small instance: a two-tier ladder with a pooled      *)
(* cheap tier of which one member is on loopback, and a dear tier with one  *)
(* same-tier fallback.                                                      *)
(***************************************************************************)
EXTENDS FleetHealth, Delivery

VARIABLE part

MCModels == {"lo", "hi", "alt"}
MCLadder == <<"lo", "hi">>
MCFallbacksOf == [m \in MCModels |-> IF m = "hi" THEN <<"alt">> ELSE <<>>]
MCPreset == <<"hi", "lo">>
MCPool == [m \in MCModels |-> IF m = "lo" THEN {"lo#a", "lo#b"} ELSE {m}]

allVars == <<part, healthVars, vars>>

MCInit ==
  \/ part = "delivery" /\ HealthInit /\ Init
  \/ part = "health" /\ HealthInit /\ Init /\ request = CHOOSE r \in Requests : TRUE

MCNext ==
  /\ UNCHANGED part
  /\ \/ part = "delivery" /\ Next /\ UNCHANGED healthVars
     \/ part = "health" /\ HealthNext /\ UNCHANGED vars

MCSpec ==
  /\ MCInit
  /\ [][MCNext]_allVars
  /\ WF_vars(part = "delivery" /\ Step)
  /\ WF_healthVars(part = "health" /\ Tick)

\* Retries and failover are bounded: every request ends.
EveryDeliveryEnds == part = "delivery" => EventuallyDone
=============================================================================
