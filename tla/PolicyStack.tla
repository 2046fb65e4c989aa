----------------------------- MODULE PolicyStack -----------------------------
(***************************************************************************)
(* What a policy lifecycle promises: the installed policy is the top of a  *)
(* bounded stack of activations, an activation pushes, a rollback pops,    *)
(* and a full stack forgets its oldest activation.                         *)
(***************************************************************************)
EXTENDS Naturals, Sequences, SequencesExt

CONSTANTS Policies, MaxDepth, Nothing

VARIABLES stack, installed

StackInit == stack = <<>> /\ installed = Nothing

Pushed(p) ==
  LET kept == IF Len(stack) > MaxDepth THEN Tail(stack) ELSE stack
  IN  Append(kept, p)

Push == \E p \in Policies : stack' = Pushed(p) /\ installed' = p

Pop ==
  /\ Len(stack) > 1
  /\ stack' = Front(stack)
  /\ installed' = Last(Front(stack))

StackSpec == StackInit /\ [][Push \/ Pop]_<<stack, installed>>
=============================================================================
