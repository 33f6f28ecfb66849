--------------------------- MODULE MCSubscriptions ---------------------------
(* Instances of Subscriptions for TLC. *)
EXTENDS Subscriptions, TLC

CONSTANTS free, pro

MCPlans == {free, pro}

MCPrice == [plan \in MCPlans |-> IF plan = free THEN 0 ELSE 79]

Symmetry == Permutations(Requests)
=============================================================================
