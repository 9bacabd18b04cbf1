-------------------------------- MODULE MC_Spend --------------------------------
(***************************************************************************)
(* Spend on small instances.                                               *)
(***************************************************************************)
EXTENDS Spend, TLC

SmallBudget == [s \in Scope |-> IF s = "day" THEN 2 ELSE 1]
Symmetry == Permutations(Caller)
=============================================================================
