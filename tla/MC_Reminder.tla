------------------------------ MODULE MC_Reminder ------------------------------
(***************************************************************************)
(* Reminder on small instances.                                            *)
(***************************************************************************)
EXTENDS Reminder, TLC

Symmetry == Permutations(Runner)
=============================================================================
