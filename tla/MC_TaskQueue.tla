----------------------------- MODULE MC_TaskQueue -----------------------------
(***************************************************************************)
(* TaskQueue on small instances.  Workers are interchangeable, and so are  *)
(* publishers, in the runs that check no liveness.                         *)
(***************************************************************************)
EXTENDS TaskQueueInductive, TLC

Symmetry == Permutations(Worker) \cup Permutations(Publisher)
=============================================================================
