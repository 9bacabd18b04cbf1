------------------------------ MODULE MC_Mission ------------------------------
(***************************************************************************)
(* Mission on small instances: what plans of two or three steps there are. *)
(***************************************************************************)
EXTENDS Mission, TLC

NoDeps == [s \in Step |-> {}]
Sequence == [steps |-> Step, deps |-> [s \in Step |-> {s - 1} \ {0}]]
Parallel == [steps |-> Step, deps |-> NoDeps]

\* the last step joins the others
Join == [steps |-> Step, deps |-> [s \in Step |-> IF s = NSteps THEN 1..(NSteps - 1)
                                                  ELSE {}]]

\* the first step only
Short == [steps |-> {1}, deps |-> NoDeps]

OnlySequence == {Sequence}
OnlyParallel == {Parallel}
JoinOrShort == {Join, Short}
=============================================================================
