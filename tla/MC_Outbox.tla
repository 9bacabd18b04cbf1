------------------------------- MODULE MC_Outbox -------------------------------
EXTENDS Outbox, TLC
Symmetry == Permutations(Sender) \cup Permutations(Editor)
=============================================================================
