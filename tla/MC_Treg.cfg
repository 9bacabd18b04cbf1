\* Counterexamples, both found with -continue: Treg goes on counting the calls of the
\* minute before, and does not cover a charge whose answer was lost.
CONSTANTS
  Caller = {c1}
  MaxCalls = 3
  Estimates = {1}
  Charges = {0, 2}
  Budget <- SmallBudget
  RateLimit = 2
  MaxMinutes = 2
  MaxLapses = 0
SPECIFICATION Spec
INVARIANTS RateRefusalIsJustified TregChargesAreCovered
CHECK_DEADLOCK FALSE
