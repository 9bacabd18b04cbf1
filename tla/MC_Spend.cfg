\* Two callers, three calls of at most one unit in two minutes, for which a provider
\* may charge twice as much.
CONSTANTS
  Caller = {c1, c2}
  MaxCalls = 3
  Estimates = {0, 1}
  Charges = {0, 2}
  Budget <- SmallBudget
  RateLimit = 1
  MaxMinutes = 2
  MaxLapses = 0
SPECIFICATION Spec
INVARIANTS TypeOK BudgetKept RateKept NothingBookedTwice ChargesAreCovered
CHECK_DEADLOCK FALSE
SYMMETRY Symmetry
