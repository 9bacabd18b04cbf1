\* A holder slower than the lock's lease.
CONSTANTS
  Caller = {c1, c2}
  MaxCalls = 3
  Estimates = {1}
  Charges = {0, 2}
  Budget <- SmallBudget
  RateLimit = 2
  MaxMinutes = 1
  MaxLapses = 1
SPECIFICATION Spec
INVARIANTS BudgetKept
CHECK_DEADLOCK FALSE
SYMMETRY Symmetry
