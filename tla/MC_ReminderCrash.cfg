\* A counterexample: a server dies with the claim of an attempt, and its retries are
\* skipped.
SPECIFICATION Spec
CONSTANTS
  Reminders = {m1}
  Runner = {w1, w2}
  Owner = {o1}
  MaxRuns = 1
  Commands = {"set"}
  Results = {"send"}
  Faults = {"crash"}
  MaxFaults = 1
  m1 = m1
  w1 = w1
  w2 = w2
  o1 = o1
SYMMETRY Symmetry
INVARIANT ScheduledHasRun
CHECK_DEADLOCK FALSE
