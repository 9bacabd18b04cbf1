\* A counterexample: the write of one reminder restores an old status of another.
SPECIFICATION Spec
CONSTANTS
  Reminders = {m1, m2}
  Runner = {w1, w2}
  Owner = {o1}
  MaxRuns = 2
  Commands = {"set"}
  Results = {"approval"}
  Faults = {}
  MaxFaults = 0
  m1 = m1
  m2 = m2
  w1 = w1
  w2 = w2
  o1 = o1
SYMMETRY Symmetry
INVARIANT ScheduledIsComing
CHECK_DEADLOCK FALSE
