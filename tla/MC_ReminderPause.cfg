\* Counterexamples, both found with -continue: a delivery at work overwrites a pause
\* (updateReminder has no condition on the status); a reminder paused and resumed before
\* its time has two runs, and both deliver it.
SPECIFICATION Spec
CONSTANTS
  Reminders = {m1}
  Runner = {w1, w2}
  Owner = {o1}
  MaxRuns = 2
  Commands = {"set", "pause", "resume"}
  Results = {"send"}
  Faults = {}
  MaxFaults = 0
  m1 = m1
  w1 = w1
  w2 = w2
  o1 = o1
PROPERTIES PauseStands SentOnce
CHECK_DEADLOCK FALSE
