\* One reminder set, paused, resumed and cancelled, with every end of a turn and three
\* faults of any kind but a second delivery of a step at work.  Nothing needs to happen
\* once it is over.
SPECIFICATION Spec
CONSTANTS
  Reminders = {m1}
  Runner = {w1, w2}
  Owner = {o1}
  MaxRuns = 2
  Commands = {"set", "cancel", "pause", "resume", "run now", "approve"}
  Results = {"send", "poll", "approval", "throw"}
  Faults = {"crash", "exhausted", "refused", "rejected", "lost answer"}
  MaxFaults = 3
  m1 = m1
  w1 = w1
  w2 = w2
  o1 = o1
SYMMETRY Symmetry
INVARIANTS TypeOK SentOncePerAttempt ScheduledIsComing
CHECK_DEADLOCK FALSE
