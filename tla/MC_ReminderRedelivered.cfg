\* A counterexample: two deliveries of one step pass claimDelivery, the second between
\* its two commands.
SPECIFICATION Spec
CONSTANTS
  Reminders = {m1}
  Runner = {w1, w2}
  Owner = {o1}
  MaxRuns = 1
  Commands = {"set"}
  Results = {"send"}
  Faults = {"redelivery"}
  MaxFaults = 1
  m1 = m1
  w1 = w1
  w2 = w2
  o1 = o1
SYMMETRY Symmetry
INVARIANT SentOncePerAttempt
CHECK_DEADLOCK FALSE
