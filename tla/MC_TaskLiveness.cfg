CONSTANTS
  Worker = {w1, w2}
  Publisher = {p1}
  None = None
  MaxRunAt = 5
  MaxAttempts = 2
  LoopMax = 2
  LeaseTicks = 2
  ClaimTicks = 1
  StaleTicks = 1
  DelayTicks = 1
  Commands = {"cancel"}
  Outcomes = {"completed", "failed"}
  CreatedWithRunAt = TRUE
  FaultKinds = {"publisher crash", "exhausted", "redelivery"}
  MaxFaults = 2
SPECIFICATION FairSpec
INVARIANT WakesArePaidFor
PROPERTIES QueuedIsTaken Settles
\* A task at rest needs nobody.
CHECK_DEADLOCK FALSE
