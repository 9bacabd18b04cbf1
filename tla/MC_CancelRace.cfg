CONSTANTS
  Worker = {w1}
  Publisher = {p1}
  None = None
  MaxRunAt = 2
  MaxAttempts = 2
  LoopMax = 2
  LeaseTicks = 1
  ClaimTicks = 1
  StaleTicks = 1
  DelayTicks = 1
  Commands = {"cancel"}
  Outcomes = {"completed"}
  CreatedWithRunAt = TRUE
  FaultKinds = {}
  MaxFaults = 0
SPECIFICATION Spec
PROPERTY CancellationStands
\* A task at rest needs nobody.
CHECK_DEADLOCK FALSE
