CONSTANTS
  Worker = {w1}
  Publisher = {p1}
  None = None
  MaxRunAt = 3
  MaxAttempts = 1
  LoopMax = 2
  LeaseTicks = 1
  ClaimTicks = 1
  StaleTicks = 1
  DelayTicks = 1
  Commands = {}
  Outcomes = {"completed"}
  CreatedWithRunAt = TRUE
  FaultKinds = {"lost answer", "exhausted"}
  MaxFaults = 3
SPECIFICATION Spec
INVARIANT QueuedHasWake
\* A task at rest needs nobody.
CHECK_DEADLOCK FALSE
