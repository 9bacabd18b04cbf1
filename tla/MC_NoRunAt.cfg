CONSTANTS
  Worker = {w1}
  Publisher = {p1}
  None = None
  MaxRunAt = 3
  MaxAttempts = 1
  LoopMax = 2
  LeaseTicks = 1
  ClaimTicks = 1
  StaleTicks = 1
  DelayTicks = 1
  Commands = {}
  Outcomes = {"completed"}
  CreatedWithRunAt = FALSE
  FaultKinds = {"lost answer"}
  MaxFaults = 1
SPECIFICATION Spec
INVARIANT OneWorkflowPerWake
\* A task at rest needs nobody.
CHECK_DEADLOCK FALSE
