\* Every command of the owner and the turn, with three failed deliveries.
CONSTANTS
  Worker = {w1}
  Publisher = {p1}
  None = None
  MaxRunAt = 3
  MaxAttempts = 1
  LoopMax = 2
  LeaseTicks = 2
  ClaimTicks = 1
  StaleTicks = 1
  DelayTicks = 1
  Commands = {"cancel", "retry", "schedule", "checkpoint", "block", "complete"}
  Outcomes = {"completed", "wait"}
  CreatedWithRunAt = TRUE
  FaultKinds = {"exhausted"}
  MaxFaults = 3
SPECIFICATION Spec
INVARIANTS TypeOK DeliveryFailuresCountedOnce
PROPERTY OwnedRunIsUndisturbed
\* A task at rest needs nobody.
CHECK_DEADLOCK FALSE
