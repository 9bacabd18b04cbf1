CONSTANTS
  Worker = {w1, w2}
  Publisher = {p1}
  None = None
  MaxRunAt = 3
  MaxAttempts = 2
  LoopMax = 2
  LeaseTicks = 1
  ClaimTicks = 1
  StaleTicks = 1
  DelayTicks = 1
  Commands = {"cancel", "retry"}
  Outcomes = {"completed", "failed", "wait"}
  CreatedWithRunAt = TRUE
  FaultKinds = {"lost answer", "rejected", "publisher crash", "worker crash", "redelivery", "exhausted"}
  MaxFaults = 1
SPECIFICATION Spec
INVARIANT QueuedHasWake
PROPERTIES OwnedRunIsUndisturbed FailsOnlyWhenUsedUp KeepsContract
\* A task at rest needs nobody.
CHECK_DEADLOCK FALSE
SYMMETRY Symmetry
