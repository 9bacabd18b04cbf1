CONSTANTS
  Worker = {w1}
  Publisher = {p1, p2}
  None = None
  MaxRunAt = 3
  MaxAttempts = 2
  LoopMax = 2
  LeaseTicks = 1
  ClaimTicks = 1
  StaleTicks = 1
  DelayTicks = 1
  Commands = {}
  Outcomes = {"completed", "failed"}
  CreatedWithRunAt = TRUE
  FaultKinds = {"lost answer", "rejected", "publisher crash", "worker crash", "redelivery", "exhausted"}
  MaxFaults = 2
SPECIFICATION Spec
INVARIANTS QueuedHasWake DeliveryFailuresCountedOnce
\* A task at rest needs nobody.
CHECK_DEADLOCK FALSE
SYMMETRY Symmetry
