\* Evidence that comes while the closing verifies.
CONSTANTS
  NSteps = 1
  Strict = TRUE
  MaxSteps = 1
  MaxSlices = 1
  Worker = {w1}
  Owner = {o1}
  Sweeper = sweeper
  Plans <- OnlySequence
  FirstPlan <- Sequence
  MaxAttempts = 1
  MaxClaims = 2
  Commands = {"evidence"}
  Turns = {"progress"}
  Tools = {"complete step"}
  MaxCrashes = 0
SPECIFICATION Spec
INVARIANTS LateEvidenceCloses
CHECK_DEADLOCK FALSE
