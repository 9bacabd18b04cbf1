\* The sibling of a crashed worker schedules its quarantined task.
CONSTANTS
  NSteps = 2
  Strict = FALSE
  MaxSteps = 2
  MaxSlices = 1
  Worker = {w1, w2}
  Owner = {o1}
  Sweeper = sweeper
  Plans <- OnlyParallel
  FirstPlan <- Parallel
  MaxAttempts = 1
  MaxClaims = 2
  Commands = {}
  Turns = {"progress"}
  Tools = {"complete step"}
  MaxCrashes = 1
SPECIFICATION Spec
PROPERTIES UncertainIsNotReplayed
CHECK_DEADLOCK FALSE
