\* A worker dies holding a task that was asked to cancel.
CONSTANTS
  NSteps = 2
  Strict = FALSE
  MaxSteps = 2
  MaxSlices = 2
  Worker = {w1}
  Owner = {o1}
  Sweeper = sweeper
  Plans <- OnlySequence
  FirstPlan <- Sequence
  MaxAttempts = 1
  MaxClaims = 2
  Commands = {}
  Turns = {"progress"}
  Tools = {"complete step"}
  MaxCrashes = 1
SPECIFICATION FairSpec
PROPERTIES RestsForGood
CHECK_DEADLOCK FALSE
