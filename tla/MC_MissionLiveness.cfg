\* Two parallel steps under fairness; slices make progress or wait for an event.
CONSTANTS
  NSteps = 2
  Strict = FALSE
  MaxSteps = 2
  MaxSlices = 1
  Worker = {w1}
  Owner = {o1}
  Sweeper = sweeper
  Plans <- OnlyParallel
  FirstPlan <- Parallel
  MaxAttempts = 1
  MaxClaims = 2
  Commands = {"cancel"}
  Turns = {"progress", "event"}
  Tools = {"complete step"}
  MaxCrashes = 0
SPECIFICATION FairSpec
PROPERTIES RestsForGood CancelledReleasesTasks
CHECK_DEADLOCK FALSE
