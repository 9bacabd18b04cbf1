\* A stopped branch of a mission nobody ends.
CONSTANTS
  NSteps = 1
  Strict = FALSE
  MaxSteps = 1
  MaxSlices = 1
  Worker = {w1}
  Owner = {o1}
  Sweeper = sweeper
  Plans <- OnlySequence
  FirstPlan <- Sequence
  MaxAttempts = 1
  MaxClaims = 2
  Commands = {}
  Turns = {"progress", "uncertain"}
  Tools = {"complete step"}
  MaxCrashes = 0
SPECIFICATION FairSpec
PROPERTIES StoppedMissionEnds
CHECK_DEADLOCK FALSE
