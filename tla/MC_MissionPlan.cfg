\* Three steps, replanned and completed by the owner and the worker at any moment.
CONSTANTS
  NSteps = 3
  Strict = FALSE
  MaxSteps = 3
  MaxSlices = 1
  Worker = {w1}
  Owner = {o1}
  Sweeper = sweeper
  Plans <- JoinOrShort
  FirstPlan <- Join
  MaxAttempts = 1
  MaxClaims = 1
  Commands = {"replan", "complete step"}
  Turns = {"progress"}
  Tools = {"complete step", "replan"}
  MaxCrashes = 0
SPECIFICATION Spec
INVARIANTS DependencyOrder StepsCountedOnce CompletionIsEarned
PROPERTIES CompletedWorkIsKept
CHECK_DEADLOCK FALSE
