\* Counterexamples, each found with -continue: a worker that is late revives a cancelled
\* mission; a sweep that saw a timer due resumes a paused one; a mission is closed over a
\* task that was made after closing had read them.
CONSTANTS
  NSteps = 2
  Strict = FALSE
  MaxSteps = 2
  MaxSlices = 2
  Worker = {w1}
  Owner = {o1}
  Sweeper = sweeper
  Plans <- OnlySequence
  FirstPlan <- Sequence
  MaxAttempts = 1
  MaxClaims = 2
  Commands = {"pause", "cancel", "resume", "complete step"}
  Turns = {"progress", "nothing", "timer"}
  Tools = {"complete step"}
  MaxCrashes = 1
SPECIFICATION Spec
PROPERTIES EndedStands PauseStands ClosedOverNoTask
CHECK_DEADLOCK FALSE
