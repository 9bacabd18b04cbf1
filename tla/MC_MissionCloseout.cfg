\* One strict step: every command, turn and tool but a replan, and a crash.
CONSTANTS
  NSteps = 1
  Strict = TRUE
  MaxSteps = 1
  MaxSlices = 1
  Worker = {w1}
  Owner = {o1}
  Sweeper = sweeper
  Plans <- OnlySequence
  FirstPlan <- Sequence
  MaxAttempts = 1
  MaxClaims = 1
  Commands = {"pause", "cancel", "resume", "evidence", "verify", "complete step", "repair"}
  Turns = {"progress", "nothing", "uncertain", "timer", "event", "throw"}
  Tools = {"complete step", "evidence", "pause", "block"}
  MaxCrashes = 1
SPECIFICATION Spec
INVARIANTS TypeOK CompletionIsEarned
CHECK_DEADLOCK FALSE
