CONSTANTS
  Webhook = {1}
  Sender = {s1}
  Editor = {}
  Requests = {}
  Answers = {"delivered", "ambiguous", "failed", "thrown"}
  MaxMessage = 1
  ListLimit = 1
  MaxAttempts = 5
  LeaseTicks = 1
  MaxClaims = 6
  MaxCrashes = 1
SPECIFICATION TimelySpec
INVARIANT FailedIsDefinite
\* A message at rest needs nobody.
CHECK_DEADLOCK FALSE
