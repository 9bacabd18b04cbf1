CONSTANTS
  Webhook = {2}
  Sender = {s1, s2}
  Editor = {e1}
  Requests = {"status"}
  Answers = {"delivered", "ambiguous", "failed", "thrown"}
  MaxMessage = 2
  ListLimit = 2
  MaxAttempts = 2
  LeaseTicks = 1
  MaxClaims = 6
  MaxCrashes = 2
SPECIFICATION TimelySpec
INVARIANTS OneSender AttemptsAreLimited
PROPERTY DeliveredStands
\* A message at rest needs nobody.
CHECK_DEADLOCK FALSE
SYMMETRY Symmetry
