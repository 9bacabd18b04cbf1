CONSTANTS
  Webhook = {1, 2}
  Sender = {s1}
  Editor = {}
  Requests = {}
  Answers = {"delivered", "ambiguous", "failed", "thrown"}
  MaxMessage = 2
  ListLimit = 1
  MaxAttempts = 5
  LeaseTicks = 1
  MaxClaims = 6
  MaxCrashes = 0
SPECIFICATION FairSpec
PROPERTY Rests
\* A message at rest needs nobody.
CHECK_DEADLOCK FALSE
