CONSTANTS
  Webhook = {2}
  Sender = {s1}
  Editor = {e1, e2}
  Requests = {"confirm", "status"}
  Answers = {"delivered", "ambiguous", "failed", "thrown"}
  MaxMessage = 2
  ListLimit = 2
  MaxAttempts = 3
  LeaseTicks = 1
  MaxClaims = 6
  MaxCrashes = 2
SPECIFICATION FairSpec
INVARIANT TypeOK
PROPERTIES NotReplayed Rests
\* A message at rest needs nobody.
CHECK_DEADLOCK FALSE
