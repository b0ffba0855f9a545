\* One intent, a caller that never stops, a ledger that validates everything.
CONSTANTS
  w1 = w1
  w2 = w2
  Intents = {1}
  Oversized = {}
  Times = {0}
  Workers = {w1}
  FetchLimit = 1
  Hashless = FALSE
  MaxAttempts = 2
  MaxCrashes = 1
SPECIFICATION FairSpec
PROPERTY EventuallyAttested
CHECK_DEADLOCK FALSE
