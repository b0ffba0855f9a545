\* Two workers on one queue, and one intent, of which they take up to two attempts each.
CONSTANTS
  w1 = w1
  w2 = w2
  Intents = {1}
  Oversized = {}
  Times = {0}
  Workers = {w1, w2}
  FetchLimit = 2
  Hashless = TRUE
  MaxAttempts = 2
  MaxCrashes = 1
SPECIFICATION Spec
SYMMETRY Symmetry
INVARIANTS
  TypeOK
  StatusHasReceipt
  ConfirmedIsReal
CHECK_DEADLOCK FALSE
