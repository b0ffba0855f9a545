\* The single process of the documentation, which may die and be started again,
\* and a reader of its reports.
CONSTANTS
  Intents = {1, 2}
  Oversized = {}
  Times = {0}
  Workers = {w1}
  FetchLimit = 1
  Hashless = FALSE
  MaxAttempts = 2
  MaxCrashes = 1
  Reported = {2}
SPECIFICATION FairReportSpec
INVARIANT NarrativeAgrees
PROPERTIES
  KeepsLifecycle
  ConfirmedOnce
  EventuallyProcessed
CHECK_DEADLOCK FALSE
