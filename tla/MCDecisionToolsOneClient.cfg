\* One client at a time, which may die; the clock moves while a call runs.
CONSTANTS
  a1 = a1
  a2 = a2
  c1 = c1
  c2 = c2
  d1 = d1
  cap = cap
  Actors = {a1, a2}
  Capabilities = {}
  Clients = {c1}
  Decisions = {d1}
  Offered <- OneOrTwo
  Expiries <- MCExpiries
  MaxRows = 10
  MaxVotes = 4
  MaxRequests = 2
  MaxTime = 1
  TimelineLimit = 3
  Junk = Junk
  Faulty = TRUE
SPECIFICATION Spec
SYMMETRY Symmetry
INVARIANTS
  QuorumWhenRequested
  RevokedBeforeExecution
  OneVoice
  RecordsTruthful
  TimelineTruthful
  AuditRecordAgrees
  PackageTight
  LinkTrue
  InspectCoherent
  ExecutedExportStable
CHECK_DEADLOCK FALSE
