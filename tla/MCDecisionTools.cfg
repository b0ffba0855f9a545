CONSTANTS
  a1 = a1
  a2 = a2
  c1 = c1
  c2 = c2
  d1 = d1
  cap = cap
  Actors = {a1, a2}
  Capabilities = {cap}
  Clients = {c1, c2}
  Decisions = {d1}
  Offered <- TwoApprovals
  Expiries <- MCExpiries
  MaxRows = 10
  MaxVotes = 2
  MaxRequests = 2
  MaxTime = 1
  TimelineLimit = 3
  Junk = Junk
  Faulty = TRUE
SPECIFICATION Spec
SYMMETRY Symmetry
INVARIANTS
  TypeOK
  SeqContiguous
  PipelineOrder
  RequestsJustified
  CompletionsReal
  RunsAdmitted
PROPERTIES
  AppendOnly
CHECK_DEADLOCK FALSE
