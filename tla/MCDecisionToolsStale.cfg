\* Two clients, nothing dies, the clock stands still: revoke while execute runs.
CONSTANTS
  a1 = a1
  a2 = a2
  c1 = c1
  c2 = c2
  d1 = d1
  cap = cap
  Actors = {a1, a2}
  Capabilities = {}
  Clients = {c1, c2}
  Decisions = {d1}
  Offered <- OneApproval
  Expiries <- MCExpiries
  MaxRows = 8
  MaxVotes = 2
  MaxRequests = 1
  MaxTime = 0
  TimelineLimit = 3
  Junk = Junk
  Faulty = FALSE
SPECIFICATION Spec
SYMMETRY Symmetry
INVARIANT QuorumWhenRequested
CHECK_DEADLOCK FALSE
