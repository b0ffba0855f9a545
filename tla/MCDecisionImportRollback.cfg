\* One importer; nothing dies.
CONSTANTS
  a1 = a1
  c1 = c1
  d1 = d1
  d2 = d2
  i1 = i1
  i2 = i2
  Actors = {a1}
  Capabilities = {}
  Clients = {c1}
  Decisions = {d1, d2}
  Offered <- MCOffered
  Expiries <- MCExpiries
  MaxRows = 3
  MaxVotes = 1
  MaxRequests = 1
  MaxTime = 0
  Faulty = FALSE
  Importers = {i1}
  Bundles <- MCBundles
  MaxRuns = 0
SPECIFICATION ImportSpec
PROPERTY FailedImportHarmless
CHECK_DEADLOCK FALSE
