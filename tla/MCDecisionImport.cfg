\* One client of the tools and two importers, all of which may die; the clock stands still.
CONSTANTS
  a1 = a1
  c1 = c1
  d1 = d1
  d2 = d2
  i1 = i1
  i2 = i2
  Actors = {a1}
  Capabilities = {}
  Clients = {c1}
  Decisions = {d1, d2}
  Offered <- MCOffered
  Expiries <- MCExpiries
  MaxRows = 3
  MaxVotes = 1
  MaxRequests = 1
  MaxTime = 0
  Faulty = TRUE
  Importers = {i1, i2}
  Bundles <- MCBundles
  MaxRuns = 0
SPECIFICATION ImportSpec
SYMMETRY Symmetry
INVARIANTS
  ImportTypeOK
  NoOrphans
  BadImportsWatched
PROPERTIES
  UnaskedKept
CHECK_DEADLOCK FALSE
