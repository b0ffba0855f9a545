\* Two processes with one call each at a time, which may die, on one store.
CONSTANTS
  k1 = k1
  k2 = k2
  x1 = x1
  Tasks = {k1, k2}
  ProcessOf <- Apart
  Txs = {x1}
  SubmitResponses <- MCSubmitResponses
  TxResponses <- MCTxResponses
  Garbage = Garbage
  StoreBodies = TRUE
  MaxRequests = 2
  MaxFaults = 1
SPECIFICATION Spec
SYMMETRY Symmetry
INVARIANTS
  TypeOK
  EvidenceSupports
  NarrativeClean
CHECK_DEADLOCK FALSE
