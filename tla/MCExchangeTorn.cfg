\* Two processes make the same first request; nothing fails.
CONSTANTS
  k1 = k1
  k2 = k2
  x1 = x1
  Tasks = {k1, k2}
  ProcessOf <- Apart
  Txs = {x1}
  SubmitResponses <- MCSubmitResponses
  TxResponses <- MCTxResponses
  Garbage = Garbage
  StoreBodies = TRUE
  MaxRequests = 1
  MaxFaults = 0
SPECIFICATION Spec
PROPERTY BodiesImmutable
CHECK_DEADLOCK FALSE
