\* Every log of up to MaxRows rows, in any order.
CONSTANTS
  a1 = a1
  a2 = a2
  Actors <- MCActors
  Capabilities = {}
  Offered <- MCOffered
  Expiries <- MCExpiries
  Times = {0, 1}
  RunIds = {1}
  MaxRows = 5
SPECIFICATION Spec
SYMMETRY Symmetry
INVARIANTS
  TypeOK
  ApprovalsAsLogged
  StateAsLogged
  ExecutionsAsLogged
\* A replay ends.
CHECK_DEADLOCK FALSE
