CONSTANTS
  c1 = c1
  c2 = c2
  n1 = n1
  n2 = n2
  n3 = n3
  l1 = l1
  f1 = f1
  Actors = {}
  Capabilities = {}
  Clients = {c1, c2}
  Names = {n1, n2, n3}
  Labels = {l1}
  Filters = {f1}
  Like <- MCLike
  NoFilter = NoFilter
  Specs <- MCSpecs
  Overrides <- MCOverrides
  Decisions = {1}
  PageSize = 1
  MaxCreated = 3
  MaxTime = 1
SPECIFICATION Spec
SYMMETRY Symmetry
INVARIANTS
  TypeOK
  ViewIsLog
  CreatedForGood
  RefsTrue
  PagingSkipsNothing
CHECK_DEADLOCK FALSE
