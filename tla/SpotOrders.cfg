SPECIFICATION Spec
CONSTANTS
  c1 = c1
  c2 = c2
  c3 = c3
  o1 = o1
  o2 = o2
  o3 = o3
  u = u
  v = v
  r = r
  None = None
  Calls = {c1, c2, c3}
  OrderIds = {o1, o2, o3}
  Users = {u, v}
  Reqs = {r}
  Scale = 10
  Inputs <- MCInputs
  RawStatuses <- MCStatuses
  Failing = TRUE
  MaxOutages = 1
SYMMETRY Symmetry
INVARIANTS TypeOK OneOrderPerRequest OrdersAreQuoted FilledIfEverConfirmed EventsTellHistory
PROPERTY StoresOnce
CHECK_DEADLOCK FALSE
