SPECIFICATION FairSpec
CONSTANTS
  c1 = c1
  c2 = c2
  w1 = w1
  w2 = w2
  u = u
  v = v
  None = None
  Calls = {c1, c2}
  WalletIds = {w1, w2}
  Users = {u, v}
  Keys = {"k1", "k2"}
  Texts = {"", "a"}
  Requests <- SomeRequests
  MaxFailures = 2
INVARIANTS TypeOK NotMixed
PROPERTIES RequestsEnd RegistersOnce
