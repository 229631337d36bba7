SPECIFICATION Spec
CONSTANTS
  c1 = c1
  c2 = c2
  c3 = c3
  c4 = c4
  s1 = s1
  None = None
  Calls = {c1, c2, c3, c4}
  SessionIds = {s1}
  RefreshTTL = 1
  MaxTime = 2
  MaxOutages = 1
SYMMETRY Symmetry
INVARIANTS TypeOK OnlyLiveTokensRefresh LogoutEnds
PROPERTY LoggedOutForGood
CHECK_DEADLOCK FALSE
