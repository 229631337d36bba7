SPECIFICATION FairSpec
CONSTANTS
  c1 = c1
  c2 = c2
  c3 = c3
  i1 = i1
  i2 = i2
  old = old
  new = new
  None = None
  Calls = {c1, c2}
  Indexers = {i1, i2}
  Tokens = {old, new}
  Seeded = {old}
  Alike <- SameSymbol
  Asked <- Requests
  MaxBlock = 2
  TokenOf <- NewTokens
  MaxFailures = 1
INVARIANTS TypeOK OnlyNestedReadsBlock NoGap
PROPERTIES CatchesUp
CHECK_DEADLOCK FALSE
