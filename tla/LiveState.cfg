SPECIFICATION FairSpec
CONSTANTS
  f1 = f1
  f2 = f2
  h1 = h1
  Fills = {f1, f2}
  Handlers = {h1}
  ReconcileLimit = 1
  SnapshotLimit = 2
  EmptyAccounts = {1}
  MaxChanges = 1
  MaxFailures = 1
  MaxDrops = 1
INVARIANTS LiveTypeOK QuietIsCaughtUp
PROPERTIES ReconnectRepairs
CHECK_DEADLOCK FALSE
