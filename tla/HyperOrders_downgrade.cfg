SPECIFICATION Spec
CONSTANTS
  c1 = c1
  c2 = c2
  o1 = o1
  o2 = o2
  x1 = x1
  None = None
  Calls = {c1}
  OrderIds = {o1}
  Others = {}
  Inputs <- OneInput
  Names <- OwnNames
  Store = "memory"
PROPERTY TerminalNeverDowngraded
