SPECIFICATION Spec
CONSTANTS
  c1 = c1
  c2 = c2
  o1 = o1
  o2 = o2
  x1 = x1
  None = None
  Calls = {c1, c2}
  OrderIds = {o1, o2}
  Others = {x1}
  Inputs <- RetriedInputs
  Names <- OtherName
  Store = "postgres"
SYMMETRY Symmetry
INVARIANTS TypeOK PlacedAtMostOnce SubmissionAuditIsTrue NoInventedFill CancelledIsStamped
PROPERTIES OnlyLateAnswersReopen OnlyLateAnswersLoseIds PlacesOnce
