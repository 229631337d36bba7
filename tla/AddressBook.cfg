SPECIFICATION Spec
CONSTANTS
  c1 = c1
  c2 = c2
  a1 = a1
  a2 = a2
  a3 = a3
  default = default
  vip = vip
  None = None
  Calls = {c1, c2}
  AddressIds = {a1, a2, a3}
  Seeded = {a1}
  GroupIds = {default, vip}
  Default = default
  Remarks = {"", "A", "B"}
  Requests <- SomeRequests
  MaxFailures = 1
INVARIANTS TypeOK FieldsAreLastAsked
PROPERTIES DeletedStaysDeleted
SYMMETRY Handlers
CHECK_DEADLOCK FALSE
