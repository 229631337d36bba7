SPECIFICATION Spec
CONSTANTS
  c1 = c1
  c2 = c2
  a1 = a1
  a2 = a2
  u1 = u1
  None = None
  Calls = {c1, c2}
  Users = {u1}
  Agents = {a1, a2}
  Policies <- AskedPolicies
  Requests <- AskedRequests
  DefaultPolicy <- Default
  Times = {1, 2}
  MaxSignatures = 2
SYMMETRY Symmetry
INVARIANTS TypeOK SignedWithApproval
PROPERTIES DisabledAgentDrains NoncesAreMonotonic
