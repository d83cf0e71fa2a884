SPECIFICATION Spec
CONSTANTS
  u1 = u1
  u2 = u2
  s1 = s1
  k1 = k1
  c1 = c1
  c2 = c2
  c3 = c3
  c4 = c4
  c5 = c5
  Calls = {c1, c2, c3, c4, c5}
  Users = {u1, u2}
  Sessions = {s1}
  ApiTokens = {k1}
  None = None
  NewStatuses = {None, "locked"}
  TokenTTL = 1
  Deployments <- MCSetup
INVARIANT SetupOnce
SYMMETRY MCSymmetry
CHECK_DEADLOCK FALSE
