SPECIFICATION Spec
CONSTANTS
  i1 = i1
  v1 = v1
  v2 = v2
  k1 = k1

  d1 = d1
  r1 = r1
  r2 = r2
  x = x
  y = y
  Calls = {i1, v1, v2, k1}
  Route <- MCRoute
  Grants = {g1}
  Relays = {x, y}
  Devices = {d1}
  RustDeskIDs = {r1, r2}
  None = None
  BlankToken = BlankToken
  BadToken = BadToken
  IssueRequests <- MCIssueRequests
  ValidateRequests <- MCValidateRequests
  DefaultTTL = 1
  Faulty = {i1, v1, k1}
  CountsMatchedRows = FALSE
  MaxTime = 2
INVARIANTS TypeOK SequentialSingleUse RevocationEffective AcceptedInTime ConsumedByItsTarget AnswersRecorded
PROPERTY ImplementsLedger
CHECK_DEADLOCK FALSE
