SPECIFICATION Spec
CONSTANTS
  a1 = a1
  a2 = a2
  w1 = w1
  w2 = w2
  Admins = {a1, a2}
  Workers = {w1}
  Profiles = {p1}
  Platforms = {win, mac}
  None = None
  ForeignKeys = TRUE
  Failures = FALSE
  MaxJobs = 1
  MaxArtifacts = 1
INVARIANT CanceledBeforeClaim
CHECK_DEADLOCK FALSE
