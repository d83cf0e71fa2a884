SPECIFICATION Spec
CONSTANTS
  a1 = a1
  a2 = a2
  w1 = w1
  w2 = w2
  Admins = {a1, a2}
  Workers = {w1, w2}
  Profiles = {p1}
  Platforms = {win}
  None = None
  ForeignKeys = TRUE
  Failures = TRUE
  MaxJobs = 2
  MaxArtifacts = 1
INVARIANTS TypeOK OneWorkerPerJob NoOvertaking SucceededComplete JobsHaveProfile RetriedHaveEnded
PROPERTY ImplementsJobLedger
SYMMETRY MCSymmetry
CHECK_DEADLOCK FALSE
