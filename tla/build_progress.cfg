SPECIFICATION FairSpec
CONSTANTS
  a1 = a1
  a2 = a2
  w1 = w1
  w2 = w2
  Admins = {a1, a2}
  Workers = {w1}
  Profiles = {p1}
  Platforms = {win}
  None = None
  ForeignKeys = FALSE
  Failures = FALSE
  MaxJobs = 2
  MaxArtifacts = 1
PROPERTIES ClaimedJobsEnd QueuedJobsServed JobsAudited
CHECK_DEADLOCK FALSE
