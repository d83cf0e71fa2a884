SPECIFICATION FairSpec
CONSTANTS
  c1 = c1
  c2 = c2
  Migrators = {m1, m2}
  Mortal = {m1}
  Files = 3
  Statements <- MCStatements
  Repeatable = {1, 3}
  Clients = {c1, c2}
  Patient = {c1}
  Impatient = {c2}
  PoolSize = 2
  KeysOf <- MCKeysOf
  Limit = 1
  Window = 2
  MaxKeys = 1
  Budget <- MCBudget
  MaxTime = 3
  None = None
INVARIANTS TypeOK TablesThere TwicePerWindow
PROPERTIES RefusalJustified SchemaRecovers PatientAnswered
CHECK_DEADLOCK FALSE
