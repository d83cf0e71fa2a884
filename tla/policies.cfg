SPECIFICATION Spec
CONSTANTS
  c1 = c1
  d1 = d1
  u1 = u1
  ug = ug
  Calls = {c1}
  Devices = {d1}
  Users = {u1}
  UserGroups = {ug}
  None = None
  RuleBodies <- MCRuleBodies
  StrategyBodies <- MCStrategyBodies
  AccessRequests <- MCAccessRequests
  ListLimit = 500
  MaxGroups = 2
  MaxRules = 2
  MaxStrategies = 2
  MaxAssignments = 4
  MaxChanges = 3
INVARIANTS TypeOK InForcePrevails SecureFallback DecisionAsDocumented StrongestRuleNamed
CHECK_DEADLOCK FALSE
