CONSTANTS
  DelegationID = {1, 2}
  AgentID = {"a1"}
  Audience = {"own"}
  ScopeSets <- MCScopeSets
  TTLs = {2}
  Command = {"c1", "c2"}
  Second = 2
  MaxTime = 1
  NoTime = NoTime
  NoOp = NoOp
  Request = {"q"}
  Own = "own"
  Targets <- MCTargets
  Rules <- MCRules
  NoToken = NoToken
  AnyMethod = "*"
  AnyAgent = "any"
  NoRule = NoRule
  SegmentLength <- MCSegmentLength
SPECIFICATION Spec
INVARIANT EndedIsRefused
CHECK_DEADLOCK FALSE
