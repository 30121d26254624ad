CONSTANTS
  DelegationID = {1, 2}
  AgentID = {"a1"}
  Audience = {"own"}
  ScopeSets <- MCScopeSets
  TTLs = {3}
  Command = {"c1"}
  Second = 2
  MaxTime = 3
  NoTime = NoTime
  NoOp = NoOp
  Request = {"q"}
  Own = "own"
  Targets <- MCTargets
  Rules <- MCRules
  NoToken = NoToken
  AnyMethod = "*"
  AnyAgent = "any"
  NoRule = NoRule
  SegmentLength <- MCSegmentLength
SPECIFICATION Spec
INVARIANTS
  TypeOK
  CommandsAreDurable
  TokenAgreesWithRecord
  EndedIsRefused
CHECK_DEADLOCK FALSE
