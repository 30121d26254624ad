CONSTANTS
  AnyMethod = "*"
  AnyAgent = "any"
  NoRule = NoRule
  Undecided = Undecided
  SegmentLength <- MCSegmentLength
  RuleSets <- MCRuleSets
  Requests <- MCRequests
SPECIFICATION Spec
INVARIANTS
  VerdictIsDocumented
  DecisionIsReference
  EffectOfOneMoreRule
CHECK_DEADLOCK FALSE
