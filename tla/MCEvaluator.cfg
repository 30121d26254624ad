CONSTANTS
  GrantID = {1, 2, 3}
  Human = {"human"}
  Actor = {"a1", "a2"}
  AppID = {"tracker"}
  ActionName = {"read", "write"}
  ResourceType = {"issue"}
  ResourceID = {"r1", "r2"}
  TaskID = {"t1"}
  AllResources = "*"
  NoGrant = NoGrant
  NoTask = NoTask
  NoTime = NoTime
  Inputs <- MCInputs
SPECIFICATION Spec
INVARIANTS
  TypeOK
  DecisionIsReference
  AuthorityNeverBroadens
  RevocationOnlyRemoves
PROPERTY Terminates
CHECK_DEADLOCK FALSE
