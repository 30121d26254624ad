CONSTANTS
  GrantID = {1, 2}
  Human = {"human"}
  Actor = {"a1", "a2"}
  AppID = {"tracker"}
  ActionName = {"read", "write"}
  ResourceType = {"issue"}
  ResourceID = {"r1", "r2"}
  TaskID = {"t1"}
  AllResources = "*"
  NoGrant = NoGrant
  NoTask = NoTask
  NoTime = NoTime
  RequestID = {q1, q2}
  MinTTL = 1
  MaxTTL = 2
  Applications <- MCApplications
  Subjects = {"human"}
  Actors = {"a1"}
  Permissions <- MCPermissions
  TTLs = {1}
  Window = 2
  MaxTime = 4
SYMMETRY RequestSymmetry
SPECIFICATION Spec
INVARIANTS
  TypeOK
  NoSaveRefused
  AllowIsConsent
  OneGrantPerApproval
PROPERTIES
  DecisionsAreFinal
  RevocationIsFinal
CHECK_DEADLOCK FALSE
