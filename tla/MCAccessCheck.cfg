CONSTANTS
  GrantID = {1, 2}
  Human = {"human", "guest"}
  Actor = {"a1"}
  AppID = {"tracker"}
  ActionName = {"read"}
  ResourceType = {"issue"}
  ResourceID = {"r1"}
  TaskID = {}
  AllResources = "*"
  NoGrant = NoGrant
  NoTask = NoTask
  NoTime = NoTime
  RequestID = {"q1", "q2"}
  MinTTL = 1
  MaxTTL = 1
  Window = 1
  Applications <- MCApplications
  Subjects = {"human"}
  Actors = {"a1"}
  Permissions <- MCPermissions
  TTLs = {1}
  MaxTime = 2
  Check = {"c1"}
  Asked <- MCAsked
  LocalUser = "human"
  NoRequest = NoRequest
  NoAnswer = NoAnswer
  Error = Error
SPECIFICATION CheckSpec
INVARIANTS
  CheckTypeOK
  AnswerIsRecorded
  RevocationHonoured
  AllowedWhenListed
  ApprovalHonoured
CHECK_DEADLOCK FALSE
