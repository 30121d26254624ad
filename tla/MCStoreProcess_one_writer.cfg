CONSTANTS
  GrantID = {1}
  Human = {"human"}
  Actor = {"a1"}
  AppID = {"tracker"}
  ActionName = {"read"}
  ResourceType = {"issue"}
  ResourceID = {"r1"}
  TaskID = {}
  AllResources = "*"
  NoGrant = NoGrant
  NoTask = NoTask
  NoTime = NoTime
  RequestID = {"q1"}
  MinTTL = 1
  MaxTTL = 1
  Window = 1
  Applications <- MCApplications
  Subjects = {"human"}
  Actors = {"a1"}
  Permissions <- MCPermissions
  TTLs = {1}
  Thread = {"w1", "w2", "r"}
  Readers = {"r"}
  Process = {"server", "cli"}
  NoFile = NoFile
  Empty = Empty
  Garbled = Garbled
  NoCall = NoCall
  Free = Free
  ProcessOf <- OneWriter
  MaxTime = 1
  MaxKills = 1
SPECIFICATION Spec
INVARIANTS
  TypeOK
  FileLoads
  AckedIsDurable
  ListsAreDurable
PROPERTIES
  ImplementsStore
  EveryCallReturns
CHECK_DEADLOCK FALSE
