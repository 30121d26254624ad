CONSTANTS
  Name = {"n"}
  DelegationID = {"d"}
  k1 = k1
  k2 = k2
  Key <- Keys
  Server = "server"
  Limit = 1
  NoFile = NoFile
  Partial = Partial
  Torn = Torn
  Failed = Failed
  NoCommand = NoCommand
  NoKey = NoKey
  MaxCommands = 3
  MaxKills = 1
  MaxEvents = 1
SPECIFICATION Spec
INVARIANTS
  TypeOK
  KeysAgree
  AuditTellsTruth
  NoEventHidden
PROPERTY ImplementsCommandLine
SYMMETRY Symmetry
CHECK_DEADLOCK FALSE
