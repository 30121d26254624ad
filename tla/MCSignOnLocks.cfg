CONSTANTS
  app = app
  proxy = proxy
  external = external
  l1 = l1
  c1 = c1
  h1 = h1
  h2 = h2
  Client <- Clients
  Demo <- Demos
  External <- Externals
  Login <- Logins
  Code <- Codes
  Handler <- Handlers
  CodeLifetime = 0
  TokenLifetime = 1
  MaxTime = 1
  MaxRestarts = 1
  MaxChanges = 1
  NoClient = NoClient
  NoLogin = NoLogin
  NoCode = NoCode
  NoToken = NoToken
  Free = Free
SPECIFICATION LockedSpec
INVARIANT LogoutIsFinal
PROPERTY EveryHandlerReturns
CHECK_DEADLOCK FALSE
