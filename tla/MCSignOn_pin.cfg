CONSTANTS
  a = a
  b = b
  external = external
  l1 = l1
  l2 = l2
  c1 = c1
  c2 = c2
  h1 = h1
  h2 = h2
  Client <- Clients
  Demo <- Demos
  External <- Externals
  Login <- OneLogin
  Code <- OneCode
  Handler <- Handlers
  CodeLifetime = 0
  TokenLifetime = 1
  MaxTime = 1
  MaxRestarts = 1
  MaxChanges = 1
  NoClient = NoClient
  NoLogin = NoLogin
  NoCode = NoCode
  NoToken = NoToken
SPECIFICATION Spec
INVARIANT PINIsRequired
CHECK_DEADLOCK FALSE
