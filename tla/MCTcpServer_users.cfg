CONSTANTS
  c1 = c1
  c2 = c2
  base = base
  l1 = l1
  l2 = l2
  u = u
  Base = base
  Conns <- OneConn
  Pools <- OneOrNone
  Users <- OneUser
  UserOps <- SendOrShutdown
  ServerDtor = TRUE
  MaxQueue = 2
SPECIFICATION Spec
CHECK_DEADLOCK FALSE
INVARIANT UsersDoNoHarm
