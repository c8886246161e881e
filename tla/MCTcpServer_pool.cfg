CONSTANTS
  c1 = c1
  c2 = c2
  base = base
  l1 = l1
  l2 = l2
  u = u
  Base = base
  Conns <- TwoConns
  Pools <- TwoOrNone
  Users <- NoUsers
  UserOps <- NoOps
  ServerDtor = FALSE
  MaxQueue = 2
SPECIFICATION FairSpec
CHECK_DEADLOCK FALSE
INVARIANT NoAssertionFails
INVARIANT RegisteredIsHeld
INVARIANT NoneForgotten
PROPERTY ConnectionsEnd
