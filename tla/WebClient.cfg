SPECIFICATION FairSpec
CONSTANTS
  r1 = r1
  l1 = l1
  o1 = o1
  x1 = x1
  t1 = t1
  t2 = t2
  s1 = s1
  s2 = s2
  Requests = {r1}
  Loads = {l1}
  Logouts = {o1}
  Expiries = {x1}
  Sockets = {t1, t2}
  Servers = {s1, s2}
  MaxReconnectAttempts = 2
  None = None
  h1 = h1
  h2 = h2
  m1 = m1
  m2 = m2
  w1 = w1
  w2 = w2
  Hooks = {h1, h2}
  Hosts = {m1, m2}
  Turns <- TwoTabs
  Wires = {w1, w2}
  Nobody = Nobody
  MaxReconnects = 1
  MaxSweeps = 1
INVARIANTS SuspendDrains OutMeansOut StoredLives WiresHaveOwners
PROPERTIES EachSettles IdleReachesPage ConnectingEnds WatchedGetsWire
