SPECIFICATION Spec
CONSTANTS
  t1 = t1
  t2 = t2
  k1 = k1
  p1 = p1
  x = x
  y = y
  z = z
  hk = hk
  hu = hu
  None = None
  Public = public
  Threads = {t1, t2, k1}
  Web = {t1, t2}
  Processes = {p1}
  ProcessOf <- MCProcessOf
  Hosts = {hk, hu}
  Known = {hk}
  HostTenants <- MCHostTenants
  Modes = {"off", "cache", "gate"}
  FILLCAP_PER_SEC = 1
  FILLCAP_LOCAL_PER_SEC = 1
  MaxTime = 1
  MaxFaults = 1
  Tenants = {x, y, z}
  Shards = {"s1", "s2"}
  Home <- MCHome
  Overrides <- MCOverrides
  Depths <- MCDepths
INVARIANTS
  HonestAnswer
  Coalesced
  BudgetKept
  BothAxes
  OwnData
  KeysOwn
PROPERTY
  EveryoneAnswered
CHECK_DEADLOCK FALSE
