CONSTANTS
  a = a  b = b  s = s  t = t  da = da  db = db  ds = ds  dt = dt
  LiveMerchant = {a, b}
  SandboxMerchant = {s, t}
  DefaultRow = s
  LiveDecision = {da, db}
  SandboxDecision = {ds, dt}
  OwnerOf <- Owners
  None = None
  FirstLive = a
  FirstSandbox = s
  Sessions <- AllSessions
  MaxCommands = 2
  MaxLoads = 2
SPECIFICATION FairSpec
INVARIANTS ShownIsStored OverridesOwned
PROPERTIES RoutedWrites EverythingSettles
CHECK_DEADLOCK FALSE
