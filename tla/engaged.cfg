CONSTANTS
  a = a  b = b  s = s  t = t  da = da  db = db  ds = ds  dt = dt
  LiveMerchant = {a, b}
  SandboxMerchant = {s, t}
  DefaultRow = s
  LiveDecision = {da, db}
  SandboxDecision = {ds, dt}
  OwnerOf <- Owners
  None = None
  FirstLive = a
  FirstSandbox = s
  Sessions <- LostAnswers
  MaxCommands = 1
  MaxLoads = 1
SPECIFICATION Spec
INVARIANT EngagedIsEngaged
CHECK_DEADLOCK FALSE
