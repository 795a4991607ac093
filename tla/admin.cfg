SPECIFICATION Behaviours
CONSTANTS
  Request = {r1, r2}
  Merchant = {acme}
  Unknown = nobody
  MaxCeiling = 2
  Cleared = Cleared
  Platform <- PlatformRows
  StartRows <- FormRows
  SandboxRow <- Fallback
  Typed <- Keyed
  MaxEdits = 2
INVARIANTS AuditTrustworthy SwitchesStand SavedLimitsBind
PROPERTIES StoredWithinCeiling UntypedKept
CHECK_DEADLOCK FALSE
