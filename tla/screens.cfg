CONSTANTS
  acme = acme  nexa = nexa  balanced = balanced
  SearchTerms = {"", "DEC-3C18F0", "pay_Upi_2499_alt", "nothing"}
  Decisions = {d1, d2}  Kinds <- LedgerKinds  Extra = {"payment_link"}
  Owner = acme  SeedPayment = {pay1}  NewPayment = {pay2}  Anything = anything  MaxCommands = 2
  Dialog = {"kill", "override", "simulate"}  MaxCalls = 2  MaxToggles = 3
  Url = {u1, u2}  DefaultUrl = u1  Empty = noUrl  Key = {k1}  NoKey = noKey  MaxChecks = 2
  EngineMerchants <- InEngine  SandboxMerchants <- InSandbox  TrendLength <- Trends
  EngineTrend = 1  SandboxRows <- FreshRows  MaxRows = 1
  NewIds = {"DEC-NEW"}
  Amounts = {8000}
  SimulatedAt = 4000
  MaxOverrides = 2
SPECIFICATION Behaviours
INVARIANTS InvestigationHolds FiguresAgree HistoryFound RestoresWhatRuns
PROPERTIES CallsEnd FrameCoherent
CHECK_DEADLOCK FALSE
