CONSTANTS
  Merchants <- Rows
  Platforms <- Limits
  Situations <- Cases
  CandidateLists <- Lists
  ErvTables <- Values
  Attempts <- PriorAttempts
  Contexts <- Loaded
  Policies <- Binding
  Scores <- Values
  Answers <- Bodies
  NoAnswer <- Silence
  Events <- Happenings
  Resolved <- MerchantLimits
  Offers <- Lists
  Worths <- Values
SPECIFICATION Behaviours
INVARIANTS PlatformHolds MerchantHolds BestAllowedWins HumansSeeHardStops DiagnosisIsSafe
PROPERTY ShownAsDecided
CHECK_DEADLOCK FALSE
