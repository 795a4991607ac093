CONSTANTS
  e1 = e1  e2 = e2  x1 = x1  x2 = x2  p1 = p1  cust = cust  m1 = m1
  Event = {e1, e2, e3}
  Caller = {}
  Sweeper = {s1}
  Payment = {p1}
  Merchant = {m1}
  PaymentOf <- OnePayment
  MerchantOf <- OneMerchant
  CustomerOf <- OneCustomer
  NoCustomer = NoCustomer
  AmountOf <- Rupees
  PriorAttempts <- FirstAttempt
  MerchantPolicy <- Spaced
  PlatformPolicy <- Platform
  Diagnoses <- OnlyTransient
  Scores <- UsualScores
  Dispatcher = "mock"
  ExecActions = {}
  KillScopes = {"global"}
  BatchLimit = 2
  DbFaults = FALSE
  MaxClock = 3
  Day = 1
  MaxCrashes = 0
SPECIFICATION Spec
INVARIANT RetriesSpaced
CHECK_DEADLOCK FALSE
