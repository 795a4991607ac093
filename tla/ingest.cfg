SPECIFICATION Behaviours
CONSTANTS
  Delivery = {d1, d2, d3}
  Event = {e1, e2}
  Payment = {p1, p2}
  None = None
  Probe = {h1}
  Caller = {c1, c2}
  MaxCalls = 2
  MaxEvents = 2
INVARIANTS CreatedOnce AnsweredNamesDurableRow CountedOnceOrTwice ShownIngestedWasStored
PROPERTY ImplementsEventStore EverythingEnds
