SPECIFICATION QFairSpec
CONSTANTS
  c1 = c1 q1 = q1 p1 = p1 o1 = o1 o2 = o2 k1 = k1 d1 = d1 d2 = d2
  Quotes = {q1}
  Orders = {o1, o2}
  Customers = {c1}
  CustomerOf <- OneCustomer
  Partners = {p1}
  NoOrder = NoOrder
  NoRow = NoRow
  NoPartner = NoPartner
  NoQuote = NoQuote
  Prices = {2}
  Discounts = {0}
  ToleranceFloor = 0
  Calls = {k1}
  Admin = Admin
  Regimes <- NoOverlap
  Faults = FALSE
  Desk = {d1, d2}
  NoPickup = NoPickup
INVARIANTS QTypeOK SameDeal OneOrderPerQuote
PROPERTIES DealIsFinal RejectionClosesRequest CompletedGetsOrder AcceptedGetsOrder
CHECK_DEADLOCK FALSE
