SPECIFICATION Spec
CONSTANTS
  c1 = c1 q1 = q1 q2 = q2 p1 = p1 p2 = p2 o1 = o1 o2 = o2 k1 = k1 k2 = k2
  Quotes = {q1}
  Orders = {o1, o2}
  Customers = {c1}
  CustomerOf <- OneCustomer
  Partners = {p1, p2}
  NoOrder = NoOrder
  NoRow = NoRow
  NoPartner = NoPartner
  NoQuote = NoQuote
  Prices = {2, 3}
  Discounts = {0, 1}
  ToleranceFloor = 0
  Calls = {k1, k2}
  Admin = Admin
  Regimes <- Either
  Faults = TRUE
SYMMETRY Symmetry
INVARIANTS TypeOK OrderOnlyAfterHandover OneOrderUnlessReopened QuoteFollowsRequest
           OrderBillsTheSettlement
PROPERTIES SettledOnce ClaimedByOne ClosedStaysClosed KeepsPromise
