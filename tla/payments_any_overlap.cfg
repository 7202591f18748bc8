SPECIFICATION Spec
CONSTANTS
  o1 = o1 o2 = o2 k1 = k1 k2 = k2 saver = saver
  Codes = {saver}
  Limit <- Once
  Unlimited = Unlimited
  NoCode = NoCode
  Orders = {o1, o2}
  Amounts = {10}
  Quoted = {o1, o2}
  Calls = {k1, k2}
  MaxCalls = 3
  Exclusive = FALSE
  Faults = TRUE
SYMMETRY Symmetry
INVARIANTS TypeOK NeverOverdrawn DiscountsRedeemed
PROPERTIES NumbersInSeries
CHECK_DEADLOCK FALSE
