SPECIFICATION Spec
CONSTANTS
  o1 = o1 o2 = o2 k1 = k1 k2 = k2 saver = saver
  Codes = {}
  Limit <- Once
  Unlimited = Unlimited
  NoCode = NoCode
  Orders = {o1}
  Amounts = {10}
  Quoted = {o1}
  Calls = {k1}
  MaxCalls = 4
  Exclusive = TRUE
  Faults = FALSE
SYMMETRY Symmetry
INVARIANTS BilledOnce
CHECK_DEADLOCK FALSE
