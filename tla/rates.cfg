SPECIFICATION Spec
CONSTANTS
  w1 = w1 w2 = w2 w3 = w3 k1 = k1 k2 = k2
  UnitsPerKg = 2
  OpenEnd = OpenEnd
  Slabs = {w1, w2, w3}
  NoSlab = NoSlab
  Ranges <- Entered
  Amounts = {3}
  Cuts = {0, 2}
  Weights = {2, 3}
  Sheets <- Uploads
  Ladders <- Steps
  GstPercent = 18
  Provider <- Carrier
  Calls = {k1, k2}
  MaxStaffCalls = 3
SYMMETRY Symmetry
INVARIANTS
  TypeOK
  OneSlabPerWeight
  QuotedOnItsBasis
  PricesAddUp
PROPERTIES
  ImportIsWhole
CHECK_DEADLOCK FALSE
