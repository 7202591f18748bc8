SPECIFICATION Spec
CONSTANTS
  s1 = s1
  pickedUp = pickedUp
  transit = transit
  delivered = delivered
  Null = Null
  Shipments = {s1}
  Providers = {p1}
  AWBs = {a1}
  Statuses = {pickedUp, transit, delivered}
  PickedUp = pickedUp
  Delivered = delivered
  Emailable <- HasEmail
  Scanned = {}
  Summarised = {p1}
  Dated = {}
  Offset <- HashOffset
  DayLength = 4
  Followed = {s1}
  Calls = {k1}
  MaxTime = 1
  MaxScans = 2
  MaxStaffCalls = 0
INVARIANTS
  CarrierStatusShown
CHECK_DEADLOCK FALSE
