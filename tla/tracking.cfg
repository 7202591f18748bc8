SPECIFICATION FairSpec
CONSTANTS
  s1 = s1
  pickedUp = pickedUp
  transit = transit
  delivered = delivered
  Null = Null
  Shipments = {s1}
  Providers = {p1}
  AWBs = {a1}
  Statuses = {pickedUp, delivered}
  PickedUp = pickedUp
  Delivered = delivered
  Emailable <- HasEmail
  Scanned = {p1}
  Summarised = {}
  Dated = {p1}
  Offset <- HashOffset
  DayLength = 4
  Followed = {s1}
  Calls = {k1, k2}
  MaxTime = 1
  MaxScans = 2
  MaxStaffCalls = 1
INVARIANTS
  TypeOK
  InvitedOnce
  StatusIsNewest
  CorrectionsShow
PROPERTIES
  DeliveryIsAskedAbout
CHECK_DEADLOCK FALSE
