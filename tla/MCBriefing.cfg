CONSTANTS
  t1 = t1
  t2 = t2
  t3 = t3
  a1 = a1
  a2 = a2
  Invented = Invented
  Broken = Broken
  CategoryOrder <- MCCategoryOrder
  ByRecency <- MCByRecency
  Category <- MCCategory
  Outlet <- MCOutlet
  Untitled <- MCUntitled
  MaxItems = 2
  MaxPerOutlet = 2
  PoolLimit = 2
  Bytes <- MCBytes
  HeadingBytes = 1
  TitleBytes = 1
  FocusBytes = 1
  MaxBytes = 9
  Days <- MCDays
  Working = {1}
  HasWebhook = TRUE
  MaxAttempts = 2
  MaxManual = 1
  MaxCrashes = 1
SPECIFICATION Spec
CONSTRAINT LateTicksOnDayOff
INVARIANTS
  TypeOK
  OneMessageADay
  DoneMeansTold
  NoSilentDelivery
  EditionIsVerified
CHECK_DEADLOCK FALSE
