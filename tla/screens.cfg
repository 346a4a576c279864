SPECIFICATION FairSpec
CONSTANTS
  None = None
  Mine = Mine
  call = call
  DayLength = 3
  Bookings = {call}
  Interval <- MCInterval
  Dates = {0, 1}
  BrowserToday = 0
  OfficeToday = 1
  Zones <- MCZones
  Writes = {1, 2}
  MaxTurns = 4
INVARIANTS
  ScreensTypeOK
  OwnWritesShow
  NotOfferedAgain
PROPERTIES
  EveryWriteSettles
CHECK_DEADLOCK FALSE
