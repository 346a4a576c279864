SPECIFICATION FairSpec
CONSTANTS
  here = here
  there = there
  AnyCount = AnyCount
  Rooms = {here, there}
  TheRoom = here
  Capacity <- OneCapacity
  NameOrder <- RoomOrder
  SlotGranularity = 2
  SlotSearchHorizon = 10
  AlternativeLimit = 3
  Wants <- MCWants
  Bookings <- MCBookingSets
INVARIANTS
  SearchTypeOK
  SlotsAreBookable
  NothingNearerIsMissed
  LoopIsNearestSlots
PROPERTIES
  SearchEnds
