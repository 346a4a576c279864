SPECIFICATION Spec
CONSTANTS
  big = big
  small = small
  mid = mid
  ann = ann
  bob = bob
  r1 = r1
  r2 = r2
  r3 = r3
  NoBooking = NoBooking
  AnyCount = AnyCount
  Rooms = {big}
  Switchable = {}
  Users = {ann, bob}
  Requests = {r1, r2}
  Capacity <- MCCapacity
  NameOrder <- MCNameOrder
  Calls <- SameCalls
  MaxTime = 0
  SlotGranularity = 1
  SlotSearchHorizon = 4
  AlternativeLimit = 1
INVARIANTS
  LoserIsToldConflict
