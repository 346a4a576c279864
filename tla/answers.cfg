SPECIFICATION Spec
CONSTANTS
  big = big
  small = small
  mid = mid
  ann = ann
  bob = bob
  r1 = r1
  r2 = r2
  r3 = r3
  NoBooking = NoBooking
  AnyCount = AnyCount
  Rooms = {big, mid, small}
  Switchable = {mid}
  Users = {ann, bob}
  Requests = {r1, r2, r3}
  Capacity <- MCCapacity
  NameOrder <- MCNameOrder
  Calls <- AnswerCalls
  MaxTime = 0
  SlotGranularity = 1
  SlotSearchHorizon = 4
  AlternativeLimit = 1
INVARIANTS
  ReadsAreCurrent
PROPERTIES
  OffersAreBookable
SYMMETRY RequestSymmetry
