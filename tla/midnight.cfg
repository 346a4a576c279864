SPECIFICATION Spec
CONSTANTS
  None = None
  here = here
  there = there
  FormRooms = {here, there}
  DayLength = 4
  LastDay = 2
  DefaultHours <- MCDefaultHours
  Zones <- Steady
  Previews <- MCPreviews
  Skews = {0}
  MaxLead = 3
INVARIANTS
  AlternativeCanBeSubmitted
