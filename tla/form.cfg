SPECIFICATION Spec
CONSTANTS
  None = None
  here = here
  there = there
  FormRooms = {here, there}
  DayLength = 3
  LastDay = 2
  DefaultHours <- MCDefaultHours
  Zones <- Changing
  Previews <- MCPreviews
  Skews <- AnySkew
  MaxLead = 2
INVARIANTS
  FormTypeOK
  ChoiceStays
  ExistingTimesAreTaken
PROPERTIES
  UserDatesStay
  RequestsAreAsShown
