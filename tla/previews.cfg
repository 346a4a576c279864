SPECIFICATION Spec
CONSTANTS
  large = large
  small = small
  Missing = Missing
  Unknown = Unknown
  Rooms = {large, small}
  Capacity <- MCCapacity
  PoolSize = 1
  Previews = {p1, p2}
  Manual = {m1}
  Deployments = {TRUE, FALSE}
  Intents <- MCIntents
  PoolTimeout = 2
  ProviderTimeout = 1
  MaxTime = 4
SYMMETRY Permuted
INVARIANTS
  PreviewTypeOK
  PreviewsAreBookable
  ManualWithoutKey
  OnlyProgressDelays
