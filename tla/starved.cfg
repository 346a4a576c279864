SPECIFICATION Spec
CONSTANTS
  large = large
  small = small
  Missing = Missing
  Unknown = Unknown
  Rooms = {large, small}
  Capacity <- MCCapacity
  PoolSize = 1
  Previews = {p1, p2, p3}
  Manual = {m1}
  Deployments = {TRUE}
  Intents <- OneIntent
  PoolTimeout = 2
  ProviderTimeout = 1
  MaxTime = 3
SYMMETRY Permuted
INVARIANTS
  ManualIsServed
