SPECIFICATION Spec
CONSTANTS
  t1 = t1  t2 = t2
  Threads = {t1, t2}
  Unknown = Unknown
  Limit = 10
  Lengths = {0, 1, 2, 3}
  Numas = {0, 1, 2, Unknown}
  Mrs = {1, 2, 3}
  NicNuma <- NicNodes
  QpsPerPeer = 2
  Regions <- SomeRegions
  Batches <- SomeBatches
  MaxBatches = 2
CHECK_DEADLOCK FALSE
INVARIANTS EntriesApart FindEntryExact RoutedOnce InFlightRegistered
PROPERTIES UnregisteredLeaves
