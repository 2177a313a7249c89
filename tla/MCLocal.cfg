SPECIFICATION Spec
CONSTANTS
  k1 = k1  k2 = k2  c0 = c0  c1 = c1  g0 = g0
  p1 = p1  p2 = p2  t1 = t1
  NoRegion = NoRegion  NoRead = NoRead
  Keys = {k1, k2}
  Devices <- MCDevices
  Regions = {}
  Specs <- MixedSpecs
  PoolOrder <- TwoPools
  Capacity <- SmallPools
  RegionDevice <- OnGpu
  PublishSrcs <- NoSrcs
  Removals <- EachKey
  RemoveDuringPut = FALSE
  CopyFaults = {"first"}
  Putters = {p1, p2}
  Getters = {t1}
  MaxPuts = 3
SYMMETRY Threads
INVARIANTS OneOwner WrittenOnce
PROPERTIES ImplementsContract
