SPECIFICATION Spec
CONSTANTS
  k1 = k1  k2 = k2  c0 = c0  c1 = c1  g0 = g0
  p1 = p1  p2 = p2  t1 = t1
  NoRegion = NoRegion  NoRead = NoRead
  Keys = {k1}
  Devices <- MCDevices
  Regions = {}
  Specs <- OneSpec
  PoolOrder <- OnePool
  Capacity <- OneSmall
  RegionDevice <- OnGpu
  PublishSrcs <- NoSrcs
  Removals <- EachKey
  RemoveDuringPut = FALSE
  CopyFaults = {"midway"}
  Putters = {p1, p2}
  Getters = {t1}
  MaxPuts = 3
INVARIANT TransfersHeld
