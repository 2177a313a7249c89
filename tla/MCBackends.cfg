SPECIFICATION BothSpec
CONSTANTS
  k1 = k1  k2 = k2  c0 = c0  c1 = c1  g0 = g0  r1 = r1
  p1 = p1  t1 = t1  t2 = t2
  NoRegion = NoRegion  NoRead = NoRead
  Keys = {k1, k2}
  Devices <- MCDevices
  Regions = {r1}
  Specs <- MixedSpecs
  PoolOrder <- TwoPools
  Capacity <- SmallPools
  RegionDevice <- OnGpu
  PublishSrcs <- OneRegion
  Removals <- EachKey
  RemoveDuringPut = FALSE
  CopyFaults = {"midway"}
  Putters = {p1}
  Getters = {t1, t2}
  MaxPuts = 3
  MaxRead = 1
  QueueBound = 20
SYMMETRY Readers
INVARIANTS SameAnswers OneOwner ExternalReplicasLive
