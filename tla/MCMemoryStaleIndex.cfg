SPECIFICATION Spec
CONSTANTS
  k1 = k1  k2 = k2  c0 = c0  c1 = c1  c2 = c2  g0 = g0  r1 = r1
  NoRegion = NoRegion
  Keys = {k1, k2}
  Devices <- MCDevices
  Regions = {}
  Specs <- MixedSpecs
  DeviceOrder <- MCOrder
  Capacity <- SmallPools
  RegionDevice <- OnGpu
  PublishSrcs <- NoSrcs
  Removals <- AllRemovals
  MaxFifo <- ShortQueues
INVARIANT NeverPoisoned
