CONSTANTS
  Unknown = Unknown
  NoFile = NoFile
  Junk = Junk
  Failed = Failed
  Cases <- AllCases
  Page = 2
  CpuSetSize = 4
  MaxThreads = 3
  DefaultThreads = 3
SPECIFICATION Spec
INVARIANT HostSeenAlike HostNicsUsable RunsPinned PagesPlaced
PROPERTY JobsEnd
CHECK_DEADLOCK FALSE
