SPECIFICATION Spec
CONSTANTS
  b1 = b1  b2 = b2  b3 = b3  b4 = b4
  Align = 2
  Capacity = 11
  Bufs <- MCBufs
  Requests = {1, 2, 3, 5}
INVARIANT ReportsExact
PROPERTY ImplementsExtentPool
