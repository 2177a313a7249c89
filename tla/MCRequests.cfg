SPECIFICATION Spec
CONSTANTS
  MaxU64 = 7
  None = None
  Numas = {0, 1}
  Gpus = {0, 1}
  NoNuma = NoNuma
  Calls <- SmallCalls
CHECK_DEADLOCK FALSE
INVARIANTS AdmitsExactly NearestRead CopiesTheRange
PROPERTY RequestsEnd
