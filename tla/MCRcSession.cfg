SPECIFICATION Spec
CONSTANTS
  b1 = b1  b2 = b2  b3 = b3
  Batches = {b1, b2, b3}
  Ops <- Lengths
  Oversize <- ThirdTooLong
  MaxSendWr = 3
  MaxChain = 2
  Faults = {"wire", "poll"}
INVARIANTS OkMeansMoved AnsweredIsQuiet QueueSuffices
PROPERTIES AllAnswered NoThreadLeak
