SPECIFICATION FairSpec
CONSTANTS
  N = 3
  Variants = {TRUE, FALSE}
  Faults <- AllFaults
  MaxChunk = 5
  Hole = Hole
CHECK_DEADLOCK FALSE
INVARIANTS
  BufferIsFree
PROPERTIES
  WritesInPlace
  StopReturns
  LifeCycle
