SPECIFICATION FileSpec
CONSTANTS
  Size = 20
  margin = 3
  MaxByte = 38
  Batch = 2
  Low = 9
  MaxRead = 5
  Cap = 9
  Streams <- MCStreams
INVARIANTS
  Queue
  GetYields
  HandedOnInOrder
  DescrambledOnce
