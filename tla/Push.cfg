SPECIFICATION FairSpec
CONSTANT MaxSeek = 4
CHECK_DEADLOCK FALSE
INVARIANTS
  NoStaleData
 
