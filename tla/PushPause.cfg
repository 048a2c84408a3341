SPECIFICATION FairSpec
CONSTANT MaxSeek = 2
CHECK_DEADLOCK FALSE
PROPERTY PauseReturns
