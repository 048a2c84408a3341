SPECIFICATION FairSpec
CONSTANTS
  Program <- MCProgram
  Cached <- MCCached
  Kinds <- MCKinds
  Modes = {"file", "stream"}
  Faults = {"tune", "open", "thread", "write"}
  None = None
CHECK_DEADLOCK FALSE
INVARIANTS
  TypeOK
  RecorderMatches
  FiltersFollowPMT
PROPERTY RecordingBegins
