SPECIFICATION Spec
CONSTANTS
  Program <- MCProgram
  Cached <- MCCached
  Kinds <- MCKinds
  Modes = {"file"}
  Faults = {"write"}
  None = None
CHECK_DEADLOCK FALSE
PROPERTY RecordedIsKept
