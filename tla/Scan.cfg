SPECIFICATION FairSpec
CONSTANTS
  Air <- MCAir
  Param <- MCParam
  Initial <- MCInitial
  FlagSets <- MCFlagSets
  Faults = {"tune"}
  NoProgram = NoProgram
CHECK_DEADLOCK FALSE
INVARIANTS
  WalkSound
  ServicesSound
  Found
  ScannedOnce
PROPERTY ScanEnds
