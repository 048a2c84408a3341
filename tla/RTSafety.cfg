SPECIFICATION Spec
CONSTANTS
  t1 = t1
  t2 = t2
  Timer = {t1, t2}
  Zap = {t2}
  Repeats = {t1}
  Unfit = {}
  MaxTime = 2
  Warps = {0}
  MaxJumps = 1
  Leads = {0, 1}
  Lengths = {1}
  Day = 2
  PrepareTime = 1
  Backoffs <- MCBackoffs
  MaxWaitTime = 2
  ShortWait = 1
  ClockSet = 1
  Keep = 1
  Faults <- RetryFaults
  Refused = FALSE
  Interleaved = TRUE
  NoTimer = NoTimer
INVARIANTS
  TypeOK
  EntryPlaced
  
  
  
  EntriesSaved
PROPERTY RecordsToTheEnd
