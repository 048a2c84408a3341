SPECIFICATION Spec
CONSTANTS
  n1 = n1
  n2 = n2
  t1 = t1
  t2 = t2
  Notifier = {n1, n2}
  Timer = {t1, t2}
  NoOne = NoOne
  Fd = {1, 2}
  Delay = {0, 1, 2}
  MaxLate = 2
  Programs <- MCPrograms
INVARIANTS
  OnePerFd
PROPERTIES
  NoneLeftBehind
  NoStaleEvent
  Served
