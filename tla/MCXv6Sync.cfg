SPECIFICATION SyncSpec
CONSTANTS
  Procs = {p1, p2, p3}
  NSemMax = 2
  Counts = {0, 1}
  MaxCount = 2
  MaxDebt = 4
  None = none
  Parent = parent
  Children = {c1, c2}
  Count = 6
  CountLimit = 2
  NoProc = noproc
SYMMETRY Symmetry
INVARIANTS AllocatedOnce SleepersOwed EvenAboveZero MutexHeldByOne NoLostSignal
PROPERTIES PostWakesSleepers
CHECK_DEADLOCK FALSE
