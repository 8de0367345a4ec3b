SPECIFICATION ThreadsSpec
CONSTANTS
  ReaderNum = 4
  WriterNum = 2
  Nobody = nobody
  Senders = {s1, s2, s3}
  Receivers = {r1, r2}
  Dim = 2
  MaxSends = 2
  N = 5
  NThreads = 3
  Values = {1, 2, 3}
  None = none
INVARIANTS MutualExclusion CountsReaders LockedWhileUsed UpdatesCounted
INVARIANTS RingAligned NoLostWakeup
INVARIANTS BordersAlone NoOvertaking SortedAtExit
PROPERTIES LibraryCloses ImplementsFifo Delivery SortingEnds
