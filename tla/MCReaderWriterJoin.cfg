SPECIFICATION Spec
CONSTANTS
  ReaderNum = 4
  WriterNum = 2
  Nobody = nobody
INVARIANTS WaitsForAllThreads
