SPECIFICATION LabSpec
CONSTANTS
  Procs = {p1, p2}
  BufLen = 2
  Counts = {1, 2, 3}
  Threads = {t1, t2}
  Nobody = nobody
  Clients = {c1, c2}
  Main = main
  MaxReads = 2
  Values = {1, 2}
  Unit = 4
  K = 3
  Sizes <- MCSizes
  Vectors <- MCVectors
  Matrices <- MCMatrices
INVARIANTS PrintsMatrixProduct
CHECK_DEADLOCK FALSE
