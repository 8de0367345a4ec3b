SPECIFICATION FairSpec
CONSTANTS
  Threads = {t1, t2}
  Nobody = nobody
PROPERTIES EndsWithoutFiles
CHECK_DEADLOCK FALSE
