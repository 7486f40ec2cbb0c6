SPECIFICATION FairSpec
CONSTANTS
  Threads = {t1, t2, t3}
  TimedReaders = {}
  TimedWriters = {t1, t2, t3}
PROPERTIES ReadersAlerted
CHECK_DEADLOCK FALSE
