SPECIFICATION FairSpec
CONSTANTS
  Threads = {t1, t2, t3, t4}
  TimedReaders = {t1}
  TimedWriters = {t1, t2}
INVARIANTS Exclusion CountersExact SleepersAttended
PROPERTIES ReaderGetsIn SomeWriterGetsIn
CHECK_DEADLOCK FALSE
