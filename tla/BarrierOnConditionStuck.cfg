SPECIFICATION FairSpec
CONSTANTS
  NoThread = NoThread
  Threads = {t1, t2}
  Limit = 2
  GroupValues = 2
PROPERTIES ThenProceed
CHECK_DEADLOCK FALSE
