SPECIFICATION FairSpec
CONSTANTS
  NoThread = NoThread
  Threads = {t1, t2, t3, t4}
  Limit = 3
  GroupValues = 3
INVARIANTS CountExact
PROPERTIES ImplementsBarrier
