SPECIFICATION FairSpec
CONSTANTS
  NoThread = NoThread
  Threads = {w, n1, n2, n3}
  Waiters = {w}
  Notifiers = {n1, n2, n3}
  NotifyHolding = TRUE
  MaxDepth = 1
INVARIANTS HeldByTag NotifiesReach SleepersCounted
PROPERTIES ImplementsMonitor NotifiedWakes TimedWaitEnds
