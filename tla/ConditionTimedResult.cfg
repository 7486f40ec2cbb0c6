SPECIFICATION Spec
CONSTANTS
  NoThread = NoThread
  Threads = {w, n}
  Waiters = {w}
  Notifiers = {n}
  NotifyHolding = TRUE
  MaxDepth = 1
INVARIANTS TrueIfNotified
CHECK_DEADLOCK FALSE
