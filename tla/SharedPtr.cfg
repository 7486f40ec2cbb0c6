SPECIFICATION FairSpec
CONSTANTS
  StrongVars = {x, y}
  WeakVars = {w}
  Objects = {a, b, c}
  Null = Null
  GuardsSelf = FALSE
  Careful = TRUE
INVARIANTS HandlesValid CountsExact NoLeak
PROPERTIES ImplementsOwnership
