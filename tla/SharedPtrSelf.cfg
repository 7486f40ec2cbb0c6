SPECIFICATION Spec
CONSTANTS
  StrongVars = {x, y}
  WeakVars = {w}
  Objects = {a, b}
  Null = Null
  GuardsSelf = FALSE
  Careful = FALSE
INVARIANTS HandlesValid
CHECK_DEADLOCK FALSE
