SPECIFICATION Spec
CONSTANTS
  a = a
  b = b
  empty = empty
  Ids = {a, b, empty}
  MaxTasks = 3
INVARIANTS
  OrderIsRight
CHECK_DEADLOCK FALSE
