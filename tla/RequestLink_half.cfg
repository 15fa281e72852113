SPECIFICATION Spec
CONSTANTS
  k1 = k1
  k2 = k2
  Calls = {k1, k2}
  Commits = {k2}
  SendBuffer = 1
  NoCall = NoCall
INVARIANTS
  NoHalfWrite
CHECK_DEADLOCK FALSE
