SPECIFICATION Spec
CONSTANTS
  r1 = r1
  r2 = r2
  c1 = c1
  c2 = c2
  Runs = {r1, r2}
  Conns = {c1, c2}
  FailingRows = {r2}
  HookRuns = {}
  Lines = {"text"}
  MaxLines = 1
  Pausers = {}
  NoRun = NoRun
  NoConn = NoConn
  NoId = NoId
SYMMETRY ConnSymmetry
INVARIANTS
  RunIsStoppable
  NoGhostAgents
PROPERTIES
  ImplementsRegistry
CHECK_DEADLOCK FALSE
