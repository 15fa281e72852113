SPECIFICATION Spec
CONSTANTS
  r1 = r1
  r2 = r2
  c1 = c1
  c2 = c2
  Runs = {r1}
  Conns = {c1, c2}
  FailingRows = {}
  HookRuns = {r1}
  Lines = {"text", "info"}
  MaxLines = 1
  Pausers = {}
  NoRun = NoRun
  NoConn = NoConn
  NoId = NoId
INVARIANTS
  LiveRunsAreArmed
CHECK_DEADLOCK FALSE
