SPECIFICATION FairSpec
CONSTANTS
  r1 = r1
  r2 = r2
  c1 = c1
  c2 = c2
  Runs = {r1}
  Conns = {c1, c2}
  FailingRows = {}
  HookRuns = {r1}
  Lines = {"text", "info"}
  MaxLines = 2
  Pausers = {c1, c2}
  NoRun = NoRun
  NoConn = NoConn
  NoId = NoId
INVARIANTS
  TypeOK
  DoneMeansGone
  ArchiveAheadOfWire
  LifecycleLog
PROPERTIES
  WireOrder
  StopTakesEffect
CHECK_DEADLOCK FALSE
