SPECIFICATION ClientSpec
CONSTANTS
  k1 = k1
  k2 = k2
  Calls = {k1, k2}
  Commits = {k2}
  SendBuffer = 1
  NoCall = NoCall
INVARIANTS
  TypeOK
  ResumedOnce
  NobodyLeftWaiting
PROPERTIES
  ImplementsRemoteCall
  CallersReturn
  RequestsTakenUp
CHECK_DEADLOCK FALSE
