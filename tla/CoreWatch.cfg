SPECIFICATION FairSpec
CONSTANTS
  p1 = p1
  p2 = p2
  x1 = x1
  x2 = x2
  watch = watch
  click = click
  Cores = {p1, p2}
  Links = {x1, x2}
  Callers = {watch, click}
  Watchdog = watch
  NoLink = NoLink
  NoCore = NoCore
  NoFile = NoFile
  Stale = Stale
  MaxFaults = 3
INVARIANTS
  TypeOK
  LinkIsKept
PROPERTIES
  SelfHeals
  NoOrphans
CHECK_DEADLOCK FALSE
