SPECIFICATION FairSpec
CONSTANTS
  c1 = c1
  c2 = c2
  Clients = {c1}
  RingCap = 2
  BufferCap = 2
  MaxEvents = 4
  MaxFrames = 2
  NotJoined = NotJoined
INVARIANTS
  TypeOK
  DropsAreCounted
  KeptUpMissesNothing
PROPERTIES
  ImplementsFeed
  EventsArrive
CHECK_DEADLOCK FALSE
