CONSTANTS
  p1 = p1 p2 = p2 c1 = c1 c2 = c2 v1 = v1 v2 = v2
  Threads <- Everyone
  Nobody = nobody
  NoValue = none
  RoleSets <- Programs
  Values <- Elements
  MaxPushes = 2
SPECIFICATION FairSpec
INVARIANTS NoLostWakeup
PROPERTIES ImplementsFifo EverythingIsTaken
CHECK_DEADLOCK FALSE
