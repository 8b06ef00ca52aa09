SPECIFICATION FairSpec
CONSTANTS
  c1 = c1
  c2 = c2
  c3 = c3
  Connections = {c1, c2, c3}
  Faults = {"signal", "socket", "port", "accept", "thread", "reset"}
INVARIANTS
  TypeOK
  OutlivedByOneNew
PROPERTIES
  ServerWindsDown
  StopEnds
  FailedStartEnds
  BacklogIsServed
  CleanupGoesOn
CHECK_DEADLOCK FALSE
