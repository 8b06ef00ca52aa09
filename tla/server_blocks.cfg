SPECIFICATION FairSpec
CONSTANTS
  c1 = c1
  c2 = c2
  c3 = c3
  Connections = {c1}
  Faults = {"signal"}
PROPERTIES
  StartEndsWithStop
CHECK_DEADLOCK FALSE
