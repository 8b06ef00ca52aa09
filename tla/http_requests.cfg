SPECIFICATION Spec
CONSTANTS
  c1 = c1
  c2 = c2
  c3 = c3
  a1 = a1
  Connections = {c1, c2, c3}
  Address <- OneAddress
  Requests <- Offers
  Clients <- Callers
  Tokens = {"t"}
  HeadSize = 2
  MaxPayload = 2
  MaxRequest = 6
  Buffer = 3
  SizeLimit = 16
  MaxRequests = 2
  Window = 2
  MaxTime = 2
SYMMETRY Peers
INVARIANTS
  TypeOK
  OnlyWhatIsAsked
  WholeBodyHandled
  WindowsKeepLimit
  SoundIsAnswered
  NeverStuck
PROPERTIES
  ThreadsDwindle
CHECK_DEADLOCK FALSE
