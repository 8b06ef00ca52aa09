SPECIFICATION FairSpec
CONSTANTS
  alice = alice
  bob = bob
  n1 = n1
  n2 = n2
  m1 = m1
  m2 = m2
  p1 = p1
  p2 = p2
  Clients = {alice, bob}
  Viewers = {bob}
  Nodes = {n1, n2}
  Messages = {m1, m2}
  Author <- AliceWrites
  Ttl <- NoTtl
  ChatServers <- TwoServers
  ChatId = chat
  Polls = {p1}
  Faults = {}
  MaxTime = 2
PROPERTY SkippedOnlyUntilThere
