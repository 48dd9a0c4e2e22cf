SPECIFICATION FairSpec
CONSTANTS
  human = human
  agent = agent
  system = system
  k1 = k1
  NoKey = NoKey
  NoOrigin = NoOrigin
  Free = Free
  Origins <- MCOrigins
  Events <- EventsPlain
  Exclude <- ExcludeAgent
  Writers = {w1}
  Consumers = {c1}
  Ports = {p1, p2}
  QueryFaults = TRUE
  AlienServers = FALSE
  MaxSeq = 1
  MaxFaults = 1
  MaxWire = 1
PROPERTIES EventuallyDelivered
