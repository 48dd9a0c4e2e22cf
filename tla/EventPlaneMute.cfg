SPECIFICATION Spec
CONSTANTS
  human = human
  agent = agent
  system = system
  k1 = k1
  NoKey = NoKey
  NoOrigin = NoOrigin
  Free = Free
  Origins <- MCOrigins
  Events <- EventsPlain
  Exclude <- ExcludeAgent
  Writers = {w1}
  Consumers = {c1}
  Ports = {p1}
  QueryFaults = FALSE
  AlienServers = FALSE
  MaxSeq = 2
  MaxFaults = 1
  MaxWire = 1
PROPERTIES MutedBacklogStaysMuted
