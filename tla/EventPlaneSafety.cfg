SPECIFICATION Spec
CONSTANTS
  human = human
  agent = agent
  system = system
  k1 = k1
  NoKey = NoKey
  NoOrigin = NoOrigin
  Free = Free
  Origins <- MCOrigins
  Events <- EventsMost
  Exclude <- ExcludeAgent
  Writers = {w1, w2}
  Consumers = {c1}
  Ports = {p1}
  QueryFaults = TRUE
  AlienServers = TRUE
  MaxSeq = 2
  MaxFaults = 1
  MaxWire = 1
SYMMETRY WriterSymmetry
INVARIANTS TypeOK GapFreeLog NoSkip NoLostWakeup NoNeedlessRedelivery
PROPERTIES AppendOnly CursorsNeverRegress ImplementsDelivery
