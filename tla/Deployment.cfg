SPECIFICATION MCSpec
CONSTANTS
  l1 = l1
  l2 = l2
  a1 = a1
  a2 = a2
  d1 = d1
  d2 = d2
  q1 = q1
  Launchers = {l1, l2}
  RuntimeBuild <- TwoReleases
  Wires <- OneOrTwo
  Nobody = Nobody
  Addrs = {a1, a2}
  NoAddr = NoAddr
  Domains = {d1, d2}
  NoDomain = NoDomain
  Peers = {q1}
  MaxInputs = 3
  MaxFaults = 1
INVARIANTS
  TypeOK
  HandshakeIsServed
PROPERTIES
  NoRollback
  LaunchersReturn
  CertRenewed
  LegsFollowAddresses
  ConnectionsEnd
CHECK_DEADLOCK FALSE
