SPECIFICATION FairSpec
CONSTANTS
  c1 = c1
  c2 = c2
  d1 = d1
  Conns = {c1, c2}
  Calls = {d1}
  Grace = 1
  Debounce = 2
  MaxFaults = 1
INVARIANTS
  TypeOK
  ConnectedIsSaid
  DisconnectedIsSaid
PROPERTIES
  StoreLent
  DrainSettles
  FlagSettles
