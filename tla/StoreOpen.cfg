SPECIFICATION FairSpec
CONSTANTS
  p1 = p1
  p2 = p2
  p3 = p3
  f1 = f1
  f2 = f2
  f3 = f3
  f4 = f4
  Procs = {p1, p2, p3}
  NoProc = NoProc
  Files = {f1, f2, f3}
  NoFile = NoFile
  MaxFaults = 1
INVARIANTS
  TypeOK
  AsideIsUnusable
  OneStore
  LosersRide
PROPERTIES
  Recovers
