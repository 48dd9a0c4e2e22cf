SPECIFICATION Spec
CONSTANTS
  a1 = a1
  a2 = a2
  t1 = t1
  p1 = p1
  p2 = p2
  Agents = {a1, a2}
  TopLevel = TopLevel
  Type <- OneType
  Subbed = {a1, a2}
  Singleton = TRUE
  Greeting = FALSE
  Gated = FALSE
  Budget = 2
  Procs = {p1, p2}
  None = None
  MaxOps = 3
  MaxFaults = 1
SYMMETRY Symmetric
INVARIANTS
  TypeOK
  ParkNotMissed
  StrandedIsAnnounced
  LastRegistrationWins
  StartedBeforeSwept
