SPECIFICATION FairSpec
CONSTANTS
  a1 = a1
  a2 = a2
  t1 = t1
  p1 = p1
  p2 = p2
  Agents = {a1}
  TopLevel = TopLevel
  Type <- OneType
  Subbed = {a1}
  Singleton = TRUE
  Greeting = TRUE
  Gated = TRUE
  Budget = 2
  Procs = {p1, p2}
  None = None
  MaxOps = 2
  MaxFaults = 1
INVARIANTS
  RefusalsBounded
PROPERTIES
  PromptRelease
  RegistrationCompletes
