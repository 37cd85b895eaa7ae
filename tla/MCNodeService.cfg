SPECIFICATION Spec
CONSTANTS
  Job = {j1, j2}
  Name = {p1, p2}
  Config = {a}
  None = None
  Mixed = Mixed
  MaxConcurrency = 1
  Reload = TRUE
SYMMETRY Symmetry
INVARIANTS
  TypeOK
  SettledAgree
  SlotsInUse
PROPERTIES
  DeployIsTrue
  ImplementsStore
  ChangesEnd
