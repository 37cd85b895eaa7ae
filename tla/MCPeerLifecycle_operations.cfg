SPECIFICATION SafeSpec
CONSTANTS
  Worker = {w1, w2}
  Peer = {p1}
  Node = {n1, n2}
  Config = {a, b}
  None = None
  Mixed = Mixed
  Operations = {"create", "edit", "save", "redeploy", "delete"}
  MaxLate = 0
  MaxRestarts = 0
SYMMETRY Symmetry
INVARIANTS
  TypeOK
  DeployingIsInProgress
  QuietRowIsTrue
CHECK_DEADLOCK FALSE
