SPECIFICATION Spec
CONSTANTS
  Worker = {w1, w2}
  Peer = {p1, p2}
  Node = {n1}
  Config = {a}
  None = None
  Mixed = Mixed
  Operations = {"create", "delete"}
  MaxLate = 1
  MaxRestarts = 1
INVARIANTS
  OnePeerPerNode
  QuietRowIsTrue
PROPERTIES
  DeployingEnds
CHECK_DEADLOCK FALSE
