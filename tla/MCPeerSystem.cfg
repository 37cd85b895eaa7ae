SPECIFICATION SafeSpec
CONSTANTS
  Worker = {w1, w2}
  Peer = {p1}
  Node = {n1}
  Config = {a}
  None = None
  Mixed = Mixed
  Operations = {"create", "redeploy", "delete"}
  MaxRestarts = 1
  Request = {r1, r2}
SYMMETRY Symmetry
INVARIANTS
  TypeOK
  QuietRowIsTrue
PROPERTIES
  ImplementsLifecycle
CHECK_DEADLOCK FALSE
