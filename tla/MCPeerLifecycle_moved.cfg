SPECIFICATION SafeSpec
CONSTANTS
  Worker = {w1}
  Peer = {p1}
  Node = {n1, n2}
  Config = {a}
  None = None
  Mixed = Mixed
  Operations = {"create", "edit", "save", "redeploy", "delete"}
  MaxLate = 0
  MaxRestarts = 0
INVARIANT MovedIsDeployed
CHECK_DEADLOCK FALSE
