SPECIFICATION Spec
CONSTANTS
  Conn = {c1, c2}
  Worker = {w1}
  Key = {k1, k2}
  None = None
  Gone = Gone
  MaxFaults = 1
SYMMETRY Symmetry
INVARIANTS
  TypeOK
  NoOrphanPeer
PROPERTIES
  ColumnsHaveOneWriter
  KeyCatchesUp
CHECK_DEADLOCK FALSE
