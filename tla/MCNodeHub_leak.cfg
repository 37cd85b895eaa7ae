SPECIFICATION SafeSpec
CONSTANTS
  Node = {n1}
  Conn = {c1, c2}
  Request = {r1}
  MaxFaults = 1
  None = None
INVARIANT OnlineMeansActive
