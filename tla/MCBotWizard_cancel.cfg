SPECIFICATION Spec
CONSTANTS
  a = a
  b = b
  Task = {t1}
  Node = {n1}
  Peer = {p1}
  PeerLists <- AllLists
  Value = {a, b}
  Blank = b
  Inputs <- OneField
  Token = {k1}
  Query = {q1}
  None = None
INVARIANTS
  CancelAborts
