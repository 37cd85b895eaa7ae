SPECIFICATION Spec
CONSTANTS
  a = a
  b = b
  Task = {t1, t2}
  Node = {n1}
  Peer = {p1, p2}
  PeerLists <- AllLists
  Value = {a, b}
  Blank = b
  Inputs <- OneField
  Token = {k1, k2}
  Query = {q1, q2}
  None = None
SYMMETRY Symmetry
INVARIANTS
  TypeOK
  DataIsAnswers
  TapRunsItsQuery
PROPERTIES
  SendsWhatWasAnswered
