SPECIFICATION Spec
CONSTANTS
  Node = {n1}
  Conn = {c1, c2, c3}
  Request = {r1}
  MaxFaults = 1
  None = None
INVARIANTS
  TypeOK
  OnlineIffRegistered
  SupersededIsClosed
  PendingOnlyOnCurrent
  NoStrandedRequest
PROPERTIES
  OnlyOwnHandlerTakesOffline
  ImplementsRPC
  RequestsFinish
  EventuallyServed
