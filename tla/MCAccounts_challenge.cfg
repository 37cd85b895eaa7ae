SPECIFICATION Spec
CONSTANTS
  User = {u1}
  Asn = {a1}
  LocalAsn = a1
  Telegram = {t1}
  Token = {k1}
  Request = {r1, r2}
  None = None
INVARIANT ConsumedOnce
