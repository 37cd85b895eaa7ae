SPECIFICATION Spec
CONSTANTS
  User = {u1, u2}
  Asn = {a1, a2}
  LocalAsn = a1
  Telegram = {t1, t2}
  Token = {k1}
  Request = {r1, r2}
  None = None
SYMMETRY Symmetry
INVARIANTS
  TypeOK
  OneUserPerAsn
  LinkIsProved
PROPERTIES
  OnlyTogglesOverrule
  ReplayIsRefused
