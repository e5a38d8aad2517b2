SPECIFICATION Spec
CONSTANTS
  Users = {u1, u2}
  Roles = {r1, r2}
  Tokens = {t1, t2, t3}
  Requests = {h1, h2}
  RefreshTtl = 1
  MaxClock = 1
  NoToken = NoToken
  NoJwt = NoJwt
  NoRow = NoRow
  NoClaims = NoClaims
  Unsigned = Unsigned
  Gone = Gone
CHECK_DEADLOCK FALSE
SYMMETRY Symmetry
INVARIANTS
  TypeOK
  RotationAtomic
  DeliveredAuthentic
PROPERTIES
  OwnSessionsOnly
  ExchangesOverlap
  ImplementsLedger
