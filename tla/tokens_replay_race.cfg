SPECIFICATION FSpec
CONSTANTS
  Users = {u1}
  Roles = {r1}
  Tokens = {t1, t2, t3}
  Requests = {h1, h2}
  RefreshTtl = 1
  MaxClock = 0
  NoToken = NoToken
  NoJwt = NoJwt
  NoRow = NoRow
  NoClaims = NoClaims
  Unsigned = Unsigned
  Gone = Gone
CHECK_DEADLOCK FALSE
INVARIANT ReplayRevokesFamily
