SPECIFICATION SSpec
CONSTANTS
  Users = {u1}
  Roles = {r1, r2}
  Tokens = {t1, t2, t3}
  Requests = {h1}
  RefreshTtl = 2
  MaxClock = 3
  NoToken = NoToken
  NoJwt = NoJwt
  NoRow = NoRow
  NoClaims = NoClaims
  Unsigned = Unsigned
  Gone = Gone
CHECK_DEADLOCK FALSE
INVARIANT ClaimsStaleAtMostTtl
