SPECIFICATION Spec
CONSTANTS
  t1 = t1
  a1 = a1
  register = register
  Tenants = {t1}
  Addresses = {a1}
  Overridden = {register}
  Clients <- MCClients
  Requests = {r1, r2}
  DefaultLimit = 2
  OverrideLimit = 1
  WindowSeconds = 2
  NoTenant = NoTenant
  NoRoute = NoRoute
  NoClient = NoClient
INVARIANT HeadersOnEveryResponse
