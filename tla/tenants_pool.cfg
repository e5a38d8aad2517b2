SPECIFICATION FairSpec
CONSTANTS
  Tenants = {A,B}
  Emails = {e}
  NoteIds = {}
  Requests = {h1,h2}
  Conns = {c1}
  NoTenant = NoTenant
  NoConn = NoConn
  NoRecord = NoRecord
INVARIANTS NothingLeaks ConnectionsAccounted NoHoldAndWait
PROPERTY EveryRequestAnswered
