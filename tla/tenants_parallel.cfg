SPECIFICATION Spec
CONSTANTS
  Tenants = {A, B}
  Emails = {e}
  NoteIds = {n1}
  Requests = {h1, h2}
  Conns = {c1, c2}
  NoTenant = NoTenant
  NoConn = NoConn
  NoRecord = NoRecord
SYMMETRY Symmetry
INVARIANTS
  TypeOK
  TenantIsolation
  AnswersTrue
  OneWinner
  ReadsAnsweredWrites
PROPERTY ImplementsStore
