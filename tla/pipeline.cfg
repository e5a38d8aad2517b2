SPECIFICATION Spec
CONSTANTS
  Tenants = {A, B}
  Slugs = {s1, s2}
  Emails = {e}
  NoteIds = {n1}
  Requests = {h1, h2}
  Roles = {"member", "viewer"}
  MaxTokens = 2
  NoTenant = NoTenant
  None = None
SYMMETRY Symmetry
INVARIANTS
  TypeOK
  EndToEndIsolation
  RegisteredCanLogIn
  DirectoryTruthful
  RegistrationTruthful
  AuthorsMayWrite
