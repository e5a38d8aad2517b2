---------------------------- MODULE TenantStore ----------------------------
(***************************************************************************)
(* What the tenant-scoped tables promise to the code above them, without   *)
(* connections, sessions or transactions: a request that has entered a     *)
(* tenant adds rows to that tenant only, and sees that tenant's rows, all  *)
(* of them, as they were at one instant.                                   *)
(***************************************************************************)
CONSTANTS Tenants, Emails, NoteIds, Requests, NoTenant

VARIABLES
  users, notes,   \* the rows
  tenantOf,       \* the tenant each request has entered, or NoTenant
  view            \* the rows each request has read

store == <<users, notes, tenantOf, view>>

Owned(h, table) == {row \in table : row.tenant = tenantOf[h]}

Init ==
  /\ users = {} /\ notes = {}
  /\ tenantOf = [h \in Requests |-> NoTenant]
  /\ view = [h \in Requests |-> {}]

Enter(h, t) ==
  /\ tenantOf[h] = NoTenant
  /\ tenantOf' = [tenantOf EXCEPT ![h] = t]
  /\ UNCHANGED <<users, notes, view>>

\* The new row's key must be free: (tenant, email), and the note's id.
AddUser(h, e) ==
  LET row == [tenant |-> tenantOf[h], email |-> e] IN
  /\ tenantOf[h] # NoTenant /\ row \notin users
  /\ users' = users \cup {row}
  /\ UNCHANGED <<notes, tenantOf, view>>

AddNote(h, id) ==
  /\ tenantOf[h] # NoTenant /\ \A row \in notes : row.id # id
  /\ notes' = notes \cup {[tenant |-> tenantOf[h], id |-> id]}
  /\ UNCHANGED <<users, tenantOf, view>>

FindUser(h, e) ==
  /\ tenantOf[h] # NoTenant
  /\ view' = [view EXCEPT ![h] = {row \in Owned(h, users) : row.email = e}]
  /\ UNCHANGED <<users, notes, tenantOf>>

FindNotes(h) ==
  /\ tenantOf[h] # NoTenant
  /\ view' = [view EXCEPT ![h] = Owned(h, notes)]
  /\ UNCHANGED <<users, notes, tenantOf>>

Leave(h) ==
  /\ tenantOf' = [tenantOf EXCEPT ![h] = NoTenant]
  /\ view' = [view EXCEPT ![h] = {}]
  /\ UNCHANGED <<users, notes>>

Next == \E h \in Requests :
  \/ \E t \in Tenants : Enter(h, t)
  \/ \E e \in Emails : AddUser(h, e) \/ FindUser(h, e)
  \/ \E id \in NoteIds : AddNote(h, id)
  \/ FindNotes(h) \/ Leave(h)

Spec == Init /\ [][Next]_store

=============================================================================
