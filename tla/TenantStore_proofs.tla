------------------------- MODULE TenantStore_proofs -------------------------
(***************************************************************************)
(* Transactions on pooled connections implement TenantStore: every step of *)
(* TenantTransaction is a step of the store or leaves it as it is.  The    *)
(* inductive invariant supplies what the steps themselves do not say: that *)
(* a statement runs under its own request's tenant, and that the keys of   *)
(* the rows a COMMIT stores are still free.                                *)
(***************************************************************************)
EXTENDS TenantTransaction_proofs

\* A step after which every request is in the tenant it was in, with the rows it had read.
LEMMA Stutters ==
  ASSUME UNCHANGED <<users, notes>>,
         \A k \in Requests : req'[k].tenant = req[k].tenant /\ req'[k].seen = req[k].seen
  PROVE  UNCHANGED TenantTables!store
<1>1. /\ [k \in Requests |-> req'[k].tenant] = [k \in Requests |-> req[k].tenant]
      /\ [k \in Requests |-> req'[k].seen] = [k \in Requests |-> req[k].seen]
  OBVIOUS
<1>2. QED
  BY <1>1 DEF TenantTables!store

\* What the others and h make of the abstract variables.
LEMMA Moves ==
  ASSUME IInv, NEW h \in Requests, NEW s, req' = [req EXCEPT ![h] = s]
  PROVE  /\ [k \in Requests |-> req'[k].tenant] =
              [[k \in Requests |-> req[k].tenant] EXCEPT ![h] = s.tenant]
         /\ [k \in Requests |-> req'[k].seen] =
              [[k \in Requests |-> req[k].seen] EXCEPT ![h] = s.seen]
         /\ \A k \in Requests \ {h} : req'[k] = req[k]
         /\ req'[h] = s
BY DEF IInv, TypeOK

LEMMA Rows ==
  ASSUME IInv, NEW h \in Requests
  PROVE  /\ req[h] \in Handler /\ HandlerInv(h)
         /\ req[h].seen \subseteq User \cup Note
         /\ req[h].tenant = NoTenant => req[h].seen = {}
         /\ req[h].op # "untenanted" => req[h].tenant \in Tenants /\ req[h].tenant # NoTenant
<1>1. req[h] \in Handler /\ HandlerInv(h)
  BY Typed
<1>2. req[h].seen \subseteq User \cup Note
  BY <1>1 DEF Handler
<1>3. \A row \in req[h].seen : row.tenant = req[h].tenant /\ row.tenant # NoTenant
  BY <1>1, <1>2, RowFields, NullAssumption DEF HandlerInv, Reads
<1>4. req[h].op # "untenanted" => req[h].tenant \in Tenants /\ req[h].tenant # NoTenant
  BY <1>1, NullAssumption DEF Handler, HandlerInv, Carries
<1>5. QED
  BY <1>1, <1>2, <1>3, <1>4

\* Storing a request's pending row adds it to the request's own tenant.
LEMMA StoreAdds ==
  ASSUME IInv, NEW h \in Requests, At(h, "commit"), Store(req[h].pending),
         \A k \in Requests : req'[k].tenant = req[k].tenant /\ req'[k].seen = req[k].seen
  PROVE  TenantTables!Next \/ UNCHANGED TenantTables!store
<1> DEFINE row == req[h].pending
<1>1. req[h] \in Handler /\ HandlerInv(h) /\ row \in User \cup Note \cup {NoRecord}
  BY Typed DEF Handler
<1>2. /\ [k \in Requests |-> req'[k].tenant] = [k \in Requests |-> req[k].tenant]
      /\ [k \in Requests |-> req'[k].seen] = [k \in Requests |-> req[k].seen]
  OBVIOUS
<1>3. CASE row = NoRecord
  BY <1>3, StoreNothing, Stutters
<1>4. ASSUME row # NoRecord
      PROVE  /\ OwnRow(h) /\ row \notin users
             /\ row \in Note => \A other \in notes : other.id # row.id
             /\ req[h].op # "untenanted" /\ req[h].tenant \in Tenants /\ req[h].tenant # NoTenant
  <2>1. OwnRow(h) /\ row \notin users /\ (row \in Note => \A other \in notes : other.id # row.id)
    BY <1>1, <1>4 DEF HandlerInv, Writes
  <2>2. req[h].op # "untenanted"
    BY <2>1 DEF OwnRow
  <2>3. QED
    BY <2>1, <2>2, Rows
<1>5. CASE row \in User
  <2>1. row # NoRecord /\ row \notin Note
    BY <1>5, RowKinds
  <2>2. /\ users' = users \cup {row} /\ notes' = notes
        /\ row = [tenant |-> req[h].tenant, email |-> row.email] /\ row.email \in Emails
    BY <1>4, <1>5, <2>1, RowFields DEF Store, OwnRow
  <2>3. TenantTables!AddUser(h, row.email)
    BY <1>2, <1>4, <2>1, <2>2 DEF TenantTables!AddUser
  <2>4. QED
    BY <2>2, <2>3 DEF TenantTables!Next
<1>6. CASE row \in Note
  <2>1. row # NoRecord /\ row \notin User
    BY <1>6, RowKinds
  <2>2. /\ notes' = notes \cup {row} /\ users' = users
        /\ row = [tenant |-> req[h].tenant, id |-> row.id] /\ row.id \in NoteIds
    BY <1>4, <1>6, <2>1, RowFields DEF Store, OwnRow
  <2>3. TenantTables!AddNote(h, row.id)
    BY <1>2, <1>4, <1>6, <2>1, <2>2 DEF TenantTables!AddNote
  <2>4. QED
    BY <2>2, <2>3 DEF TenantTables!Next
<1>7. QED
  BY <1>1, <1>3, <1>5, <1>6

LEMMA RequestMaps ==
  ASSUME IInv, NEW h \in Requests, Request(h)
  PROVE  TenantTables!Next \/ UNCHANGED TenantTables!store
<1>1. ASSUME NEW op, NEW t \in Tenants \cup {NoTenant}, NEW e, Arrive(h, op, t, e)
      PROVE  TenantTables!Next \/ UNCHANGED TenantTables!store
  <2> DEFINE s == [Idle EXCEPT !.pc = "queue", !.op = op, !.tenant = t, !.email = e,
                     !.known = {row \in told \cap Note : row.tenant = t}]
  <2>1. req[h] = Idle /\ req[h].tenant = NoTenant /\ req[h].seen = {}
    BY <1>1, Typed, IdleHandler DEF Arrive, HandlerInv, Carries
  <2>2. req' = [req EXCEPT ![h] = s] /\ UNCHANGED <<users, notes>>
    BY <1>1 DEF Arrive
  <2>3. s.tenant = t /\ s.seen = {}
    BY IdleHandler DEF Handler
  <2> HIDE DEF s
  <2>4. CASE t = NoTenant
    BY <2>1, <2>2, <2>3, <2>4, Moves, Stutters
  <2>5. CASE t \in Tenants
    <3>1. \A k \in Requests : req'[k].seen = req[k].seen
      BY <2>1, <2>2, <2>3, Moves
    <3>2. [k \in Requests |-> req'[k].seen] = [k \in Requests |-> req[k].seen]
      BY <3>1
    <3>3. [k \in Requests |-> req'[k].tenant] = [[k \in Requests |-> req[k].tenant] EXCEPT ![h] = t]
      BY <2>2, <2>3, Moves
    <3>4. TenantTables!Enter(h, t)
      BY <2>1, <2>2, <3>2, <3>3 DEF TenantTables!Enter
    <3>5. QED
      BY <2>5, <3>4 DEF TenantTables!Next
  <2>6. QED
    BY <2>4, <2>5
<1>2. QED
  BY <1>1 DEF Request

LEMMA FindByEmailMaps ==
  ASSUME IInv, NEW h \in Requests, FindByEmail(h)
  PROVE  TenantTables!Next
<1> DEFINE found == {u \in Visible(h, users) : u.email = req[h].email}
           s     == [req[h] EXCEPT !.pc = "commit", !.seen = found]
<1>1. /\ req[h] \in Handler /\ HandlerInv(h) /\ req[h].pc = "work"
      /\ req[h].op \in {"register", "login"} /\ req[h].email \in Emails
      /\ req[h].tenant # NoTenant /\ ~req[h].inserting
  BY Rows DEF FindByEmail, At, HandlerInv, Carries
<1>2. req' = [req EXCEPT ![h] = s] /\ UNCHANGED <<users, notes>>
  BY <1>1 DEF FindByEmail, IInv, TypeOK
<1>3. Conn(h).tenant = req[h].tenant
  BY <1>1 DEF HandlerInv, Connected, StoresToken, At
<1>4. found = {u \in {row \in users : row.tenant = req[h].tenant} : u.email = req[h].email}
  BY <1>3 DEF Visible
<1> HIDE DEF found
<1>5. s.tenant = req[h].tenant /\ s.seen = found
  BY <1>1 DEF Handler
<1> HIDE DEF s
<1>6. /\ [k \in Requests |-> req'[k].seen] = [[k \in Requests |-> req[k].seen] EXCEPT ![h] = found]
      /\ \A k \in Requests : req'[k].tenant = req[k].tenant
  BY <1>2, <1>5, Moves
<1>7. [k \in Requests |-> req'[k].tenant] = [k \in Requests |-> req[k].tenant]
  BY <1>6
<1>8. PICK e \in Emails : e = req[h].email
  BY <1>1
<1>9. TenantTables!FindUser(h, e)
  BY <1>1, <1>2, <1>4, <1>6, <1>7, <1>8 DEF TenantTables!FindUser, TenantTables!Owned
<1>10. QED
  BY <1>9 DEF TenantTables!Next

LEMMA FindNotesMaps ==
  ASSUME IInv, NEW h \in Requests, FindNotes(h)
  PROVE  TenantTables!Next
<1> DEFINE found == Visible(h, notes)
           s     == [req[h] EXCEPT !.pc = "commit", !.seen = found]
<1>1. /\ req[h] \in Handler /\ HandlerInv(h) /\ req[h].pc = "work"
      /\ req[h].op = "listNotes" /\ req[h].tenant # NoTenant
  BY Rows DEF FindNotes, Working, At
<1>2. req' = [req EXCEPT ![h] = s] /\ UNCHANGED <<users, notes>>
  BY <1>1 DEF FindNotes, IInv, TypeOK
<1>3. Conn(h).tenant = req[h].tenant
  BY <1>1 DEF HandlerInv, Connected, StoresToken, At
<1>4. found = {row \in notes : row.tenant = req[h].tenant}
  BY <1>3 DEF Visible
<1> HIDE DEF found
<1>5. s.tenant = req[h].tenant /\ s.seen = found
  BY <1>1 DEF Handler
<1> HIDE DEF s
<1>6. /\ [k \in Requests |-> req'[k].seen] = [[k \in Requests |-> req[k].seen] EXCEPT ![h] = found]
      /\ \A k \in Requests : req'[k].tenant = req[k].tenant
  BY <1>2, <1>5, Moves
<1>7. [k \in Requests |-> req'[k].tenant] = [k \in Requests |-> req[k].tenant]
  BY <1>6
<1>8. TenantTables!FindNotes(h)
  BY <1>1, <1>2, <1>4, <1>6, <1>7 DEF TenantTables!FindNotes, TenantTables!Owned
<1>9. QED
  BY <1>8 DEF TenantTables!Next

\* On a connection without a tenant no row is read: nothing happens to the store.
LEMMA UntenantedMaps ==
  ASSUME IInv, NEW h \in Requests, Untenanted(h)
  PROVE  UNCHANGED TenantTables!store
<1> DEFINE found == Visible(h, users \cup notes)
           s     == [req[h] EXCEPT !.pc = "release", !.seen = found]
<1>1. /\ req[h] \in Handler /\ req[h].tenant = NoTenant /\ req[h].seen = {}
      /\ Conn(h).tenant = NoTenant
  BY Rows, SessionFields DEF Untenanted, Working, HandlerInv, Carries, Connected
<1>2. req' = [req EXCEPT ![h] = s] /\ UNCHANGED <<users, notes>>
  BY <1>1 DEF Untenanted, IInv, TypeOK
<1>3. \A row \in users \cup notes : row.tenant # NoTenant
  BY RowFields, NullAssumption DEF IInv, TypeOK
<1>4. found = {}
  BY <1>1, <1>3 DEF Visible
<1> HIDE DEF found
<1>5. s.tenant = NoTenant /\ s.seen = {}
  BY <1>1, <1>4 DEF Handler
<1> HIDE DEF s
<1>6. QED
  BY <1>1, <1>2, <1>5, Moves, Stutters

LEMMA ReplyMaps ==
  ASSUME IInv, NEW h \in Requests, Reply(h)
  PROVE  TenantTables!Next
<1>1. req' = [req EXCEPT ![h] = Idle] /\ UNCHANGED <<users, notes>>
  BY DEF Reply
<1>2. /\ [k \in Requests |-> req'[k].tenant]
           = [[k \in Requests |-> req[k].tenant] EXCEPT ![h] = NoTenant]
      /\ [k \in Requests |-> req'[k].seen] = [[k \in Requests |-> req[k].seen] EXCEPT ![h] = {}]
  <2>1. Idle.tenant = NoTenant /\ Idle.seen = {}
    BY IdleHandler
  <2>2. /\ [k \in Requests |-> req'[k].tenant] =
              [[k \in Requests |-> req[k].tenant] EXCEPT ![h] = Idle.tenant]
        /\ [k \in Requests |-> req'[k].seen] =
              [[k \in Requests |-> req[k].seen] EXCEPT ![h] = Idle.seen]
    BY <1>1, Moves, Zenon
  <2>3. QED
    BY <2>1, <2>2, Zenon
<1>3. TenantTables!Leave(h)
  BY <1>1, <1>2 DEF TenantTables!Leave
<1>4. QED
  BY <1>3 DEF TenantTables!Next

\* The steps between them change neither the tables nor what a request has read.
LEMMA OthersMap ==
  ASSUME IInv, NEW h \in Requests,
         \/ \E c \in Conns : Connect(h, c)
         \/ Begin(h) \/ Configure(h) \/ InsertUser(h) \/ UniqueViolation(h)
         \/ \E id \in NoteIds : InsertNote(h, id)
         \/ StoreToken(h) \/ Rollback(h) \/ HashPassword(h) \/ ComparePassword(h)
         \/ AcquireFails(h) \/ StatementFails(h)
  PROVE  UNCHANGED TenantTables!store
<1>1. req[h] \in Handler /\ req \in [Requests -> Handler]
  BY DEF IInv, TypeOK
<1>2. UNCHANGED <<users, notes>>
  BY DEF Connect, Begin, Configure, InsertUser, UniqueViolation, InsertNote, StoreToken,
         Rollback, HashPassword, ComparePassword, AcquireFails, StatementFails
<1>3. \A k \in Requests : req'[k].tenant = req[k].tenant /\ req'[k].seen = req[k].seen
  <2>1. CASE \E c \in Conns : Connect(h, c)
    <3>1. PICK c \in Conns : Connect(h, c)
      BY <2>1
    <3>2. QED
      BY <1>1, <3>1 DEF Connect, Handler
  <2>2. CASE Begin(h) \/ Configure(h)
    BY <1>1, <2>2 DEF Begin, Configure, Handler
  <2>3. CASE InsertUser(h)
    BY <1>1, <2>3 DEF InsertUser, Handler
  <2>4. CASE \E id \in NoteIds : InsertNote(h, id)
    <3>1. PICK id \in NoteIds : InsertNote(h, id)
      BY <2>4
    <3> DEFINE row == [tenant |-> req[h].tenant, id |-> id]
               s   == [req[h] EXCEPT !.pc = "commit", !.pending = row]
    <3>2. req' = [req EXCEPT ![h] = s]
      BY <1>1, <3>1 DEF InsertNote
    <3> HIDE DEF row
    <3>3. s.tenant = req[h].tenant /\ s.seen = req[h].seen
      BY <1>1 DEF Handler
    <3> HIDE DEF s
    <3>4. QED
      BY <3>2, <3>3, Moves
  <2>5. CASE UniqueViolation(h)
    BY <1>1, <2>5 DEF UniqueViolation, Handler
  <2>6. CASE StoreToken(h) \/ Rollback(h) \/ HashPassword(h)
    BY <1>1, <2>6 DEF StoreToken, Rollback, HashPassword, Handler
  <2>7. CASE ComparePassword(h) \/ AcquireFails(h)
    <3> DEFINE Answered(status) == [req[h] EXCEPT !.pc = "reply", !.status = status]
               again == [req[h] EXCEPT !.pc = "queue", !.inserting = TRUE]
    <3>1. \/ \E status : req' = [req EXCEPT ![h] = Answered(status)]
          \/ req' = [req EXCEPT ![h] = again]
      <4>1. CASE ComparePassword(h)
        <5>1. \/ req' = [req EXCEPT ![h] = Answered(401)]
              \/ req' = [req EXCEPT ![h].pc = "queue", ![h].inserting = TRUE]
          BY <4>1, Zenon DEF ComparePassword
        <5>2. [req EXCEPT ![h].pc = "queue", ![h].inserting = TRUE] = [req EXCEPT ![h] = again]
          BY <1>1
        <5> HIDE DEF Answered, again
        <5>3. QED
          BY <5>1, <5>2
      <4>2. CASE AcquireFails(h)
        <5>1. PICK status \in {500, 503} : req' = [req EXCEPT ![h] = Answered(status)]
          BY <4>2, Zenon DEF AcquireFails
        <5> HIDE DEF Answered, again
        <5>2. QED
          BY <5>1
      <4>3. QED
        BY <2>7, <4>1, <4>2
    <3>2. /\ \A status : /\ Answered(status).tenant = req[h].tenant
                         /\ Answered(status).seen = req[h].seen
          /\ again.tenant = req[h].tenant /\ again.seen = req[h].seen
      BY <1>1 DEF Handler
    <3> HIDE DEF Answered, again
    <3>3. CASE \E status : req' = [req EXCEPT ![h] = Answered(status)]
      BY <3>2, <3>3, Moves
    <3>4. CASE req' = [req EXCEPT ![h] = again]
      BY <3>2, <3>4, Moves
    <3>5. QED
      BY <3>1, <3>3, <3>4
  <2>8. CASE StatementFails(h)
    BY <1>1, <2>8 DEF StatementFails, Handler
  <2>9. QED
    BY <2>1, <2>2, <2>3, <2>4, <2>5, <2>6, <2>7, <2>8
<1>4. QED
  BY <1>2, <1>3, Stutters

LEMMA ReleaseMaps ==
  ASSUME IInv, NEW h \in Requests, Release(h)
  PROVE  UNCHANGED TenantTables!store
<1>1. req[h] \in Handler /\ req[h].pc = "release"
  BY Typed DEF Release, At
<1>2. PICK pc \in {"hash", "reply"}, st \in Statuses : Outcome(h) = GivenBack(req[h], pc, st)
  BY <1>1, Outcomes
<1> DEFINE s == GivenBack(req[h], pc, st)
<1>3. s.tenant = req[h].tenant /\ s.seen = req[h].seen
  <2>1. pc \in Pcs
    BY DEF Pcs
  <2>2. QED
    BY <1>1, <2>1, GivenBackFields
<1>4. req' = [req EXCEPT ![h] = s] /\ UNCHANGED <<users, notes>>
  BY <1>2 DEF Release
<1> HIDE DEF s
<1>5. QED
  BY <1>3, <1>4, Moves, Stutters

\* The COMMIT is where a request's row enters the store, whether or not the connection
\* survives it.
LEMMA CommitMaps ==
  ASSUME IInv, NEW h \in Requests, Commit(h) \/ ConnectionLost(h)
  PROVE  TenantTables!Next \/ UNCHANGED TenantTables!store
<1>1. req \in [Requests -> Handler]
  BY DEF IInv, TypeOK
<1>2. \A k \in Requests : req'[k].tenant = req[k].tenant /\ req'[k].seen = req[k].seen
  <2>1. CASE Commit(h)
    BY <1>1, <2>1 DEF Commit, Handler
  <2>2. CASE ConnectionLost(h)
    BY <1>1, <2>2 DEF ConnectionLost, Handler
  <2>3. QED
    BY <2>1, <2>2
<1>3. Store(NoRecord) \/ (At(h, "commit") /\ Store(req[h].pending))
  BY DEF Commit, ConnectionLost
<1>4. QED
  BY <1>2, <1>3, StoreNothing, Stutters, StoreAdds

----------------------------------------------------------------------------

LEMMA InitMaps == Init => TenantTables!Init
<1> SUFFICES ASSUME Init PROVE TenantTables!Init
  OBVIOUS
<1>1. /\ [k \in Requests |-> req[k].tenant] = [k \in Requests |-> NoTenant]
      /\ [k \in Requests |-> req[k].seen] = [k \in Requests |-> {}]
  BY IdleHandler DEF Init
<1>2. QED
  BY <1>1 DEF Init, TenantTables!Init

LEMMA NextMaps ==
  IInv /\ [Next]_vars => [TenantTables!Next]_(TenantTables!store)
<1> SUFFICES ASSUME IInv, [Next]_vars
             PROVE  TenantTables!Next \/ UNCHANGED TenantTables!store
  OBVIOUS
<1>1. CASE UNCHANGED vars
  BY <1>1, Stutters DEF vars
<1>2. ASSUME NEW h \in Requests, Request(h) \/ Step(h) \/ Fault(h)
      PROVE  TenantTables!Next \/ UNCHANGED TenantTables!store
  <2>1. CASE Request(h)
    BY <2>1, RequestMaps
  <2>2. CASE Step(h)
    BY <2>2, FindByEmailMaps, FindNotesMaps, UntenantedMaps, ReplyMaps, OthersMap, ReleaseMaps,
       CommitMaps DEF Step
  <2>3. CASE Fault(h)
    BY <2>3, OthersMap, CommitMaps DEF Fault
  <2>4. QED
    BY <1>2, <2>1, <2>2, <2>3
<1>3. QED
  BY <1>1, <1>2 DEF Next

\* Statements that name no tenant, on connections that requests share, add up to a store
\* in which every request reads and writes its own tenant's rows only.
THEOREM StoreImplemented == Spec => ImplementsStore
<1>1. Spec => []IInv
  BY InductiveInvariant
<1>2. QED
  BY InitMaps, NextMaps, <1>1, PTL DEF Spec, ImplementsStore, TenantTables!Spec

=============================================================================
