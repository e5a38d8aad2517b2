------------------------- MODULE TenantTransaction -------------------------
(***************************************************************************)
(* TenantTransaction.run and the requests built from it: registration,     *)
(* login, creating a note, listing notes, and requests that use the pool   *)
(* without a tenant (the tenant directory, health, refresh and logout).    *)
(* They share pg's connection pool, the session settings of its            *)
(* connections, and the users and tenant_notes tables, whose row-level     *)
(* security policies compare tenant_id with app.current_tenant_id.         *)
(*                                                                         *)
(* A registration and a login are two transactions with bcrypt between     *)
(* them, each on a connection of its own; every other request is one.      *)
(* Writes to the two tables stay in req[h].pending until the COMMIT.       *)
(***************************************************************************)
EXTENDS Naturals, FiniteSets, Sequences, SequencesExt

CONSTANTS
  Tenants, Emails,
  NoteIds,     \* ids gen_random_uuid can return, bounded for TLC
  Requests,    \* handlers that may be in flight at the same time
  Conns,       \* the pool's slots: database.poolMax
  NoTenant, NoConn, NoRecord   \* null

Ops == {"register", "login", "createNote", "listNotes", "untenanted"}

User == [tenant : Tenants, email : Emails]
Note == [tenant : Tenants, id : NoteIds]

ASSUME NullAssumption ==
  NoTenant \notin Tenants /\ NoConn \notin Conns /\ NoRecord \notin User \cup Note

ASSUME FiniteAssumption == IsFiniteSet(Requests)

VARIABLES
  users, notes,   \* the committed rows
  session,        \* per connection: transaction open, app.current_tenant_id, alive
  free,           \* connections nobody has checked out
  queue,          \* the pool's pendingQueue
  req,            \* the handlers
  told            \* history: the rows whose creation was answered with 201

vars == <<users, notes, session, free, queue, req, told>>

\* A connection on which nothing is left of whoever used it before.
Clean == [open |-> FALSE, tenant |-> NoTenant, alive |-> TRUE]
Broken == [Clean EXCEPT !.alive = FALSE]

Idle == [pc |-> "idle", op |-> "untenanted", tenant |-> NoTenant, email |-> NoRecord,
         conn |-> NoConn, inserting |-> FALSE, seen |-> {}, pending |-> NoRecord,
         status |-> 0, known |-> {}]

Session == [open : BOOLEAN, tenant : Tenants \cup {NoTenant}, alive : BOOLEAN]
Statuses == {0, 200, 201, 400, 401, 409, 500, 503}
Pcs == {"idle", "queue", "begin", "config", "work", "commit", "rollback", "release",
        "hash", "reply"}
Handler == [pc : Pcs, op : Ops, tenant : Tenants \cup {NoTenant}, email : Emails \cup {NoRecord},
            conn : Conns \cup {NoConn}, inserting : BOOLEAN, seen : SUBSET (User \cup Note),
            pending : User \cup Note \cup {NoRecord}, status : Statuses, known : SUBSET Note]

At(h, label) == req[h].pc = label
Conn(h)      == session[req[h].conn]

\* The policies' USING and WITH CHECK: a row whose tenant is the connection's.
Visible(h, table)  == {row \in table : row.tenant = Conn(h).tenant}
PolicyAdmits(h, row) == row.tenant = Conn(h).tenant

Init ==
  /\ users = {} /\ notes = {}
  /\ session = [c \in Conns |-> Clean]
  /\ free = Conns /\ queue = <<>>
  /\ req = [h \in Requests |-> Idle]
  /\ told = {}

----------------------------------------------------------------------------
(* The pool: requests queue for a connection in order of arrival, up to a timeout. *)

Arrive(h, op, t, e) ==
  /\ At(h, "idle")
  /\ req' = [req EXCEPT ![h] = [Idle EXCEPT !.pc = "queue", !.op = op, !.tenant = t, !.email = e,
               !.known = {row \in told \cap Note : row.tenant = t}]]
  /\ queue' = Append(queue, h)
  /\ UNCHANGED <<users, notes, session, free, told>>

Connect(h, c) ==
  /\ queue # <<>> /\ Head(queue) = h /\ c \in free
  /\ queue' = Tail(queue) /\ free' = free \ {c}
  /\ req' = [req EXCEPT ![h].conn = c,
               ![h].pc = IF req[h].op = "untenanted" THEN "work" ELSE "begin"]
  /\ UNCHANGED <<users, notes, session, told>>

\* Thrown outside run's try: the wait timed out (503), or connecting failed (500).
AcquireFails(h) ==
  /\ At(h, "queue")
  /\ \E i \in DOMAIN queue : queue[i] = h /\ queue' = RemoveAt(queue, i)
  /\ \E status \in {500, 503} :
       req' = [req EXCEPT ![h] = [@ EXCEPT !.pc = "reply", !.status = status]]
  /\ UNCHANGED <<users, notes, session, free, told>>

----------------------------------------------------------------------------
(* The transaction *)

\* A login stores its refresh token in a transaction of the repository's own, outside run:
\* its table has no policy, and no tenant is set for it.
StoresToken(h) == req[h].op = "login" /\ req[h].inserting

Begin(h) ==
  /\ At(h, "begin") /\ Conn(h).alive
  /\ session' = [session EXCEPT ![req[h].conn].open = TRUE]
  /\ req' = [req EXCEPT ![h].pc = IF StoresToken(h) THEN "work" ELSE "config"]
  /\ UNCHANGED <<users, notes, free, queue, told>>

\* Mutant: set_config is given another of the request's values.
ConfigureSwapped(h) ==
  /\ At(h, "config") /\ Conn(h).alive
  /\ session' = [session EXCEPT ![req[h].conn].tenant = req[h].email]
  /\ req' = [req EXCEPT ![h].pc = "work"]
  /\ UNCHANGED <<users, notes, free, queue, told>>

\* Mutant: the tenant is kept in a field of the singleton, not per request.
ConfigureShared(h) ==
  /\ At(h, "config") /\ Conn(h).alive
  /\ \E k \in Requests : session' = [session EXCEPT ![req[h].conn].tenant = req[k].tenant]
  /\ req' = [req EXCEPT ![h].pc = "work"]
  /\ UNCHANGED <<users, notes, free, queue, told>>

\* set_config('app.current_tenant_id', tenantId, true)
Configure(h) ==
  /\ At(h, "config") /\ Conn(h).alive
  /\ session' = [session EXCEPT ![req[h].conn].tenant = req[h].tenant]
  /\ req' = [req EXCEPT ![h].pc = "work"]
  /\ UNCHANGED <<users, notes, free, queue, told>>

Working(h, op) == At(h, "work") /\ req[h].op = op /\ Conn(h).alive

\* findByEmail has no tenant in its WHERE clause: the policy supplies it.
FindByEmail(h) ==
  /\ At(h, "work") /\ req[h].op \in {"register", "login"} /\ ~req[h].inserting /\ Conn(h).alive
  /\ req' = [req EXCEPT ![h].pc = "commit",
               ![h].seen = {u \in Visible(h, users) : u.email = req[h].email}]
  /\ UNCHANGED <<users, notes, session, free, queue, told>>

\* issueRefreshToken's INSERT of the new row, which nothing here reads.
StoreToken(h) ==
  /\ At(h, "work") /\ StoresToken(h) /\ Conn(h).alive
  /\ req' = [req EXCEPT ![h].pc = "commit"]
  /\ UNCHANGED <<users, notes, session, free, queue, told>>

\* The unique index makes an INSERT wait for another open transaction's equal key.
KeyFree(h, row) == \A k \in Requests \ {h} : At(k, "commit") => req[k].pending # row

\* Mutant: no unique constraint on (tenant_id, email).
InsertUserUnchecked(h) ==
  LET row == [tenant |-> req[h].tenant, email |-> req[h].email] IN
  /\ Working(h, "register") /\ req[h].inserting /\ PolicyAdmits(h, row)
  /\ req' = [req EXCEPT ![h].pc = "commit", ![h].pending = row]
  /\ UNCHANGED <<users, notes, session, free, queue, told>>

InsertUser(h) ==
  LET row == [tenant |-> req[h].tenant, email |-> req[h].email] IN
  /\ Working(h, "register") /\ req[h].inserting
  /\ PolicyAdmits(h, row) /\ KeyFree(h, row) /\ row \notin users
  /\ req' = [req EXCEPT ![h].pc = "commit", ![h].pending = row]
  /\ UNCHANGED <<users, notes, session, free, queue, told>>

\* 23505, which register turns into the conflict.
UniqueViolation(h) ==
  LET row == [tenant |-> req[h].tenant, email |-> req[h].email] IN
  /\ Working(h, "register") /\ req[h].inserting
  /\ PolicyAdmits(h, row) /\ KeyFree(h, row) /\ row \in users
  /\ req' = [req EXCEPT ![h].pc = "rollback", ![h].status = 409]
  /\ UNCHANGED <<users, notes, session, free, queue, told>>

InsertNote(h, id) ==
  LET row == [tenant |-> req[h].tenant, id |-> id] IN
  /\ Working(h, "createNote") /\ PolicyAdmits(h, row)
  /\ \A t \in Tenants, k \in Requests :
       LET used == [tenant |-> t, id |-> id] IN used \notin notes /\ req[k].pending # used
  /\ req' = [req EXCEPT ![h].pc = "commit", ![h].pending = row]
  /\ UNCHANGED <<users, notes, session, free, queue, told>>

FindNotes(h) ==
  /\ Working(h, "listNotes")
  /\ req' = [req EXCEPT ![h].pc = "commit", ![h].seen = Visible(h, notes)]
  /\ UNCHANGED <<users, notes, session, free, queue, told>>

\* A statement on the default pooled connection: no transaction, no tenant.  Its tables
\* have no policy; seen is what the policies of the others would show on this connection.
Untenanted(h) ==
  /\ Working(h, "untenanted")
  /\ req' = [req EXCEPT ![h].pc = "release", ![h].seen = Visible(h, users \cup notes)]
  /\ UNCHANGED <<users, notes, session, free, queue, told>>

\* Mutant: set_config(..., false) sets the session, not the transaction.
EndTransactionSession(h) == [session EXCEPT ![req[h].conn].open = FALSE]

\* The end of a transaction undoes the transaction-local setting.
EndTransaction(h) == [session EXCEPT ![req[h].conn].open = FALSE,
                                     ![req[h].conn].tenant = NoTenant]
Store(row) ==
  /\ users' = IF row \in User THEN users \cup {row} ELSE users
  /\ notes' = IF row \in Note THEN notes \cup {row} ELSE notes

Commit(h) ==
  /\ At(h, "commit") /\ Conn(h).alive
  /\ Store(req[h].pending)
  /\ session' = EndTransaction(h)
  /\ req' = [req EXCEPT ![h].pc = "release"]
  /\ UNCHANGED <<free, queue, told>>

\* Mutant: release follows the ROLLBACK instead of standing in a finally.
RollbackNoFinally(h) ==
  /\ At(h, "rollback")
  /\ session' = EndTransaction(h)
  /\ req' = [req EXCEPT ![h].pending = NoRecord,
               ![h].pc = IF Conn(h).alive THEN "release" ELSE "reply",
               ![h].conn = IF Conn(h).alive THEN @ ELSE NoConn]
  /\ UNCHANGED <<users, notes, free, queue, told>>

\* catch: isTransactionActive was set before BEGIN was sent, so ROLLBACK is always
\* sent; on a lost connection it throws too, and finally still releases.
Rollback(h) ==
  /\ At(h, "rollback")
  /\ session' = EndTransaction(h)
  /\ req' = [req EXCEPT ![h].pc = "release", ![h].pending = NoRecord]
  /\ UNCHANGED <<users, notes, free, queue, told>>

\* A statement fails on a live connection, the policy's refusal included: the
\* QueryFailedError becomes a 400.
StatementFails(h) ==
  /\ req[h].pc \in {"begin", "config", "work"} /\ Conn(h).alive
  /\ req' = [req EXCEPT ![h] =
               [@ EXCEPT !.pc = IF req[h].op = "untenanted" THEN "release" ELSE "rollback",
                         !.status = 400]]
  /\ UNCHANGED <<users, notes, session, free, queue, told>>

\* Mutant: commitTransaction is not awaited, so its failure goes unnoticed.
ConnectionLostUnnoticed(h) ==
  /\ req[h].pc \in {"begin", "config", "work", "commit", "rollback"} /\ Conn(h).alive
  /\ Store(NoRecord)
  /\ session' = [session EXCEPT ![req[h].conn] = Broken]
  /\ req' = [req EXCEPT ![h].pc = "release"]
  /\ UNCHANGED <<free, queue, told>>

\* The server ends the session; a COMMIT already sent may have been carried out.
ConnectionLost(h) ==
  /\ req[h].pc \in {"begin", "config", "work", "commit", "rollback"} /\ Conn(h).alive
  /\ \/ Store(NoRecord)
     \/ At(h, "commit") /\ Store(req[h].pending)
  /\ session' = [session EXCEPT ![req[h].conn] = Broken]
  /\ req' = [req EXCEPT ![h] =
               [@ EXCEPT !.pc = IF req[h].op = "untenanted" THEN "release" ELSE "rollback",
                         !.status = 400, !.pending = NoRecord]]
  /\ UNCHANGED <<free, queue, told>>

----------------------------------------------------------------------------
(* The use cases around run *)

\* What a request does with the outcome of the run that released its connection.
Outcome(h) ==
  LET r == req[h]
      answer(status) == [r EXCEPT !.pc = "reply", !.status = status, !.conn = NoConn]
  IN CASE r.status # 0 -> answer(r.status)
       [] r.status = 0 /\ r.op = "register" /\ ~r.inserting /\ r.seen # {} -> answer(409)
       [] r.status = 0 /\ r.op = "login" /\ ~r.inserting /\ r.seen = {} -> answer(401)
       [] r.status = 0 /\ r.op \in {"register", "login"} /\ ~r.inserting
            /\ (r.op = "login" <=> r.seen # {}) -> [r EXCEPT !.pc = "hash", !.conn = NoConn]
       [] r.status = 0 /\ r.pending # NoRecord -> answer(201)
       [] OTHER -> answer(200)

\* Mutant: the connection per request that run replaced: a login keeps the connection of
\* its credential check while it compares the password and waits for the next one.
ReleaseKept(h) ==
  LET r    == req[h]
      c    == r.conn
      kept == r.op = "login" /\ ~r.inserting /\ r.status = 0 /\ r.seen # {} IN
  /\ At(h, "release")
  /\ free' = IF kept THEN free ELSE free \cup {c}
  /\ session' = [session EXCEPT ![c] = IF @.alive THEN @ ELSE Clean]
  /\ req' = [req EXCEPT ![h] = IF kept THEN [r EXCEPT !.pc = "hash"] ELSE Outcome(h)]
  /\ UNCHANGED <<users, notes, queue, told>>

\* The pool destroys a broken connection and opens another in its place.
Release(h) ==
  LET c == req[h].conn IN
  /\ At(h, "release")
  /\ free' = free \cup {c}
  /\ session' = [session EXCEPT ![c] = IF @.alive THEN @ ELSE Clean]
  /\ req' = [req EXCEPT ![h] = Outcome(h)]
  /\ UNCHANGED <<users, notes, queue, told>>

\* bcrypt.hash, then the second run.
HashPassword(h) ==
  /\ At(h, "hash") /\ req[h].op = "register"
  /\ req' = [req EXCEPT ![h].pc = "queue", ![h].inserting = TRUE]
  /\ queue' = Append(queue, h)
  /\ UNCHANGED <<users, notes, session, free, told>>

\* bcrypt.compare: the password does not match, or issueTokens goes on to store the
\* refresh token, for which it needs a connection again.
ComparePassword(h) ==
  /\ At(h, "hash") /\ req[h].op = "login"
  /\ \/ /\ req' = [req EXCEPT ![h] = [@ EXCEPT !.pc = "reply", !.status = 401]]
        /\ UNCHANGED queue
     \/ /\ req' = [req EXCEPT ![h].pc = "queue", ![h].inserting = TRUE]
        /\ queue' = Append(queue, h)
  /\ UNCHANGED <<users, notes, session, free, told>>

Reply(h) ==
  /\ At(h, "reply")
  /\ told' = IF req[h].status = 201 THEN told \cup {req[h].pending} ELSE told
  /\ req' = [req EXCEPT ![h] = Idle]
  /\ UNCHANGED <<users, notes, session, free, queue>>

----------------------------------------------------------------------------

Step(h) ==
  \/ \E c \in Conns : Connect(h, c)
  \/ Begin(h) \/ Configure(h)
  \/ FindByEmail(h) \/ InsertUser(h) \/ UniqueViolation(h)
  \/ \E id \in NoteIds : InsertNote(h, id)
  \/ FindNotes(h) \/ Untenanted(h) \/ StoreToken(h)
  \/ Commit(h) \/ Rollback(h) \/ Release(h)
  \/ HashPassword(h) \/ ComparePassword(h) \/ Reply(h)

Fault(h) == AcquireFails(h) \/ StatementFails(h) \/ ConnectionLost(h)

\* A note is only asked for while the bounded pool has an id left for it.
IdsLeft == Cardinality(notes) + Cardinality({h \in Requests : req[h].op = "createNote"})
             < Cardinality(NoteIds)

Request(h) ==
  \/ \E op \in {"register", "login"}, t \in Tenants, e \in Emails : Arrive(h, op, t, e)
  \/ \E t \in Tenants : Arrive(h, "listNotes", t, NoRecord)
  \/ \E t \in Tenants : IdsLeft /\ Arrive(h, "createNote", t, NoRecord)
  \/ Arrive(h, "untenanted", NoTenant, NoRecord)

Next == \E h \in Requests : Request(h) \/ Step(h) \/ Fault(h)

Spec == Init /\ [][Next]_vars

\* The event loop and PostgreSQL make progress; a wait for an index entry ends when
\* the transaction holding it does, in the order of arrival.
InsertLock(h) == InsertUser(h) \/ UniqueViolation(h)
Fairness == \A h \in Requests : WF_vars(Step(h)) /\ SF_vars(InsertLock(h))
FairSpec == Spec /\ Fairness

----------------------------------------------------------------------------
(* Properties *)

\* Every variable keeps to its domain, and the queue to the handlers in flight.
TypeOK ==
  /\ users \subseteq User /\ notes \subseteq Note /\ told \subseteq User \cup Note
  /\ session \in [Conns -> Session]
  /\ free \subseteq Conns
  /\ queue \in Seq(Requests) /\ Len(queue) <= Cardinality(Requests)
  /\ req \in [Requests -> Handler]

\* Whatever runs concurrently, fails or times out, a request reads no row of another
\* tenant, and one without a tenant reads no tenant's row (README.md:24).
TenantIsolation == \A h \in Requests : \A row \in req[h].seen : row.tenant = req[h].tenant

\* The tenant id "can never leak onto the pooled connection's next user"
\* (tenant-transaction.ts:12-14), and neither can an open transaction: a connection
\* is clean in the pool, and when the next request starts on it.
NothingLeaks ==
  /\ \A c \in free : session[c] = Clean
  /\ \A h \in Requests :
       (At(h, "begin") \/ (At(h, "work") /\ req[h].op = "untenanted")) => Conn(h) = Clean

\* No run ends without giving its connection back, and no two hold the same one:
\* each connection is free or held by exactly one handler.
ConnectionsAccounted ==
  /\ free = Conns \ {req[h].conn : h \in Requests}
  /\ \A h, k \in Requests : req[h].conn = req[k].conn /\ req[h].conn # NoConn => h = k

\* Nobody waits for the pool, for the first or the second time, computes a hash or has
\* been answered while holding a connection (tenant-transaction.ts:17-21): a burst of
\* logins, each of which needs two connections in turn, waits only for transactions in
\* progress and not for each other (the regression of concurrency.e2e-spec.ts:8-13).
NoHoldAndWait ==
  /\ \A h \in Requests : req[h].pc \in {"queue", "hash", "reply"} => req[h].conn = NoConn
  /\ \A c \in Conns \ free : \E h \in Requests :
       /\ req[h].conn = c
       /\ req[h].pc \in {"begin", "config", "work", "commit", "rollback", "release"}

\* An answer tells the truth about the tables: what was answered with 201 is stored
\* ("commits before its response is sent", tenant-notes.e2e-spec.ts:17-18), and a 409
\* means that the address is taken in the caller's own tenant.
AnswersTrue ==
  /\ told \subseteq users \cup notes
  /\ \A h \in Requests : At(h, "reply") =>
       /\ req[h].status = 201 => req[h].pending \in users \cup notes
       /\ req[h].status = 409 => [tenant |-> req[h].tenant, email |-> req[h].email] \in users

\* Of all the concurrent registrations of one address in one tenant, which all pass
\* the check before hashing, at most one is answered with 201.
OneWinner ==
  \A h \in Requests : At(h, "reply") /\ req[h].status = 201 =>
    /\ req[h].pending \notin told
    /\ \A k \in Requests \ {h} :
         At(k, "reply") /\ req[k].status = 201 => req[k].pending # req[h].pending

\* A list answered with 200 contains every note whose creation had been answered
\* when the list was asked for, in the same tenant.
ReadsAnsweredWrites ==
  \A h \in Requests :
    At(h, "reply") /\ req[h].op = "listNotes" /\ req[h].status = 200
      => req[h].known \subseteq req[h].seen

\* Every request is answered, even if no wait for a connection ever times out.
EveryRequestAnswered == \A h \in Requests : ~At(h, "idle") ~> At(h, "idle")

----------------------------------------------------------------------------
(* The abstract specification: a request enters the tenant of its context, what it *)
(* reads is its view, and rows count from the COMMIT on.                            *)

TenantTables == INSTANCE TenantStore
  WITH tenantOf <- [h \in Requests |-> req[h].tenant],
       view     <- [h \in Requests |-> req[h].seen]

\* Transactions on pooled connections, whose statements name no tenant, implement the
\* store: "the database - not application code - is what stops cross-tenant data from
\* leaking out" (tenant-note.usecase.ts:15-18).  Every read is one tenant's rows, all
\* of them, at one instant; every row appears at once, in its request's tenant.
ImplementsStore == TenantTables!Spec

=============================================================================
