---------------------- MODULE TenantTransaction_proofs ----------------------
(***************************************************************************)
(* Proofs, for any tenants, addresses, note ids, requests and size of the  *)
(* pool, of the safety invariants of TenantTransaction and of its          *)
(* refinement of TenantStore.                                              *)
(***************************************************************************)
EXTENDS TenantTransaction, FunctionTheorems, FiniteSetTheorems, SequenceTheorems, TLAPS

----------------------------------------------------------------------------
(* The inductive invariant *)

\* Between Connect and Release.
Holding == {"begin", "config", "work", "commit", "rollback", "release"}

\* What a request carries, by its operation.
Carries(h) ==
  /\ At(h, "idle") => req[h] = Idle
  /\ req[h].op = "untenanted" <=> req[h].tenant = NoTenant
  /\ req[h].op = "untenanted" => req[h].pc \in {"idle", "queue", "work", "release", "reply"}
  /\ req[h].op \in {"register", "login"} => req[h].email \in Emails
  /\ At(h, "hash") => req[h].op \in {"register", "login"}
  /\ At(h, "config") => ~StoresToken(h)

\* The connection a request works on: clean when it begins and when it gives it back,
\* broken or not, and set to the request's own tenant for every statement between, but
\* for the one that stores a login's refresh token.
Connected(h) ==
  /\ req[h].conn # NoConn <=> req[h].pc \in Holding
  /\ At(h, "begin") => Conn(h) = Clean
  /\ At(h, "work") => IF req[h].op = "untenanted" THEN Conn(h) = Clean
                      ELSE StoresToken(h) \/ Conn(h).tenant = req[h].tenant
  /\ At(h, "release") => Conn(h) \in {Clean, Broken}

\* What a request has read is its tenant's, and still there if it read users.
Reads(h) ==
  /\ \A row \in req[h].seen : row.tenant = req[h].tenant
  /\ req[h].op \in {"register", "login"} =>
       \A row \in req[h].seen : row \in users /\ row.email = req[h].email

OwnRow(h) ==
  \/ /\ req[h].op = "register" /\ req[h].inserting
     /\ req[h].pending = [tenant |-> req[h].tenant, email |-> req[h].email]
  \/ /\ req[h].op = "createNote"
     /\ req[h].pending \in Note /\ req[h].pending.tenant = req[h].tenant

\* Before the COMMIT the pending row's key is not in the tables; after it the row is.
Writes(h) ==
  req[h].pending # NoRecord =>
    /\ req[h].pc \in {"commit", "release", "reply"}
    /\ OwnRow(h)
    /\ req[h].pending \notin told
    /\ At(h, "commit") => /\ req[h].pending \notin users
                          /\ req[h].pending \in Note =>
                               \A row \in notes : row.id # req[h].pending.id
    /\ ~At(h, "commit") => req[h].pending \in users \cup notes

\* Which statuses a request has at each step, and what they say.
Answers(h) ==
  /\ req[h].pc \in {"queue", "begin", "config", "work", "commit", "hash"} => req[h].status = 0
  /\ At(h, "rollback") => req[h].status \in {400, 409}
  /\ At(h, "release") => req[h].status \in {0, 400, 409}
  /\ req[h].status = 201 => req[h].pending # NoRecord
  /\ req[h].status = 409 => [tenant |-> req[h].tenant, email |-> req[h].email] \in users

\* The notes a request knows of are there, and in its list once it has read them.
Knows(h) ==
  /\ \A row \in req[h].known : row \in notes /\ row.tenant = req[h].tenant
  /\ req[h].op = "listNotes" /\ req[h].pc \in {"commit", "release", "reply"}
       /\ req[h].status \in {0, 200} => req[h].known \subseteq req[h].seen

HandlerInv(h) ==
  Carries(h) /\ Connected(h) /\ Reads(h) /\ Writes(h) /\ Answers(h) /\ Knows(h)

\* The queue holds each waiting request once, and no other.
Waiting ==
  /\ \A i \in 1..Len(queue) : At(queue[i], "queue")
  /\ \A i, j \in 1..Len(queue) : queue[i] = queue[j] => i = j
  /\ \A h \in Requests : At(h, "queue") => \E i \in 1..Len(queue) : queue[i] = h

\* Two requests are never about to store the same key.
Apart(r, s) ==
  r # NoRecord /\ s # NoRecord => r # s /\ (r \in Note /\ s \in Note => r.id # s.id)

KeysApart == \A h, k \in Requests : h # k => Apart(req[h].pending, req[k].pending)

IInv ==
  /\ TypeOK
  /\ \A h \in Requests : HandlerInv(h)
  /\ Waiting
  /\ ConnectionsAccounted
  /\ \A c \in free : session[c] = Clean
  /\ KeysApart
  /\ told \subseteq users \cup notes

----------------------------------------------------------------------------
(* Facts about rows, sessions and the queue *)

LEMMA RowKinds ==
  /\ \A row \in User : row \notin Note /\ row # NoRecord
  /\ \A row \in Note : row # NoRecord
BY NullAssumption DEF User, Note

LEMMA RowFields ==
  /\ \A row \in User : row.tenant \in Tenants /\ row.email \in Emails
                       /\ row = [tenant |-> row.tenant, email |-> row.email]
  /\ \A row \in Note : row.tenant \in Tenants /\ row.id \in NoteIds
                       /\ row = [tenant |-> row.tenant, id |-> row.id]
  /\ \A t \in Tenants, e \in Emails : [tenant |-> t, email |-> e] \in User
  /\ \A t \in Tenants, id \in NoteIds : [tenant |-> t, id |-> id] \in Note
BY DEF User, Note

LEMMA SessionEqual ==
  ASSUME NEW s \in Session, NEW t \in Session,
         s.open = t.open, s.tenant = t.tenant, s.alive = t.alive
  PROVE  s = t
BY DEF Session

LEMMA SessionFields ==
  /\ Clean \in Session /\ Broken \in Session
  /\ Clean.open = FALSE /\ Clean.tenant = NoTenant /\ Clean.alive = TRUE
  /\ Broken.open = FALSE /\ Broken.tenant = NoTenant /\ Broken.alive = FALSE
BY DEF Clean, Broken, Session

\* A session without transaction or tenant is clean, or its connection is broken.
LEMMA CleanSession ==
  ASSUME NEW s \in Session, s.open = FALSE, s.tenant = NoTenant
  PROVE  s \in {Clean, Broken}
<1>1. s.alive \in BOOLEAN
  BY DEF Session
<1>2. CASE s.alive = TRUE
  BY <1>2, SessionEqual, SessionFields
<1>3. CASE s.alive = FALSE
  BY <1>3, SessionEqual, SessionFields
<1>4. QED
  BY <1>1, <1>2, <1>3

LEMMA IdleHandler ==
  /\ Idle \in Handler
  /\ Idle.pc = "idle" /\ Idle.op = "untenanted" /\ Idle.tenant = NoTenant
  /\ Idle.conn = NoConn /\ Idle.inserting = FALSE /\ Idle.seen = {}
  /\ Idle.pending = NoRecord /\ Idle.status = 0 /\ Idle.known = {}
BY DEF Idle, Handler, Pcs, Ops, Statuses

\* A request's record once a step has settled what it is answered with.
Settled(r, pc, status) == [r EXCEPT !.pc = pc, !.status = status]

Settles(h, pc, status) == req' = [req EXCEPT ![h] = Settled(req[h], pc, status)]

LEMMA SettledFields ==
  ASSUME NEW r \in Handler, NEW pc \in Pcs, NEW status \in Statuses
  PROVE  LET s == Settled(r, pc, status) IN
         /\ s \in Handler
         /\ s.pc = pc /\ s.op = r.op /\ s.tenant = r.tenant /\ s.email = r.email
         /\ s.conn = r.conn /\ s.inserting = r.inserting /\ s.seen = r.seen
         /\ s.pending = r.pending /\ s.status = status /\ s.known = r.known
BY DEF Settled, Handler

LEMMA Labels ==
  /\ "rollback" \in Pcs /\ "release" \in Pcs /\ "reply" \in Pcs
  /\ 200 \in Statuses /\ 201 \in Statuses /\ 400 \in Statuses /\ 401 \in Statuses
  /\ 409 \in Statuses /\ 500 \in Statuses /\ 503 \in Statuses
BY DEF Pcs, Statuses

\* Nothing is stored for a request that has nothing pending.
LEMMA StoreNothing == Store(NoRecord) <=> UNCHANGED <<users, notes>>
BY NullAssumption DEF Store

\* A queue in which nobody stands twice is no longer than there are requests.
LEMMA ShortQueue ==
  ASSUME NEW q \in Seq(Requests), \A i, j \in 1..Len(q) : q[i] = q[j] => i = j
  PROVE  Len(q) <= Cardinality(Requests)
<1>1. q \in [1..Len(q) -> Requests] /\ Len(q) \in Nat
  BY LenProperties
<1>2. q \in Injection(1..Len(q), Requests)
  BY <1>1, Fun_IsInj
<1>3. Cardinality(1..Len(q)) <= Cardinality(Requests)
  BY <1>2, FS_Injection, FiniteAssumption
<1>4. Cardinality(1..Len(q)) = Len(q)
  <2>1. 1 \in Int /\ Len(q) \in Int
    BY <1>1
  <2>2. Cardinality(1..Len(q)) = IF 1 > Len(q) THEN 0 ELSE Len(q) - 1 + 1
    BY <2>1, FS_Interval, Zenon
  <2>3. QED
    BY <1>1, <2>2
<1>5. QED
  BY <1>3, <1>4

\* What is left of a queue without its i-th element.
LEMMA Removed ==
  ASSUME NEW q \in Seq(Requests), NEW i \in 1..Len(q)
  PROVE  /\ RemoveAt(q, i) \in Seq(Requests)
         /\ Len(RemoveAt(q, i)) = Len(q) - 1
         /\ \A j \in 1..Len(q) - 1 : RemoveAt(q, i)[j] = IF j < i THEN q[j] ELSE q[j + 1]
<1> DEFINE a == SubSeq(q, 1, i - 1)
           b == SubSeq(q, i + 1, Len(q))
<1>1. Len(q) \in Nat /\ \A j \in 1..Len(q) : q[j] \in Requests
  BY LenProperties, ElementOfSeq
<1>2. /\ a \in Seq(Requests) /\ Len(a) = i - 1
      /\ \A j \in 1..i - 1 : a[j] = q[j]
  <2>1. /\ SubSeq(q, 1, i - 1) \in Seq(Requests)
        /\ Len(SubSeq(q, 1, i - 1)) = IF 1 <= i - 1 THEN (i - 1) - 1 + 1 ELSE 0
        /\ \A j \in 1..(i - 1) - 1 + 1 : SubSeq(q, 1, i - 1)[j] = q[1 + j - 1]
    <3>1. 1 \in Int /\ i - 1 \in Int /\ \A j \in 1..i - 1 : q[j] \in Requests
      BY <1>1
    <3>2. QED
      BY <3>1, SubSeqProperties
  <2>2. QED
    BY <2>1, <1>1
<1>3. /\ b \in Seq(Requests) /\ Len(b) = Len(q) - i
      /\ \A j \in 1..Len(q) - i : b[j] = q[i + j]
  <2>1. /\ SubSeq(q, i + 1, Len(q)) \in Seq(Requests)
        /\ Len(SubSeq(q, i + 1, Len(q))) = IF i + 1 <= Len(q) THEN Len(q) - (i + 1) + 1 ELSE 0
        /\ \A j \in 1..Len(q) - (i + 1) + 1 : SubSeq(q, i + 1, Len(q))[j] = q[(i + 1) + j - 1]
    <3>1. i + 1 \in Int /\ Len(q) \in Int /\ \A j \in i + 1..Len(q) : q[j] \in Requests
      BY <1>1
    <3>2. QED
      BY <3>1, SubSeqProperties
  <2>2. QED
    BY <2>1, <1>1
<1>4. /\ a \o b \in Seq(Requests)
      /\ Len(a \o b) = Len(a) + Len(b)
      /\ \A j \in 1..Len(a) + Len(b) : (a \o b)[j] = IF j <= Len(a) THEN a[j] ELSE b[j - Len(a)]
  <2> HIDE DEF a, b
  <2> QED
    BY <1>2, <1>3, ConcatProperties
<1>5. RemoveAt(q, i) = a \o b
  BY DEF RemoveAt
<1> HIDE DEF a, b
<1>6. Len(a) + Len(b) = Len(q) - 1
  BY <1>1, <1>2, <1>3
<1>7. ASSUME NEW j \in 1..Len(q) - 1
      PROVE  (a \o b)[j] = IF j < i THEN q[j] ELSE q[j + 1]
  <2>1. CASE j < i
    BY <1>1, <1>2, <1>4, <1>6, <2>1
  <2>2. CASE ~(j < i)
    <3>1. j - (i - 1) \in 1..Len(q) - i /\ i + (j - (i - 1)) = j + 1
      BY <1>1, <2>2
    <3>2. (a \o b)[j] = b[j - (i - 1)]
      BY <1>1, <1>2, <1>4, <1>6, <2>2
    <3>3. b[j - (i - 1)] = q[j + 1]
      BY <1>3, <3>1
    <3>4. QED
      BY <2>2, <3>2, <3>3
  <2>3. QED
    BY <2>1, <2>2
<1>8. QED
  BY <1>4, <1>5, <1>6, <1>7

----------------------------------------------------------------------------
(* What a step of one request leaves of the others *)

LEMMA OthersKeep ==
  ASSUME NEW k \in Requests, HandlerInv(k), req'[k] = req[k],
         users \subseteq users', notes \subseteq notes',
         req[k].conn # NoConn => session'[req[k].conn] = session[req[k].conn],
         req[k].pending # NoRecord =>
           /\ req[k].pending \notin told'
           /\ At(k, "commit") => /\ req[k].pending \notin users'
                                 /\ req[k].pending \in Note =>
                                      \A row \in notes' : row.id # req[k].pending.id
  PROVE  HandlerInv(k)'
<1>1. Carries(k)'
  BY DEF HandlerInv, Carries, StoresToken, At
<1>2. Connected(k)'
  <2>1. req[k].pc \in Holding => Conn(k)' = Conn(k)
    BY DEF HandlerInv, Connected, StoresToken, Conn
  <2>2. QED
    BY <2>1 DEF HandlerInv, Connected, StoresToken, At, Holding
<1>3. Reads(k)'
  BY DEF HandlerInv, Reads
<1>4. Writes(k)'
  BY DEF HandlerInv, Writes, OwnRow, At
<1>5. Answers(k)'
  BY DEF HandlerInv, Answers, At
<1>6. Knows(k)'
  BY DEF HandlerInv, Knows
<1>7. QED
  BY <1>1, <1>2, <1>3, <1>4, <1>5, <1>6 DEF HandlerInv

LEMMA ApartSymmetric == \A r, s : Apart(r, s) => Apart(s, r)
BY DEF Apart

\* Storing one request's pending row leaves the keys of all others free.
LEMMA StoreKeepsApart ==
  ASSUME IInv, NEW h \in Requests, NEW row, Store(row),
         row # NoRecord => At(h, "commit") /\ row = req[h].pending,
         NEW k \in Requests \ {h}, req[k].pending # NoRecord, At(k, "commit")
  PROVE  /\ req[k].pending \notin users'
         /\ req[k].pending \in Note => \A other \in notes' : other.id # req[k].pending.id
<1>1. /\ req[k].pending \notin users
      /\ req[k].pending \in Note => \A other \in notes : other.id # req[k].pending.id
  BY DEF IInv, HandlerInv, Writes
<1>2. CASE row = NoRecord
  BY <1>1, <1>2, StoreNothing
<1>3. CASE row # NoRecord
  <2>1. Apart(row, req[k].pending)
    BY <1>3 DEF IInv, KeysApart
  <2>2. /\ users' \subseteq users \cup {row}
        /\ \A other \in notes' : other \in notes \/ (other = row /\ row \in Note)
    BY DEF Store
  <2>3. row # req[k].pending
    BY <1>3, <2>1 DEF Apart
  <2>4. row \in Note /\ req[k].pending \in Note => row.id # req[k].pending.id
    BY <1>3, <2>1 DEF Apart
  <2>5. req[k].pending \notin users'
    BY <1>1, <2>2, <2>3
  <2>6. ASSUME req[k].pending \in Note, NEW other \in notes'
        PROVE  other.id # req[k].pending.id
    BY <1>1, <2>2, <2>4, <2>6
  <2>7. QED
    BY <2>5, <2>6
<1>4. QED
  BY <1>2, <1>3

\* A step of h, whose new record is s, that stores row or, if it is NoRecord, nothing.
LEMMA HandlerStep ==
  ASSUME IInv, NEW h \in Requests, NEW s \in Handler, req' = [req EXCEPT ![h] = s],
         NEW row \in User \cup Note \cup {NoRecord}, Store(row),
         row # NoRecord => At(h, "commit") /\ row = req[h].pending,
         \A k \in Requests \ {h} : Apart(s.pending, req[k].pending),
         told' \subseteq users' \cup notes',
         \A k \in Requests \ {h} : req[k].pending # NoRecord /\ req[k].pending \in told'
                                     => req[k].pending \in told,
         session' \in [Conns -> Session],
         \A k \in Requests \ {h} : req[k].conn # NoConn =>
           session'[req[k].conn] = session[req[k].conn],
         queue' \in Seq(Requests), Waiting',
         ConnectionsAccounted', \A c \in free' : session'[c] = Clean,
         HandlerInv(h)'
  PROVE  IInv'
<1>1. /\ req' \in [Requests -> Handler]
      /\ req'[h] = s
      /\ \A k \in Requests \ {h} : req'[k] = req[k]
  BY DEF IInv, TypeOK
<1>2. /\ users \subseteq users' /\ users' \subseteq User
      /\ notes \subseteq notes' /\ notes' \subseteq Note
  BY DEF IInv, TypeOK, Store
<1>3. free' \subseteq Conns
  BY DEF ConnectionsAccounted
<1>4. Len(queue') <= Cardinality(Requests)
  BY ShortQueue DEF Waiting
<1>5. TypeOK'
  BY <1>1, <1>2, <1>3, <1>4 DEF TypeOK
<1>6. ASSUME NEW k \in Requests \ {h} PROVE HandlerInv(k)'
  <2>1. HandlerInv(k)
    BY DEF IInv
  <2>2. ASSUME req[k].pending # NoRecord
        PROVE  /\ req[k].pending \notin told'
               /\ At(k, "commit") => /\ req[k].pending \notin users'
                                     /\ req[k].pending \in Note =>
                                          \A other \in notes' : other.id # req[k].pending.id
    <3>1. req[k].pending \notin told
      BY <2>1, <2>2 DEF HandlerInv, Writes
    <3>2. QED
      BY <2>2, <3>1, StoreKeepsApart
  <2>3. QED
    BY <1>1, <1>2, <2>1, <2>2, OthersKeep
<1>7. \A k \in Requests : HandlerInv(k)'
  BY <1>6
<1>8. KeysApart'
  <2>1. SUFFICES ASSUME NEW j \in Requests, NEW k \in Requests, j # k
                 PROVE  Apart(req'[j].pending, req'[k].pending)
    BY DEF KeysApart
  <2>2. CASE j = h
    BY <1>1, <2>1, <2>2
  <2>3. CASE k = h
    BY <1>1, <2>1, <2>3, ApartSymmetric
  <2>4. CASE j # h /\ k # h
    BY <1>1, <2>1, <2>4 DEF IInv, KeysApart
  <2>5. QED
    BY <2>2, <2>3, <2>4
<1>9. QED
  BY <1>5, <1>7, <1>8 DEF IInv

\* A request whose pending row stays, or goes, is apart from all others.
LEMMA StaysApart ==
  ASSUME IInv, NEW h \in Requests, NEW s, s.pending \in {req[h].pending, NoRecord}
  PROVE  \A k \in Requests \ {h} : Apart(s.pending, req[k].pending)
BY DEF IInv, KeysApart, Apart

\* Nobody but h holds h's connection, and it is not free.
LEMMA OwnConnection ==
  ASSUME IInv, NEW h \in Requests
  PROVE  /\ req[h].conn # NoConn => req[h].conn \in Conns
         /\ \A c \in free : c # req[h].conn
         /\ \A k \in Requests \ {h} : req[k].conn # NoConn => req[k].conn # req[h].conn
<1>1. req[h] \in Handler
  BY DEF IInv, TypeOK
<1>2. req[h].conn \in Conns \cup {NoConn}
  BY <1>1 DEF Handler
<1>3. QED
  BY <1>2 DEF IInv, ConnectionsAccounted

\* The pool: a step of a request that neither waits, takes a connection nor gives one back.
LEMMA PoolUntouched ==
  ASSUME IInv, NEW h \in Requests, NEW s, req' = [req EXCEPT ![h] = s],
         ~At(h, "queue"), s.pc # "queue", s.conn = req[h].conn, UNCHANGED <<free, queue>>
  PROVE  Waiting' /\ ConnectionsAccounted' /\ queue' \in Seq(Requests)
<1>1. /\ req'[h] = s
      /\ \A k \in Requests \ {h} : req'[k] = req[k]
      /\ \A k \in Requests : req'[k].conn = req[k].conn
      /\ \A k \in Requests : req'[k].pc = "queue" <=> req[k].pc = "queue"
  BY DEF IInv, TypeOK, At
<1>2. queue \in Seq(Requests) /\ \A i \in 1..Len(queue) : queue[i] \in Requests
  BY ElementOfSeq DEF IInv, TypeOK
<1>3. Waiting'
  BY <1>1, <1>2 DEF IInv, Waiting, At
<1>4. {req'[k].conn : k \in Requests} = {req[k].conn : k \in Requests}
  BY <1>1
<1>5. ConnectionsAccounted'
  BY <1>1, <1>4 DEF IInv, ConnectionsAccounted
<1>6. QED
  BY <1>2, <1>3, <1>5

\* A statement of h's transaction: it touches h's own record and h's own connection.
LEMMA TxStep ==
  ASSUME IInv, NEW h \in Requests, NEW s \in Handler, req' = [req EXCEPT ![h] = s],
         NEW row \in User \cup Note \cup {NoRecord}, Store(row),
         row # NoRecord => At(h, "commit") /\ row = req[h].pending,
         \A k \in Requests \ {h} : Apart(s.pending, req[k].pending),
         NEW new \in Session, session' = [session EXCEPT ![req[h].conn] = new],
         ~At(h, "queue"), s.pc # "queue", s.conn = req[h].conn,
         UNCHANGED <<free, queue, told>>,
         HandlerInv(h)'
  PROVE  IInv'
<1>1. Waiting' /\ ConnectionsAccounted' /\ queue' \in Seq(Requests)
  BY PoolUntouched
<1>2. /\ session' \in [Conns -> Session]
      /\ \A c \in Conns : c # req[h].conn => session'[c] = session[c]
  BY DEF IInv, TypeOK
<1>3. \A k \in Requests \ {h} : req[k].conn # NoConn => session'[req[k].conn] = session[req[k].conn]
  BY <1>2, OwnConnection
<1>4. \A c \in free' : session'[c] = Clean
  BY <1>2, OwnConnection DEF IInv, TypeOK
<1>5. told' \subseteq users' \cup notes'
  BY DEF IInv, Store
<1>6. QED
  BY <1>1, <1>2, <1>3, <1>4, <1>5, HandlerStep

\* A statement that changes neither the connection nor, before the COMMIT, the tables.
LEMMA LocalStep ==
  ASSUME IInv, NEW h \in Requests, NEW s \in Handler, req' = [req EXCEPT ![h] = s],
         UNCHANGED <<users, notes, session, free, queue, told>>,
         \A k \in Requests \ {h} : Apart(s.pending, req[k].pending),
         ~At(h, "queue"), s.pc # "queue", s.conn = req[h].conn,
         HandlerInv(h)'
  PROVE  IInv'
<1>1. Waiting' /\ ConnectionsAccounted' /\ queue' \in Seq(Requests)
  BY PoolUntouched
<1>2. session' \in [Conns -> Session] /\ \A c \in free' : session'[c] = Clean
  BY DEF IInv, TypeOK
<1>3. Store(NoRecord)
  BY StoreNothing
<1>4. told' \subseteq users' \cup notes'
  BY DEF IInv
<1>5. QED
  BY <1>1, <1>2, <1>3, <1>4, HandlerStep

LEMMA Typed ==
  ASSUME IInv, NEW h \in Requests
  PROVE  /\ req[h] \in Handler /\ HandlerInv(h)
         /\ req[h].pc \in Holding => req[h].conn \in Conns /\ Conn(h) \in Session
<1>1. req[h] \in Handler /\ HandlerInv(h)
  BY DEF IInv, TypeOK
<1>2. req[h].pc \in Holding => req[h].conn \in Conns
  BY <1>1 DEF Handler, HandlerInv, Connected, StoresToken
<1>3. QED
  BY <1>1, <1>2 DEF IInv, TypeOK, Conn


\* A statement of the transaction machinery: the connection's session changes too.
LEMMA SessionStep ==
  ASSUME IInv, NEW h \in Requests, NEW s \in Handler, req' = [req EXCEPT ![h] = s],
         NEW new \in Session, session' = [session EXCEPT ![req[h].conn] = new],
         UNCHANGED <<users, notes, free, queue, told>>,
         s.pending \in {req[h].pending, NoRecord},
         ~At(h, "queue"), s.pc # "queue", s.conn = req[h].conn,
         HandlerInv(h)'
  PROVE  IInv'
<1>1. Store(NoRecord)
  BY StoreNothing
<1>2. \A k \in Requests \ {h} : Apart(s.pending, req[k].pending)
  BY StaysApart
<1>3. QED
  BY <1>1, <1>2, TxStep

----------------------------------------------------------------------------
(* The statements of a transaction *)

LEMMA BeginInv ==
  ASSUME IInv, NEW h \in Requests, Begin(h)
  PROVE  IInv'
<1> DEFINE next == IF StoresToken(h) THEN "work" ELSE "config"
           s    == [req[h] EXCEPT !.pc = next]
           new  == [session[req[h].conn] EXCEPT !.open = TRUE]
<1>1. /\ req[h] \in Handler /\ HandlerInv(h) /\ req[h].pc = "begin"
      /\ req[h].conn \in Conns /\ Conn(h) \in Session
  BY Typed DEF Begin, At, Holding
<1>2. next \in {"work", "config"} /\ next \in Pcs /\ (next = "work" <=> StoresToken(h))
  BY DEF Pcs
<1>3. new \in Session
  BY <1>1 DEF Session, Conn
<1>4. /\ req' = [req EXCEPT ![h] = s] /\ req'[h] = s
      /\ session' = [session EXCEPT ![req[h].conn] = new]
      /\ UNCHANGED <<users, notes, free, queue, told>>
  BY DEF Begin, IInv, TypeOK
<1> HIDE DEF next
<1>5. /\ s \in Handler /\ s.pc = next /\ s.op = req[h].op /\ s.tenant = req[h].tenant
      /\ s.email = req[h].email /\ s.conn = req[h].conn /\ s.inserting = req[h].inserting
      /\ s.seen = req[h].seen /\ s.pending = req[h].pending /\ s.status = req[h].status
      /\ s.known = req[h].known
  BY <1>1, <1>2 DEF Handler
<1> HIDE DEF s, new
<1>6. HandlerInv(h)'
  <2>1. Carries(h)' /\ Connected(h)'
    BY <1>1, <1>2, <1>4, <1>5
       DEF HandlerInv, Carries, Connected, StoresToken, At, Holding
  <2>2. Reads(h)' /\ Writes(h)' /\ Answers(h)' /\ Knows(h)'
    BY <1>1, <1>2, <1>4, <1>5 DEF HandlerInv, Reads, Writes, Answers, Knows, At
  <2>3. QED
    BY <2>1, <2>2 DEF HandlerInv
<1>7. ~At(h, "queue") /\ s.pc # "queue"
  BY <1>1, <1>2, <1>5 DEF At
<1>8. QED
  BY <1>3, <1>4, <1>5, <1>6, <1>7, SessionStep

LEMMA ConfigureInv ==
  ASSUME IInv, NEW h \in Requests, Configure(h)
  PROVE  IInv'
<1> DEFINE s   == [req[h] EXCEPT !.pc = "work"]
           new == [session[req[h].conn] EXCEPT !.tenant = req[h].tenant]
<1>1. /\ req[h] \in Handler /\ HandlerInv(h) /\ req[h].pc = "config"
      /\ req[h].conn \in Conns /\ Conn(h) \in Session
  BY Typed DEF Configure, At, Holding
<1>2. /\ s \in Handler
      /\ s.pc = "work" /\ s.op = req[h].op /\ s.tenant = req[h].tenant
      /\ s.email = req[h].email /\ s.conn = req[h].conn /\ s.inserting = req[h].inserting
      /\ s.seen = req[h].seen /\ s.pending = req[h].pending /\ s.status = req[h].status
      /\ s.known = req[h].known
  BY <1>1 DEF Handler, Pcs
<1>3. new \in Session /\ new.tenant = req[h].tenant
  BY <1>1 DEF Session, Conn, Handler
<1>4. /\ req' = [req EXCEPT ![h] = s] /\ req'[h] = s
      /\ session' = [session EXCEPT ![req[h].conn] = new]
      /\ UNCHANGED <<users, notes, free, queue, told>>
  BY DEF Configure, IInv, TypeOK
<1>5. Conn(h)' = new
  BY <1>1, <1>2, <1>4 DEF Conn, IInv, TypeOK
<1> HIDE DEF s, new
<1>6. HandlerInv(h)'
  BY <1>1, <1>2, <1>3, <1>4, <1>5
     DEF HandlerInv, Carries, Connected, StoresToken, Reads, Writes, Answers, Knows, OwnRow,
         At, Holding
<1>7. ~At(h, "queue") /\ s.pc # "queue"
  BY <1>1, <1>2 DEF At
<1>8. QED
  BY <1>2, <1>3, <1>4, <1>6, <1>7, SessionStep

LEMMA FindByEmailInv ==
  ASSUME IInv, NEW h \in Requests, FindByEmail(h)
  PROVE  IInv'
<1> DEFINE found == {u \in Visible(h, users) : u.email = req[h].email}
           s     == [req[h] EXCEPT !.pc = "commit", !.seen = found]
<1>1. /\ req[h] \in Handler /\ HandlerInv(h) /\ req[h].pc = "work"
      /\ req[h].op \in {"register", "login"} /\ ~req[h].inserting
  BY Typed DEF FindByEmail, At
<1>2. found \subseteq users /\ users \subseteq User
  BY DEF Visible, IInv, TypeOK
<1>3. \A row \in found : row.tenant = req[h].tenant /\ row.email = req[h].email
  BY <1>1 DEF Visible, HandlerInv, Connected, StoresToken, At
<1> HIDE DEF found
<1>4. /\ s \in Handler
      /\ s.pc = "commit" /\ s.op = req[h].op /\ s.tenant = req[h].tenant
      /\ s.email = req[h].email /\ s.conn = req[h].conn /\ s.inserting = req[h].inserting
      /\ s.seen = found /\ s.pending = req[h].pending /\ s.status = req[h].status
      /\ s.known = req[h].known
  BY <1>1, <1>2 DEF Handler, Pcs
<1>5. /\ req' = [req EXCEPT ![h] = s] /\ req'[h] = s
      /\ UNCHANGED <<users, notes, session, free, queue, told>>
  BY DEF FindByEmail, found, IInv, TypeOK
<1> HIDE DEF s
<1>6. HandlerInv(h)'
  <2>1. Reads(h)'
    BY <1>2, <1>3, <1>4, <1>5 DEF Reads
  <2>2. Carries(h)' /\ Connected(h)' /\ Writes(h)' /\ Answers(h)' /\ Knows(h)'
    BY <1>1, <1>4, <1>5
       DEF HandlerInv, Carries, Connected, StoresToken, Writes, Answers, Knows, At, Holding
  <2>3. QED
    BY <2>1, <2>2 DEF HandlerInv
<1>7. \A k \in Requests \ {h} : Apart(s.pending, req[k].pending)
  BY <1>4, StaysApart
<1>8. ~At(h, "queue") /\ s.pc # "queue"
  BY <1>1, <1>4 DEF At
<1>9. QED
  BY <1>4, <1>5, <1>6, <1>7, <1>8, LocalStep

LEMMA FindNotesInv ==
  ASSUME IInv, NEW h \in Requests, FindNotes(h)
  PROVE  IInv'
<1> DEFINE found == Visible(h, notes)
           s     == [req[h] EXCEPT !.pc = "commit", !.seen = found]
<1>1. /\ req[h] \in Handler /\ HandlerInv(h) /\ req[h].pc = "work"
      /\ req[h].op = "listNotes"
  BY Typed DEF FindNotes, Working, At
<1>2. found \subseteq notes /\ notes \subseteq Note
  BY DEF Visible, IInv, TypeOK
<1>3. \A row \in notes : row \in found <=> row.tenant = req[h].tenant
  BY <1>1 DEF Visible, HandlerInv, Connected, StoresToken, At
<1> HIDE DEF found
<1>4. /\ s \in Handler
      /\ s.pc = "commit" /\ s.op = req[h].op /\ s.tenant = req[h].tenant
      /\ s.email = req[h].email /\ s.conn = req[h].conn /\ s.inserting = req[h].inserting
      /\ s.seen = found /\ s.pending = req[h].pending /\ s.status = req[h].status
      /\ s.known = req[h].known
  BY <1>1, <1>2 DEF Handler, Pcs
<1>5. /\ req' = [req EXCEPT ![h] = s] /\ req'[h] = s
      /\ UNCHANGED <<users, notes, session, free, queue, told>>
  BY DEF FindNotes, found, IInv, TypeOK
<1> HIDE DEF s
<1>6. HandlerInv(h)'
  <2>1. Reads(h)'
    BY <1>1, <1>2, <1>3, <1>4, <1>5 DEF Reads
  <2>2. Knows(h)'
    BY <1>1, <1>2, <1>3, <1>4, <1>5 DEF HandlerInv, Knows
  <2>3. Carries(h)' /\ Connected(h)' /\ Writes(h)' /\ Answers(h)'
    BY <1>1, <1>4, <1>5
       DEF HandlerInv, Carries, Connected, StoresToken, Writes, Answers, At, Holding
  <2>4. QED
    BY <2>1, <2>2, <2>3 DEF HandlerInv
<1>7. \A k \in Requests \ {h} : Apart(s.pending, req[k].pending)
  BY <1>4, StaysApart
<1>8. ~At(h, "queue") /\ s.pc # "queue"
  BY <1>1, <1>4 DEF At
<1>9. QED
  BY <1>4, <1>5, <1>6, <1>7, <1>8, LocalStep

\* On a connection without a tenant the policies show no row.
LEMMA UntenantedInv ==
  ASSUME IInv, NEW h \in Requests, Untenanted(h)
  PROVE  IInv'
<1> DEFINE found == Visible(h, users \cup notes)
           s     == [req[h] EXCEPT !.pc = "release", !.seen = found]
<1>1. /\ req[h] \in Handler /\ HandlerInv(h) /\ req[h].pc = "work"
      /\ req[h].op = "untenanted" /\ req[h].tenant = NoTenant
      /\ Conn(h) = Clean
  BY Typed DEF Untenanted, Working, At, HandlerInv, Carries, Connected, StoresToken
<1>2. found \subseteq users \cup notes /\ users \subseteq User /\ notes \subseteq Note
  BY DEF Visible, IInv, TypeOK
<1>3. \A row \in found : row.tenant = req[h].tenant
  BY <1>1, SessionFields DEF Visible
<1> HIDE DEF found
<1>4. /\ s \in Handler
      /\ s.pc = "release" /\ s.op = req[h].op /\ s.tenant = req[h].tenant
      /\ s.email = req[h].email /\ s.conn = req[h].conn /\ s.inserting = req[h].inserting
      /\ s.seen = found /\ s.pending = req[h].pending /\ s.status = req[h].status
      /\ s.known = req[h].known
  BY <1>1, <1>2 DEF Handler, Pcs
<1>5. /\ req' = [req EXCEPT ![h] = s] /\ req'[h] = s
      /\ UNCHANGED <<users, notes, session, free, queue, told>>
  BY DEF Untenanted, found, IInv, TypeOK
<1> HIDE DEF s
<1>6. HandlerInv(h)'
  <2>1. Reads(h)'
    BY <1>1, <1>3, <1>4, <1>5 DEF Reads
  <2>2. Connected(h)'
    BY <1>1, <1>4, <1>5 DEF HandlerInv, Connected, StoresToken, At, Holding, Conn
  <2>3. Carries(h)' /\ Writes(h)' /\ Answers(h)' /\ Knows(h)'
    BY <1>1, <1>4, <1>5 DEF HandlerInv, Carries, StoresToken, Writes, Answers, Knows, At
  <2>4. QED
    BY <2>1, <2>2, <2>3 DEF HandlerInv
<1>7. \A k \in Requests \ {h} : Apart(s.pending, req[k].pending)
  BY <1>4, StaysApart
<1>8. ~At(h, "queue") /\ s.pc # "queue"
  BY <1>1, <1>4 DEF At
<1>9. QED
  BY <1>4, <1>5, <1>6, <1>7, <1>8, LocalStep

\* The row a registration inserts is a row of its tenant that nobody else is storing.
LEMMA StoreTokenInv ==
  ASSUME IInv, NEW h \in Requests, StoreToken(h)
  PROVE  IInv'
<1> DEFINE s == [req[h] EXCEPT !.pc = "commit"]
<1>1. /\ req[h] \in Handler /\ HandlerInv(h) /\ req[h].pc = "work" /\ req[h].op = "login"
  BY Typed DEF StoreToken, StoresToken, At
<1>2. /\ s \in Handler
      /\ s.pc = "commit" /\ s.op = req[h].op /\ s.tenant = req[h].tenant
      /\ s.email = req[h].email /\ s.conn = req[h].conn /\ s.inserting = req[h].inserting
      /\ s.seen = req[h].seen /\ s.pending = req[h].pending /\ s.status = req[h].status
      /\ s.known = req[h].known
  BY <1>1 DEF Handler, Pcs
<1>3. /\ req' = [req EXCEPT ![h] = s] /\ req'[h] = s
      /\ UNCHANGED <<users, notes, session, free, queue, told>>
  BY DEF StoreToken, IInv, TypeOK
<1> HIDE DEF s
<1>4. HandlerInv(h)'
  <2>1. Carries(h)' /\ Connected(h)' /\ Reads(h)'
    BY <1>1, <1>2, <1>3
       DEF HandlerInv, Carries, Connected, StoresToken, Reads, At, Holding
  <2>2. Writes(h)' /\ Answers(h)' /\ Knows(h)'
    BY <1>1, <1>2, <1>3 DEF HandlerInv, Writes, Answers, Knows, At
  <2>3. QED
    BY <2>1, <2>2 DEF HandlerInv
<1>5. \A k \in Requests \ {h} : Apart(s.pending, req[k].pending)
  BY <1>2, StaysApart
<1>6. ~At(h, "queue") /\ s.pc # "queue"
  BY <1>1, <1>2 DEF At
<1>7. QED
  BY <1>2, <1>3, <1>4, <1>5, <1>6, LocalStep

LEMMA InsertUserInv ==
  ASSUME IInv, NEW h \in Requests, InsertUser(h)
  PROVE  IInv'
<1> DEFINE row == [tenant |-> req[h].tenant, email |-> req[h].email]
           s   == [req[h] EXCEPT !.pc = "commit", !.pending = row]
<1>1. /\ req[h] \in Handler /\ HandlerInv(h) /\ req[h].pc = "work"
      /\ req[h].op = "register" /\ req[h].inserting
      /\ KeyFree(h, row) /\ row \notin users
  BY Typed DEF InsertUser, Working, At
<1>2. row \in User
  BY <1>1, RowFields DEF HandlerInv, Carries, StoresToken, Handler
<1>3. row # NoRecord /\ row \notin Note /\ row \notin told
  BY <1>1, <1>2, RowKinds DEF IInv, TypeOK
<1> HIDE DEF row
<1>4. /\ s \in Handler
      /\ s.pc = "commit" /\ s.op = req[h].op /\ s.tenant = req[h].tenant
      /\ s.email = req[h].email /\ s.conn = req[h].conn /\ s.inserting = req[h].inserting
      /\ s.seen = req[h].seen /\ s.pending = row /\ s.status = req[h].status
      /\ s.known = req[h].known
  BY <1>1, <1>2 DEF Handler, Pcs
<1>5. /\ req' = [req EXCEPT ![h] = s] /\ req'[h] = s
      /\ UNCHANGED <<users, notes, session, free, queue, told>>
  BY DEF InsertUser, row, IInv, TypeOK
<1> HIDE DEF s
<1>6. HandlerInv(h)'
  <2>1. Writes(h)'
    <3>1. OwnRow(h)'
      BY <1>1, <1>4, <1>5 DEF OwnRow, row
    <3>2. QED
      BY <1>1, <1>3, <1>4, <1>5, <3>1 DEF Writes, At
  <2>2. Carries(h)' /\ Connected(h)' /\ Reads(h)' /\ Answers(h)' /\ Knows(h)'
    BY <1>1, <1>3, <1>4, <1>5
       DEF HandlerInv, Carries, Connected, StoresToken, Reads, Answers, Knows, At, Holding
  <2>3. QED
    BY <2>1, <2>2 DEF HandlerInv
<1>7. ASSUME NEW k \in Requests \ {h} PROVE Apart(s.pending, req[k].pending)
  <2>1. CASE At(k, "commit")
    BY <1>1, <1>3, <1>4, <2>1 DEF KeyFree, Apart
  <2>2. CASE ~At(k, "commit")
    <3>1. req[k].pending # NoRecord => req[k].pending \in users \cup notes
      BY <2>2 DEF IInv, HandlerInv, Writes
    <3>2. row \notin users \cup notes
      BY <1>1, <1>3 DEF IInv, TypeOK
    <3>3. QED
      BY <1>3, <1>4, <3>1, <3>2 DEF Apart
  <2>3. QED
    BY <2>1, <2>2
<1>8. ~At(h, "queue") /\ s.pc # "queue"
  BY <1>1, <1>4 DEF At
<1>9. QED
  BY <1>4, <1>5, <1>6, <1>7, <1>8, LocalStep

\* The same update, written field by field.
Updates(h, pc, status) == req' = [req EXCEPT ![h].pc = pc, ![h].status = status]

LEMMA UpdatesSettle ==
  ASSUME IInv, NEW h \in Requests, NEW pc, NEW status, Updates(h, pc, status)
  PROVE  Settles(h, pc, status)
BY DEF IInv, TypeOK, Updates, Settles, Settled

LEMMA UniqueViolationInv ==
  ASSUME IInv, NEW h \in Requests, UniqueViolation(h)
  PROVE  IInv'
<1> DEFINE s == Settled(req[h], "rollback", 409)
<1>1. /\ req[h] \in Handler /\ HandlerInv(h) /\ req[h].pc = "work" /\ req[h].op = "register"
      /\ [tenant |-> req[h].tenant, email |-> req[h].email] \in users
  BY Typed DEF UniqueViolation, Working, At
<1>2. "rollback" \in Pcs /\ 409 \in Statuses
  BY Labels
<1>3. /\ s \in Handler
      /\ s.pc = "rollback" /\ s.op = req[h].op /\ s.tenant = req[h].tenant
      /\ s.email = req[h].email /\ s.conn = req[h].conn /\ s.inserting = req[h].inserting
      /\ s.seen = req[h].seen /\ s.pending = req[h].pending /\ s.status = 409
      /\ s.known = req[h].known
  BY <1>1, <1>2, SettledFields
<1>4. /\ req' = [req EXCEPT ![h] = s] /\ req'[h] = s
      /\ UNCHANGED <<users, notes, session, free, queue, told>>
  <2>1. req' = [req EXCEPT ![h] = s]
    <3>1. Updates(h, "rollback", 409)
      BY DEF UniqueViolation, Updates
    <3>2. QED
      BY <3>1, UpdatesSettle DEF Settles
  <2>2. UNCHANGED <<users, notes, session, free, queue, told>>
    BY DEF UniqueViolation
  <2> HIDE DEF s
  <2>3. QED
    BY <2>1, <2>2 DEF IInv, TypeOK
<1> HIDE DEF s
<1>5. HandlerInv(h)'
  BY <1>1, <1>3, <1>4
     DEF HandlerInv, Carries, Connected, StoresToken, Reads, Writes, Answers, Knows, At, Holding
<1>6. \A k \in Requests \ {h} : Apart(s.pending, req[k].pending)
  BY <1>3, StaysApart
<1>7. ~At(h, "queue") /\ s.pc # "queue"
  BY <1>1, <1>3 DEF At
<1>8. s \in Handler /\ s.conn = req[h].conn
  BY <1>3
<1>9. QED
  BY <1>4, <1>5, <1>6, <1>7, <1>8, LocalStep

\* The id of a new note is in no note and in no other transaction's pending one.
LEMMA InsertNoteInv ==
  ASSUME IInv, NEW h \in Requests, NEW id \in NoteIds, InsertNote(h, id)
  PROVE  IInv'
<1> DEFINE row == [tenant |-> req[h].tenant, id |-> id]
           s   == [req[h] EXCEPT !.pc = "commit", !.pending = row]
<1>1. /\ req[h] \in Handler /\ HandlerInv(h) /\ req[h].pc = "work"
      /\ req[h].op = "createNote"
      /\ \A t \in Tenants, k \in Requests :
           /\ [tenant |-> t, id |-> id] \notin notes
           /\ req[k].pending # [tenant |-> t, id |-> id]
  BY Typed DEF InsertNote, Working, At
<1>2. req[h].tenant \in Tenants
  BY <1>1 DEF HandlerInv, Carries, StoresToken, Handler
<1>3. row \in Note /\ row.tenant = req[h].tenant /\ row.id = id
  BY <1>2 DEF Note
<1>4. \A other \in Note : other.id = id =>
        other \notin notes /\ \A k \in Requests : req[k].pending # other
  BY <1>1, RowFields
<1>5. row # NoRecord /\ row \notin users /\ row \notin notes /\ row \notin told
  BY <1>3, <1>4, RowKinds DEF IInv, TypeOK
<1> HIDE DEF row
<1>6. /\ s \in Handler
      /\ s.pc = "commit" /\ s.op = req[h].op /\ s.tenant = req[h].tenant
      /\ s.email = req[h].email /\ s.conn = req[h].conn /\ s.inserting = req[h].inserting
      /\ s.seen = req[h].seen /\ s.pending = row /\ s.status = req[h].status
      /\ s.known = req[h].known
  BY <1>1, <1>3 DEF Handler, Pcs
<1>7. /\ req' = [req EXCEPT ![h] = s] /\ req'[h] = s
      /\ UNCHANGED <<users, notes, session, free, queue, told>>
  BY DEF InsertNote, row, IInv, TypeOK
<1> HIDE DEF s
<1>8. HandlerInv(h)'
  <2>1. \A other \in notes : other.id # id
    BY <1>4 DEF IInv, TypeOK
  <2>2. Writes(h)'
    BY <1>1, <1>3, <1>5, <1>6, <1>7, <2>1 DEF Writes, OwnRow, At
  <2>3. Carries(h)' /\ Connected(h)' /\ Reads(h)' /\ Answers(h)' /\ Knows(h)'
    BY <1>1, <1>5, <1>6, <1>7
       DEF HandlerInv, Carries, Connected, StoresToken, Reads, Answers, Knows, At, Holding
  <2>4. QED
    BY <2>2, <2>3 DEF HandlerInv
<1>9. ASSUME NEW k \in Requests \ {h} PROVE Apart(s.pending, req[k].pending)
  BY <1>3, <1>4, <1>6 DEF Apart
<1>10. ~At(h, "queue") /\ s.pc # "queue"
  BY <1>1, <1>6 DEF At
<1>11. QED
  BY <1>6, <1>7, <1>8, <1>9, <1>10, LocalStep

----------------------------------------------------------------------------
(* The end of a transaction, and its failures *)

\* However a transaction ends, no setting of it is left on its connection.
LEMMA TransactionEnds ==
  ASSUME IInv, NEW h \in Requests, req[h].pc \in Holding
  PROVE  \E new \in {Clean, Broken} : EndTransaction(h) = [session EXCEPT ![req[h].conn] = new]
<1> DEFINE new == [session[req[h].conn] EXCEPT !.open = FALSE, !.tenant = NoTenant]
<1>1. session[req[h].conn] \in Session
  BY Typed DEF Conn
<1>2. new \in Session /\ new.open = FALSE /\ new.tenant = NoTenant
  BY <1>1 DEF Session
<1>3. EndTransaction(h) = [session EXCEPT ![req[h].conn] = new]
  BY DEF EndTransaction
<1> HIDE DEF new
<1>4. new \in {Clean, Broken}
  BY <1>2, CleanSession
<1>5. QED
  BY <1>3, <1>4

LEMMA CommitInv ==
  ASSUME IInv, NEW h \in Requests, Commit(h)
  PROVE  IInv'
<1> DEFINE s == [req[h] EXCEPT !.pc = "release"]
<1>1. /\ req[h] \in Handler /\ HandlerInv(h) /\ req[h].pc = "commit"
      /\ req[h].conn \in Conns
  BY Typed DEF Commit, At, Holding
<1>2. PICK new \in {Clean, Broken} : EndTransaction(h) = [session EXCEPT ![req[h].conn] = new]
  BY <1>1, TransactionEnds DEF Holding
<1>3. /\ s \in Handler
      /\ s.pc = "release" /\ s.op = req[h].op /\ s.tenant = req[h].tenant
      /\ s.email = req[h].email /\ s.conn = req[h].conn /\ s.inserting = req[h].inserting
      /\ s.seen = req[h].seen /\ s.pending = req[h].pending /\ s.status = req[h].status
      /\ s.known = req[h].known
  BY <1>1 DEF Handler, Pcs
<1>4. /\ req' = [req EXCEPT ![h] = s] /\ req'[h] = s
      /\ session' = [session EXCEPT ![req[h].conn] = new]
      /\ Store(req[h].pending)
      /\ UNCHANGED <<free, queue, told>>
  BY <1>2 DEF Commit, IInv, TypeOK
<1>5. Conn(h)' = new
  BY <1>1, <1>3, <1>4 DEF Conn, IInv, TypeOK
<1>6. req[h].pending \in User \cup Note \cup {NoRecord}
  BY <1>1 DEF Handler
<1>7. /\ users \subseteq users' /\ notes \subseteq notes'
      /\ req[h].pending # NoRecord => req[h].pending \in users' \cup notes'
  BY <1>4, <1>6 DEF Store
<1> HIDE DEF s
<1>8. HandlerInv(h)'
  <2>1. Writes(h)'
    BY <1>1, <1>3, <1>4, <1>7 DEF HandlerInv, Writes, OwnRow, At
  <2>2. Connected(h)'
    BY <1>1, <1>2, <1>3, <1>4, <1>5 DEF HandlerInv, Connected, StoresToken, At, Holding
  <2>3. Reads(h)' /\ Knows(h)'
    BY <1>1, <1>3, <1>4, <1>7 DEF HandlerInv, Reads, Knows
  <2>4. Carries(h)' /\ Answers(h)'
    BY <1>1, <1>3, <1>4, <1>7 DEF HandlerInv, Carries, StoresToken, Answers, At
  <2>5. QED
    BY <2>1, <2>2, <2>3, <2>4 DEF HandlerInv
<1>9. \A k \in Requests \ {h} : Apart(s.pending, req[k].pending)
  BY <1>3, StaysApart
<1>10. ~At(h, "queue") /\ s.pc # "queue" /\ new \in Session /\ At(h, "commit")
  BY <1>1, <1>2, <1>3, SessionFields DEF At
<1>11. QED
  BY <1>3, <1>4, <1>6, <1>8, <1>9, <1>10, TxStep

LEMMA RollbackInv ==
  ASSUME IInv, NEW h \in Requests, Rollback(h)
  PROVE  IInv'
<1> DEFINE s == [req[h] EXCEPT !.pc = "release", !.pending = NoRecord]
<1>1. /\ req[h] \in Handler /\ HandlerInv(h) /\ req[h].pc = "rollback"
      /\ req[h].conn \in Conns
  BY Typed DEF Rollback, At, Holding
<1>2. PICK new \in {Clean, Broken} : EndTransaction(h) = [session EXCEPT ![req[h].conn] = new]
  BY <1>1, TransactionEnds DEF Holding
<1>3. /\ s \in Handler
      /\ s.pc = "release" /\ s.op = req[h].op /\ s.tenant = req[h].tenant
      /\ s.email = req[h].email /\ s.conn = req[h].conn /\ s.inserting = req[h].inserting
      /\ s.seen = req[h].seen /\ s.pending = NoRecord /\ s.status = req[h].status
      /\ s.known = req[h].known
  BY <1>1 DEF Handler, Pcs
<1>4. /\ req' = [req EXCEPT ![h] = s] /\ req'[h] = s
      /\ session' = [session EXCEPT ![req[h].conn] = new]
      /\ UNCHANGED <<users, notes, free, queue, told>>
  BY <1>2 DEF Rollback, IInv, TypeOK
<1>5. Conn(h)' = new
  BY <1>1, <1>3, <1>4 DEF Conn, IInv, TypeOK
<1> HIDE DEF s
<1>6. Knows(h)'
  \* a request rolled back has an error for its answer
  BY <1>1, <1>3, <1>4 DEF HandlerInv, Knows, Answers, At
<1>7. HandlerInv(h)'
  BY <1>1, <1>2, <1>3, <1>4, <1>5, <1>6
     DEF HandlerInv, Carries, Connected, StoresToken, Reads, Writes, Answers, At, Holding
<1>8. ~At(h, "queue") /\ s.pc # "queue" /\ new \in Session
  BY <1>1, <1>2, <1>3, SessionFields DEF At
<1>9. QED
  BY <1>3, <1>4, <1>7, <1>8, SessionStep

LEMMA StatementFailsInv ==
  ASSUME IInv, NEW h \in Requests, StatementFails(h)
  PROVE  IInv'
<1> DEFINE next == IF req[h].op = "untenanted" THEN "release" ELSE "rollback"
           s    == Settled(req[h], next, 400)
<1>1. req[h] \in Handler /\ HandlerInv(h) /\ req[h].pc \in {"begin", "config", "work"}
  BY Typed DEF StatementFails
<1>2. /\ next \in {"release", "rollback"} /\ next \in Pcs
      /\ next = "release" <=> req[h].op = "untenanted"
  BY Labels
<1> HIDE DEF next
<1>3. req[h] \in Handler /\ next \in Pcs /\ 400 \in Statuses
  BY <1>1, <1>2, Labels
<1>4. /\ s \in Handler
      /\ s.pc = next /\ s.op = req[h].op /\ s.tenant = req[h].tenant
      /\ s.email = req[h].email /\ s.conn = req[h].conn /\ s.inserting = req[h].inserting
      /\ s.seen = req[h].seen /\ s.pending = req[h].pending /\ s.status = 400
      /\ s.known = req[h].known
  BY <1>3, SettledFields
<1>5. /\ req' = [req EXCEPT ![h] = s] /\ req'[h] = s
      /\ UNCHANGED <<users, notes, session, free, queue, told>>
  BY DEF StatementFails, Settled, next, IInv, TypeOK
<1> HIDE DEF s
<1>6. Connected(h)'
  BY <1>1, <1>2, <1>4, <1>5 DEF HandlerInv, Carries, Connected, StoresToken, At, Holding, Conn
<1>7. HandlerInv(h)'
  BY <1>1, <1>2, <1>4, <1>5, <1>6
     DEF HandlerInv, Carries, StoresToken, Reads, Writes, Answers, Knows, At
<1>8. \A k \in Requests \ {h} : Apart(s.pending, req[k].pending)
  BY <1>4, StaysApart
<1>9. ~At(h, "queue") /\ s.pc # "queue"
  BY <1>1, <1>2, <1>4 DEF At
<1>10. QED
  BY <1>4, <1>5, <1>7, <1>8, <1>9, LocalStep

\* A lost connection, whether or not the COMMIT sent on it was carried out.
LEMMA ConnectionLostInv ==
  ASSUME IInv, NEW h \in Requests, ConnectionLost(h)
  PROVE  IInv'
<1> DEFINE next == IF req[h].op = "untenanted" THEN "release" ELSE "rollback"
           r    == Settled(req[h], next, 400)
           s    == [r EXCEPT !.pending = NoRecord]
<1>1. /\ req[h] \in Handler /\ HandlerInv(h) /\ req[h].conn \in Conns
      /\ req[h].pc \in {"begin", "config", "work", "commit", "rollback"}
  BY Typed DEF ConnectionLost, Holding
<1>2. /\ next \in {"release", "rollback"} /\ next \in Pcs
      /\ next = "release" <=> req[h].op = "untenanted"
  BY Labels
<1> HIDE DEF next
<1>3. req[h] \in Handler /\ next \in Pcs /\ 400 \in Statuses
  BY <1>1, <1>2, Labels
<1>4. /\ s \in Handler
      /\ s.pc = next /\ s.op = req[h].op /\ s.tenant = req[h].tenant
      /\ s.email = req[h].email /\ s.conn = req[h].conn /\ s.inserting = req[h].inserting
      /\ s.seen = req[h].seen /\ s.pending = NoRecord /\ s.status = 400
      /\ s.known = req[h].known
  <2>1. /\ r \in Handler
        /\ r.pc = next /\ r.op = req[h].op /\ r.tenant = req[h].tenant
        /\ r.email = req[h].email /\ r.conn = req[h].conn /\ r.inserting = req[h].inserting
        /\ r.seen = req[h].seen /\ r.status = 400 /\ r.known = req[h].known
    BY <1>3, SettledFields
  <2> HIDE DEF r
  <2>2. QED
    BY <2>1 DEF Handler
<1>5. /\ req' = [req EXCEPT ![h] = s] /\ req'[h] = s
      /\ session' = [session EXCEPT ![req[h].conn] = Broken]
      /\ UNCHANGED <<free, queue, told>>
  <2>1. req' = [req EXCEPT ![h] = s]
    BY <1>1 DEF ConnectionLost, Settled, next, IInv, TypeOK
  <2> HIDE DEF s
  <2>2. req'[h] = s
    BY <2>1 DEF IInv, TypeOK
  <2>3. QED
    BY <2>1, <2>2 DEF ConnectionLost
<1>6. PICK row \in {NoRecord, req[h].pending} : Store(row) /\ (row # NoRecord => At(h, "commit"))
  BY DEF ConnectionLost
<1>7. /\ row \in User \cup Note \cup {NoRecord}
      /\ users \subseteq users' /\ notes \subseteq notes'
  BY <1>1, <1>6 DEF Handler, Store
<1>8. Conn(h)' = Broken
  BY <1>1, <1>4, <1>5 DEF Conn, IInv, TypeOK
<1> HIDE DEF s
<1>9. HandlerInv(h)'
  <2>1. Connected(h)'
    BY <1>1, <1>2, <1>4, <1>5, <1>8 DEF HandlerInv, Connected, StoresToken, At, Holding
  <2>2. Reads(h)'
    BY <1>1, <1>4, <1>5, <1>7 DEF HandlerInv, Reads
  <2>3. Carries(h)' /\ Writes(h)' /\ Answers(h)' /\ Knows(h)'
    BY <1>1, <1>2, <1>4, <1>5, <1>7 DEF HandlerInv, Carries, StoresToken, Writes, Answers, Knows, At
  <2>4. QED
    BY <2>1, <2>2, <2>3 DEF HandlerInv
<1>10. \A k \in Requests \ {h} : Apart(s.pending, req[k].pending)
  BY <1>4, StaysApart
<1>11. ~At(h, "queue") /\ s.pc # "queue" /\ (row # NoRecord => row = req[h].pending)
  BY <1>1, <1>2, <1>4, <1>6 DEF At
<1>12. Broken \in Session /\ s \in Handler /\ s.conn = req[h].conn
  BY <1>4, SessionFields
<1>13. QED
  BY <1>5, <1>6, <1>7, <1>9, <1>10, <1>11, <1>12, TxStep

----------------------------------------------------------------------------
(* The pool *)

\* Nothing but h's record and the queue changes, and h's connection stays what it was.
LEMMA QueueStep ==
  ASSUME IInv, NEW h \in Requests, NEW s \in Handler, req' = [req EXCEPT ![h] = s],
         UNCHANGED <<users, notes, session, free, told>>,
         queue' \in Seq(Requests), Waiting',
         s.pending = req[h].pending, s.conn = req[h].conn,
         HandlerInv(h)'
  PROVE  IInv'
<1>1. /\ req'[h] = s
      /\ \A k \in Requests \ {h} : req'[k] = req[k]
      /\ \A k \in Requests : req'[k].conn = req[k].conn
  BY DEF IInv, TypeOK
<1>2. {req'[k].conn : k \in Requests} = {req[k].conn : k \in Requests}
  BY <1>1
<1>3. ConnectionsAccounted'
  BY <1>1, <1>2 DEF IInv, ConnectionsAccounted
<1>4. session' \in [Conns -> Session] /\ \A c \in free' : session'[c] = Clean
  BY DEF IInv, TypeOK
<1>5. Store(NoRecord)
  BY StoreNothing
<1>6. told' \subseteq users' \cup notes'
  BY DEF IInv
<1>7. \A k \in Requests \ {h} : Apart(s.pending, req[k].pending)
  BY StaysApart
<1>8. QED
  BY <1>3, <1>4, <1>5, <1>6, <1>7, HandlerStep

\* A request that did not wait joins the end of the queue.
LEMMA QueueJoined ==
  ASSUME IInv, NEW h \in Requests, NEW s, req' = [req EXCEPT ![h] = s],
         ~At(h, "queue"), s.pc = "queue", queue' = Append(queue, h)
  PROVE  queue' \in Seq(Requests) /\ Waiting'
<1>1. /\ req'[h] = s
      /\ \A k \in Requests \ {h} : req'[k] = req[k]
  BY DEF IInv, TypeOK
<1>2. /\ queue \in Seq(Requests) /\ Len(queue) \in Nat
      /\ \A i \in 1..Len(queue) : queue[i] \in Requests /\ queue[i] # h
  BY ElementOfSeq, LenProperties DEF IInv, TypeOK, Waiting, At
<1>3. /\ queue' \in Seq(Requests) /\ Len(queue') = Len(queue) + 1
      /\ \A i \in 1..Len(queue) : queue'[i] = queue[i]
      /\ queue'[Len(queue) + 1] = h
  BY <1>2, AppendProperties
<1>4. \A i \in 1..Len(queue') : i \in 1..Len(queue) \/ i = Len(queue) + 1
  BY <1>2, <1>3
<1>5. \A i \in 1..Len(queue') : req'[queue'[i]].pc = "queue"
  BY <1>1, <1>2, <1>3, <1>4 DEF IInv, Waiting, At
<1>6. \A i, j \in 1..Len(queue') : queue'[i] = queue'[j] => i = j
  BY <1>2, <1>3, <1>4 DEF IInv, Waiting
<1>7. ASSUME NEW k \in Requests, req'[k].pc = "queue"
      PROVE  \E i \in 1..Len(queue') : queue'[i] = k
  <2>1. CASE k = h
    BY <1>2, <1>3, <2>1
  <2>2. CASE k # h
    <3>1. PICK i \in 1..Len(queue) : queue[i] = k
      BY <1>1, <1>7, <2>2 DEF IInv, Waiting, At
    <3>2. i \in 1..Len(queue') /\ queue'[i] = k
      BY <1>2, <1>3, <3>1
    <3>3. QED
      BY <3>2
  <2>3. QED
    BY <2>1, <2>2
<1>8. QED
  BY <1>3, <1>5, <1>6, <1>7 DEF Waiting, At

\* The request at place i leaves the queue, and those behind it move up.
LEMMA QueueLeft ==
  ASSUME IInv, NEW h \in Requests, NEW s, req' = [req EXCEPT ![h] = s], s.pc # "queue",
         NEW i \in 1..Len(queue), queue[i] = h,
         queue' \in Seq(Requests), Len(queue') = Len(queue) - 1,
         \A j \in 1..Len(queue) - 1 : queue'[j] = IF j < i THEN queue[j] ELSE queue[j + 1]
  PROVE  Waiting'
<1>1. /\ req'[h] = s
      /\ \A k \in Requests \ {h} : req'[k] = req[k]
  BY DEF IInv, TypeOK
<1>2. /\ Len(queue) \in Nat
      /\ \A j \in 1..Len(queue) : queue[j] \in Requests /\ req[queue[j]].pc = "queue"
      /\ \A j, k \in 1..Len(queue) : queue[j] = queue[k] => j = k
  BY ElementOfSeq, LenProperties DEF IInv, TypeOK, Waiting, At
<1> DEFINE old(j) == IF j < i THEN j ELSE j + 1
<1>3. \A j \in 1..Len(queue') : /\ old(j) \in 1..Len(queue) /\ old(j) # i
                                /\ queue'[j] = queue[old(j)]
  BY <1>2
<1>4. \A j, k \in 1..Len(queue') : old(j) = old(k) => j = k
  BY <1>2
<1>5. \A j \in 1..Len(queue) : j # i => \E k \in 1..Len(queue') : old(k) = j
  <2>1. ASSUME NEW j \in 1..Len(queue), j # i
        PROVE  \E k \in 1..Len(queue') : old(k) = j
    <3> DEFINE k == IF j < i THEN j ELSE j - 1
    <3>1. k \in 1..Len(queue') /\ old(k) = j
      BY <1>2, <2>1
    <3> HIDE DEF k
    <3>2. QED
      BY <3>1
  <2>2. QED
    BY <2>1
<1> HIDE DEF old
<1>6. \A j \in 1..Len(queue') : req'[queue'[j]].pc = "queue"
  BY <1>1, <1>2, <1>3
<1>7. \A j, k \in 1..Len(queue') : queue'[j] = queue'[k] => j = k
  BY <1>2, <1>3, <1>4
<1>8. ASSUME NEW k \in Requests, req'[k].pc = "queue"
      PROVE  \E j \in 1..Len(queue') : queue'[j] = k
  <2>1. k # h /\ req[k].pc = "queue"
    BY <1>1, <1>8
  <2>2. PICK j \in 1..Len(queue) : queue[j] = k
    BY <2>1 DEF IInv, Waiting, At
  <2>3. j # i
    BY <2>1, <2>2
  <2>4. QED
    BY <1>3, <1>5, <2>2, <2>3
<1>9. QED
  BY <1>6, <1>7, <1>8 DEF Waiting, At

LEMMA ArriveInv ==
  ASSUME IInv, NEW h \in Requests, NEW op \in Ops, NEW t \in Tenants \cup {NoTenant},
         NEW e \in Emails \cup {NoRecord}, Arrive(h, op, t, e),
         op = "untenanted" <=> t = NoTenant,
         op \in {"register", "login"} => e \in Emails
  PROVE  IInv'
<1> DEFINE known == {row \in told \cap Note : row.tenant = t}
           s == [Idle EXCEPT !.pc = "queue", !.op = op, !.tenant = t, !.email = e, !.known = known]
<1>1. req[h] \in Handler /\ req[h] = Idle
  BY Typed DEF Arrive, HandlerInv, Carries, StoresToken
<1>2. known \subseteq Note /\ \A row \in known : row \in notes /\ row.tenant = t
  <2>1. told \subseteq users \cup notes /\ users \subseteq User
    BY DEF IInv, TypeOK
  <2>2. QED
    BY <2>1, RowKinds
<1> HIDE DEF known
<1>3. s \in Handler
  <2>1. Idle \in Handler /\ "queue" \in Pcs
    BY IdleHandler DEF Pcs
  <2>2. QED
    BY <1>2, <2>1 DEF Handler
<1>4. /\ s.pc = "queue" /\ s.op = op /\ s.tenant = t /\ s.email = e /\ s.conn = NoConn
      /\ s.inserting = FALSE /\ s.seen = {} /\ s.pending = NoRecord /\ s.status = 0
      /\ s.known = known
  BY IdleHandler DEF Handler
<1>5. /\ req' = [req EXCEPT ![h] = s] /\ req'[h] = s /\ queue' = Append(queue, h)
      /\ UNCHANGED <<users, notes, session, free, told>>
  BY DEF Arrive, known, IInv, TypeOK
<1> HIDE DEF s
<1>6. HandlerInv(h)'
  BY <1>2, <1>4, <1>5
     DEF HandlerInv, Carries, Connected, StoresToken, Reads, Writes, Answers, Knows, At, Holding
<1>7. ~At(h, "queue") /\ s.conn = req[h].conn /\ s.pending = req[h].pending
  BY <1>1, <1>4, IdleHandler DEF At
<1>8. QED
  BY <1>3, <1>4, <1>5, <1>6, <1>7, QueueJoined, QueueStep

\* After bcrypt a registration or a login that goes on joins the queue again.
LEMMA QueueAgain ==
  ASSUME IInv, NEW h \in Requests, At(h, "hash"),
         req' = [req EXCEPT ![h].pc = "queue", ![h].inserting = TRUE],
         queue' = Append(queue, h), UNCHANGED <<users, notes, session, free, told>>
  PROVE  IInv'
<1> DEFINE s == [req[h] EXCEPT !.pc = "queue", !.inserting = TRUE]
<1>1. req[h] \in Handler /\ HandlerInv(h) /\ req[h].pc = "hash"
  BY Typed DEF At
<1>2. /\ s \in Handler
      /\ s.pc = "queue" /\ s.op = req[h].op /\ s.tenant = req[h].tenant
      /\ s.email = req[h].email /\ s.conn = req[h].conn /\ s.inserting = TRUE
      /\ s.seen = req[h].seen /\ s.pending = req[h].pending /\ s.status = req[h].status
      /\ s.known = req[h].known
  BY <1>1 DEF Handler, Pcs
<1>3. req' = [req EXCEPT ![h] = s] /\ req'[h] = s
  BY DEF IInv, TypeOK
<1> HIDE DEF s
<1>4. HandlerInv(h)'
  <2>1. Carries(h)' /\ Connected(h)' /\ Reads(h)'
    BY <1>1, <1>2, <1>3
       DEF HandlerInv, Carries, Connected, StoresToken, Reads, At, Holding
  <2>2. Writes(h)'
    BY <1>1, <1>2, <1>3 DEF HandlerInv, Writes
  <2>3. Answers(h)'
    BY <1>1, <1>2, <1>3 DEF HandlerInv, Answers, At
  <2>4. Knows(h)'
    BY <1>1, <1>2, <1>3 DEF HandlerInv, Knows
  <2>5. QED
    BY <2>1, <2>2, <2>3, <2>4 DEF HandlerInv
<1>5. ~At(h, "queue")
  BY <1>1 DEF At
<1>6. QED
  BY <1>2, <1>3, <1>4, <1>5, QueueJoined, QueueStep

LEMMA HashPasswordInv ==
  ASSUME IInv, NEW h \in Requests, HashPassword(h)
  PROVE  IInv'
BY QueueAgain DEF HashPassword

\* A status that says nothing of the tables.
Silent(status) == status \in Statuses /\ status \notin {0, 200, 201, 409}

\* A request that leaves the queue with an error.
LEMMA GivesUpInv ==
  ASSUME IInv, NEW h \in Requests, At(h, "queue"),
         NEW status, Silent(status), Settles(h, "reply", status),
         NEW i \in 1..Len(queue), queue[i] = h, queue' = RemoveAt(queue, i),
         UNCHANGED <<users, notes, session, free, told>>
  PROVE  IInv'
<1> DEFINE s == Settled(req[h], "reply", status)
<1>1. req[h] \in Handler /\ HandlerInv(h) /\ req[h].pc = "queue"
  BY Typed DEF At
<1>2. "reply" \in Pcs
  BY Labels
<1>3. /\ s \in Handler
      /\ s.pc = "reply" /\ s.op = req[h].op /\ s.tenant = req[h].tenant
      /\ s.email = req[h].email /\ s.conn = req[h].conn /\ s.inserting = req[h].inserting
      /\ s.seen = req[h].seen /\ s.pending = req[h].pending /\ s.status = status
      /\ s.known = req[h].known
  BY <1>1, <1>2, SettledFields DEF Silent
<1>4. req' = [req EXCEPT ![h] = s] /\ req'[h] = s
  BY DEF Settles, IInv, TypeOK
<1> HIDE DEF s
<1>5. HandlerInv(h)'
  <2>1. Carries(h)' /\ Connected(h)' /\ Reads(h)'
    BY <1>1, <1>3, <1>4 DEF HandlerInv, Carries, Connected, StoresToken, Reads, At, Holding
  <2>2. Writes(h)'
    BY <1>1, <1>3, <1>4 DEF HandlerInv, Writes, At
  <2>3. Answers(h)' /\ Knows(h)'
    BY <1>1, <1>3, <1>4 DEF HandlerInv, Answers, Knows, At, Silent
  <2>4. QED
    BY <2>1, <2>2, <2>3 DEF HandlerInv
<1>6. queue' \in Seq(Requests) /\ Waiting'
  <2>1. queue \in Seq(Requests)
    BY DEF IInv, TypeOK
  <2>2. /\ queue' \in Seq(Requests) /\ Len(queue') = Len(queue) - 1
        /\ \A j \in 1..Len(queue) - 1 : queue'[j] = IF j < i THEN queue[j] ELSE queue[j + 1]
    BY <2>1, Removed
  <2>3. s.pc # "queue"
    BY <1>3
  <2>4. QED
    BY <1>4, <2>2, <2>3, QueueLeft
<1>7. s \in Handler /\ s.conn = req[h].conn /\ s.pending = req[h].pending
  BY <1>3
<1>8. QED
  BY <1>4, <1>5, <1>6, <1>7, QueueStep

LEMMA AcquireFailsInv ==
  ASSUME IInv, NEW h \in Requests, AcquireFails(h)
  PROVE  IInv'
<1>1. At(h, "queue") /\ UNCHANGED <<users, notes, session, free, told>>
  BY DEF AcquireFails
<1>2. PICK status : Silent(status) /\ Settles(h, "reply", status)
  <2>1. PICK status \in {500, 503} : Settles(h, "reply", status)
    BY DEF AcquireFails, Settles, Settled
  <2>2. Silent(status)
    BY Labels DEF Silent
  <2>3. QED
    BY <2>1, <2>2
<1>3. PICK i \in 1..Len(queue) : queue[i] = h /\ queue' = RemoveAt(queue, i)
  <2>1. DOMAIN queue = 1..Len(queue)
    BY LenProperties DEF IInv, TypeOK
  <2>2. QED
    BY <2>1 DEF AcquireFails
<1>4. QED
  BY <1>1, <1>2, <1>3, GivesUpInv

LEMMA ComparePasswordInv ==
  ASSUME IInv, NEW h \in Requests, ComparePassword(h)
  PROVE  IInv'
<1>1. At(h, "hash") /\ UNCHANGED <<users, notes, session, free, told>>
  BY DEF ComparePassword
<1>2. CASE req' = [req EXCEPT ![h].pc = "queue", ![h].inserting = TRUE]
           /\ queue' = Append(queue, h)
  BY <1>1, <1>2, QueueAgain
<1>3. CASE Settles(h, "reply", 401) /\ UNCHANGED queue
  <2> DEFINE s == Settled(req[h], "reply", 401)
  <2>1. req[h] \in Handler /\ HandlerInv(h) /\ req[h].pc = "hash"
    BY <1>1, Typed DEF At
  <2>2. /\ s \in Handler
        /\ s.pc = "reply" /\ s.op = req[h].op /\ s.tenant = req[h].tenant
        /\ s.email = req[h].email /\ s.conn = req[h].conn /\ s.inserting = req[h].inserting
        /\ s.seen = req[h].seen /\ s.pending = req[h].pending /\ s.status = 401
        /\ s.known = req[h].known
    <3>1. req[h] \in Handler /\ "reply" \in Pcs /\ 401 \in Statuses
      BY <2>1, Labels
    <3>2. QED
      BY <3>1, SettledFields
  <2>3. req' = [req EXCEPT ![h] = s] /\ req'[h] = s
    BY <1>3 DEF Settles, IInv, TypeOK
  <2> HIDE DEF s
  <2>4. HandlerInv(h)'
    <3>1. Carries(h)' /\ Connected(h)' /\ Reads(h)'
      BY <1>1, <2>1, <2>2, <2>3
         DEF HandlerInv, Carries, Connected, StoresToken, Reads, At, Holding
    <3>2. Writes(h)' /\ Answers(h)' /\ Knows(h)'
      BY <1>1, <2>1, <2>2, <2>3 DEF HandlerInv, Writes, Answers, Knows, At
    <3>3. QED
      BY <3>1, <3>2 DEF HandlerInv
  <2>5. \A k \in Requests \ {h} : Apart(s.pending, req[k].pending)
    BY <2>2, StaysApart
  <2>6. ~At(h, "queue") /\ s.pc # "queue"
    BY <2>1, <2>2 DEF At
  <2>7. QED
    BY <1>1, <1>3, <2>2, <2>3, <2>4, <2>5, <2>6, LocalStep
<1>4. QED
  BY <1>2, <1>3 DEF ComparePassword, Settles, Settled
LEMMA ConnectInv ==
  ASSUME IInv, NEW h \in Requests, NEW c \in Conns, Connect(h, c)
  PROVE  IInv'
<1> DEFINE next == IF req[h].op = "untenanted" THEN "work" ELSE "begin"
           s    == [req[h] EXCEPT !.conn = c, !.pc = next]
<1>1. queue \in Seq(Requests) /\ queue # <<>> /\ Head(queue) = h /\ queue' = Tail(queue)
  BY DEF Connect, IInv, TypeOK
<1>2. 1 \in 1..Len(queue) /\ queue[1] = h
  BY <1>1, HeadTailProperties, EmptySeq, LenProperties
<1>3. req[h] \in Handler /\ HandlerInv(h) /\ req[h].pc = "queue" /\ req[h].conn = NoConn
  <2>1. req[h].pc = "queue"
    BY <1>2 DEF IInv, Waiting, At
  <2>2. QED
    BY <2>1, Typed DEF HandlerInv, Connected, StoresToken, Holding
<1>4. next \in {"work", "begin"} /\ next \in Pcs /\ (next = "work" <=> req[h].op = "untenanted")
  BY DEF Pcs
<1>5. c \in free /\ session[c] = Clean /\ c # NoConn
  BY NullAssumption DEF Connect, IInv
<1> HIDE DEF next
<1>6. /\ s \in Handler
      /\ s.pc = next /\ s.op = req[h].op /\ s.tenant = req[h].tenant
      /\ s.email = req[h].email /\ s.conn = c /\ s.inserting = req[h].inserting
      /\ s.seen = req[h].seen /\ s.pending = req[h].pending /\ s.status = req[h].status
      /\ s.known = req[h].known
  BY <1>3, <1>4 DEF Handler
<1>7. /\ req' = [req EXCEPT ![h] = s] /\ req'[h] = s /\ free' = free \ {c}
      /\ \A k \in Requests \ {h} : req'[k] = req[k]
      /\ UNCHANGED <<users, notes, session, told>>
  BY DEF Connect, next, IInv, TypeOK
<1> HIDE DEF s
<1>8. HandlerInv(h)'
  <2>1. Conn(h)' = Clean
    BY <1>5, <1>6, <1>7 DEF Conn
  <2>2. Connected(h)'
    BY <1>3, <1>4, <1>5, <1>6, <1>7, <2>1 DEF HandlerInv, Connected, StoresToken, At, Holding
  <2>3. Carries(h)' /\ Reads(h)' /\ Writes(h)' /\ Answers(h)' /\ Knows(h)'
    BY <1>3, <1>4, <1>6, <1>7
       DEF HandlerInv, Carries, StoresToken, Reads, Writes, Answers, Knows, At
  <2>4. QED
    BY <2>2, <2>3 DEF HandlerInv
<1>9. queue' \in Seq(Requests) /\ Waiting'
  <2>1. /\ queue' \in Seq(Requests) /\ Len(queue') = Len(queue) - 1
        /\ \A j \in 1..Len(queue) - 1 : queue'[j] = queue[j + 1]
    BY <1>1, HeadTailProperties
  <2>2. \A j \in 1..Len(queue) - 1 : queue'[j] = IF j < 1 THEN queue[j] ELSE queue[j + 1]
    BY <2>1
  <2>3. s.pc # "queue"
    BY <1>4, <1>6
  <2>4. QED
    BY <1>2, <1>7, <2>1, <2>2, <2>3, QueueLeft
<1>10. ConnectionsAccounted'
  <2>1. \A d \in Conns : d \in {req'[k].conn : k \in Requests} <=>
                           d = c \/ d \in {req[k].conn : k \in Requests}
    BY <1>3, <1>6, <1>7, NullAssumption
  <2>2. free' = Conns \ {req'[k].conn : k \in Requests}
    BY <1>7, <2>1 DEF IInv, ConnectionsAccounted
  <2>3. \A k \in Requests : req[k].conn # c
    BY <1>5 DEF IInv, ConnectionsAccounted
  <2>4. \A j, k \in Requests : req'[j].conn = req'[k].conn /\ req'[j].conn # NoConn => j = k
    BY <1>6, <1>7, <2>3 DEF IInv, ConnectionsAccounted
  <2>5. QED
    BY <2>2, <2>4 DEF ConnectionsAccounted
<1>11. session' \in [Conns -> Session] /\ \A d \in free' : session'[d] = Clean
  BY <1>7 DEF IInv, TypeOK
<1>12. Store(NoRecord) /\ told' \subseteq users' \cup notes'
  BY <1>7, StoreNothing DEF IInv
<1>13. \A k \in Requests \ {h} : Apart(s.pending, req[k].pending)
  BY <1>6, StaysApart
<1>14. QED
  BY <1>6, <1>7, <1>8, <1>9, <1>10, <1>11, <1>12, <1>13, HandlerStep

\* A request whose run is over: its connection is given back.
GivenBack(r, pc, st) == [r EXCEPT !.pc = pc, !.status = st, !.conn = NoConn]

LEMMA GivenBackFields ==
  ASSUME NEW r \in Handler, NEW pc \in Pcs, NEW st \in Statuses
  PROVE  LET s == GivenBack(r, pc, st) IN
         /\ s \in Handler
         /\ s.pc = pc /\ s.op = r.op /\ s.tenant = r.tenant /\ s.email = r.email
         /\ s.conn = NoConn /\ s.inserting = r.inserting /\ s.seen = r.seen
         /\ s.pending = r.pending /\ s.status = st /\ s.known = r.known
BY DEF GivenBack, Handler

\* What it may then go on with: the second half of its work, or an answer.
Follows(h, pc, st) ==
  /\ pc = "hash" => /\ st = 0 /\ req[h].op \in {"register", "login"}
                    /\ req[h].pending = NoRecord
  /\ st = 201 => req[h].pending # NoRecord
  /\ st = 409 => [tenant |-> req[h].tenant, email |-> req[h].email] \in users
  /\ st \in {0, 200} => req[h].status = 0

\* What Outcome makes of a request.
LEMMA Outcomes ==
  ASSUME IInv, NEW h \in Requests, req[h].pc = "release"
  PROVE  \E pc \in {"hash", "reply"}, st \in Statuses :
           Outcome(h) = GivenBack(req[h], pc, st) /\ Follows(h, pc, st)
<1> DEFINE r == req[h]
           pass  == r.status = 0
           taken == r.op = "register" /\ ~r.inserting /\ r.seen # {}
           none  == r.op = "login" /\ ~r.inserting /\ r.seen = {}
           going == /\ r.op \in {"register", "login"} /\ ~r.inserting
                    /\ r.op = "login" <=> r.seen # {}
           wrote == r.pending # NoRecord
<1>1. r \in Handler /\ HandlerInv(h) /\ r.status \in {0, 400, 409}
  BY Typed DEF HandlerInv, Answers, At
<1> DEFINE Answered(st) == GivenBack(r, "reply", st)
<1>2. Outcome(h) = CASE ~pass -> Answered(r.status)
                     [] pass /\ taken -> Answered(409)
                     [] pass /\ none -> Answered(401)
                     [] pass /\ going -> [r EXCEPT !.pc = "hash", !.conn = NoConn]
                     [] pass /\ wrote -> Answered(201)
                     [] OTHER -> Answered(200)
  BY ZenonT(40) DEF Outcome, GivenBack
<1>3. ASSUME pass PROVE [r EXCEPT !.pc = "hash", !.conn = NoConn] = GivenBack(r, "hash", 0)
  <2>1. [r EXCEPT !.pc = "hash", !.conn = NoConn] = GivenBack(r, "hash", r.status)
    BY <1>1 DEF GivenBack, Handler
  <2>2. QED
    BY <1>3, <2>1
<1>4. /\ taken => ~none /\ ~going /\ ~wrote
      /\ none => ~going /\ ~wrote
      /\ going => ~wrote
  BY <1>1 DEF HandlerInv, Writes, OwnRow
<1> HIDE DEF pass, taken, none, going, wrote, Answered
<1>5. /\ ~pass => Outcome(h) = Answered(r.status)
      /\ pass /\ taken => Outcome(h) = Answered(409)
      /\ pass /\ none => Outcome(h) = Answered(401)
      /\ pass /\ going => Outcome(h) = GivenBack(r, "hash", 0)
      /\ pass /\ wrote => Outcome(h) = Answered(201)
      /\ pass /\ ~taken /\ ~none /\ ~going /\ ~wrote => Outcome(h) = Answered(200)
  BY <1>2, <1>3, <1>4
<1>6. CASE ~pass
  <2>1. Follows(h, "reply", r.status) /\ r.status \in Statuses
    BY <1>1, <1>6, Labels DEF pass, Follows, HandlerInv, Answers
  <2>2. QED
    BY <1>5, <1>6, <2>1 DEF Answered
<1>7. CASE pass /\ taken
  <2>1. PICK row \in r.seen : TRUE
    BY <1>7 DEF taken
  <2>2. /\ row \in users /\ users \subseteq User
        /\ row.tenant = r.tenant /\ row.email = r.email
    BY <1>1, <1>7, <2>1 DEF taken, HandlerInv, Reads, IInv, TypeOK
  <2>3. row = [tenant |-> r.tenant, email |-> r.email]
    BY <2>2, RowFields
  <2>4. Follows(h, "reply", 409)
    BY <2>2, <2>3 DEF Follows
  <2>5. QED
    BY <1>5, <1>7, <2>4, Labels DEF Answered
<1>8. CASE pass /\ none
  <2>1. Follows(h, "reply", 401)
    BY DEF Follows
  <2>2. QED
    BY <1>5, <1>8, <2>1, Labels DEF Answered
<1>9. CASE pass /\ going
  <2>1. Follows(h, "hash", 0) /\ 0 \in Statuses
    BY <1>4, <1>9 DEF Follows, going, wrote, pass, Statuses
  <2>2. QED
    BY <1>5, <1>9, <2>1
<1>10. CASE pass /\ wrote
  <2>1. Follows(h, "reply", 201)
    BY <1>10 DEF Follows, wrote
  <2>2. QED
    BY <1>5, <1>10, <2>1, Labels DEF Answered
<1>11. CASE pass /\ ~taken /\ ~none /\ ~going /\ ~wrote
  <2>1. Follows(h, "reply", 200)
    BY <1>11 DEF Follows, pass
  <2>2. QED
    BY <1>5, <1>11, <2>1, Labels DEF Answered
<1>12. QED
  BY <1>6, <1>7, <1>8, <1>9, <1>10, <1>11

LEMMA ReleaseInv ==
  ASSUME IInv, NEW h \in Requests, Release(h)
  PROVE  IInv'
<1> DEFINE c == req[h].conn
<1>1. /\ req[h] \in Handler /\ HandlerInv(h) /\ req[h].pc = "release"
      /\ c \in Conns /\ session[c] \in {Clean, Broken}
  BY Typed DEF Release, At, Holding, HandlerInv, Connected, StoresToken, Conn
<1>2. PICK pc \in {"hash", "reply"}, st \in Statuses :
        Outcome(h) = GivenBack(req[h], pc, st) /\ Follows(h, pc, st)
  BY <1>1, Outcomes
<1> DEFINE s == GivenBack(req[h], pc, st)
<1>3. /\ s \in Handler
      /\ s.pc = pc /\ s.op = req[h].op /\ s.tenant = req[h].tenant
      /\ s.email = req[h].email /\ s.conn = NoConn /\ s.inserting = req[h].inserting
      /\ s.seen = req[h].seen /\ s.pending = req[h].pending /\ s.status = st
      /\ s.known = req[h].known
  <2>1. pc \in Pcs
    BY DEF Pcs
  <2>2. QED
    BY <1>1, <2>1, GivenBackFields
<1>4. /\ req' = [req EXCEPT ![h] = s] /\ req'[h] = s /\ free' = free \cup {c}
      /\ \A k \in Requests \ {h} : req'[k] = req[k]
      /\ UNCHANGED <<users, notes, queue, told>>
  BY <1>2 DEF Release, IInv, TypeOK
<1>5. session' = [session EXCEPT ![c] = Clean]
  <2>1. (IF session[c].alive THEN session[c] ELSE Clean) = Clean
    BY <1>1, SessionFields
  <2>2. QED
    BY <2>1 DEF Release
<1> HIDE DEF s
<1>6. HandlerInv(h)'
  <2>1. Carries(h)' /\ Connected(h)' /\ Reads(h)'
    BY <1>1, <1>2, <1>3, <1>4
       DEF HandlerInv, Carries, Connected, StoresToken, Reads, At, Holding, Follows
  <2>2. Writes(h)'
    BY <1>1, <1>2, <1>3, <1>4 DEF HandlerInv, Writes, OwnRow, At, Follows
  <2>3. Answers(h)' /\ Knows(h)'
    BY <1>1, <1>2, <1>3, <1>4 DEF HandlerInv, Answers, Knows, At, Follows
  <2>4. QED
    BY <2>1, <2>2, <2>3 DEF HandlerInv
<1>7. queue' \in Seq(Requests) /\ Waiting'
  <2>1. \A k \in Requests : req'[k].pc = "queue" <=> req[k].pc = "queue"
    BY <1>1, <1>2, <1>3, <1>4
  <2>2. queue \in Seq(Requests) /\ \A i \in 1..Len(queue) : queue[i] \in Requests
    BY ElementOfSeq DEF IInv, TypeOK
  <2>3. QED
    BY <1>4, <2>1, <2>2 DEF IInv, Waiting, At
<1>8. ConnectionsAccounted'
  <2>1. \A d \in Conns : d \in {req'[k].conn : k \in Requests} <=>
                           d # c /\ d \in {req[k].conn : k \in Requests}
    BY <1>1, <1>3, <1>4, NullAssumption, OwnConnection
  <2>2. free' = Conns \ {req'[k].conn : k \in Requests}
    BY <1>1, <1>4, <2>1 DEF IInv, ConnectionsAccounted
  <2>3. \A j, k \in Requests : req'[j].conn = req'[k].conn /\ req'[j].conn # NoConn => j = k
    BY <1>3, <1>4 DEF IInv, ConnectionsAccounted
  <2>4. QED
    BY <2>2, <2>3 DEF ConnectionsAccounted
<1>9. /\ session' \in [Conns -> Session] /\ \A d \in free' : session'[d] = Clean
      /\ \A k \in Requests \ {h} : req[k].conn # NoConn => session'[req[k].conn] = session[req[k].conn]
  <2>1. /\ session' \in [Conns -> Session] /\ session'[c] = Clean
        /\ \A d \in Conns : d # c => session'[d] = session[d]
    BY <1>1, <1>5, SessionFields DEF IInv, TypeOK
  <2>2. \A k \in Requests \ {h} : req[k].conn # NoConn => req[k].conn \in Conns /\ req[k].conn # c
    BY OwnConnection
  <2>3. QED
    BY <1>4, <2>1, <2>2 DEF IInv, TypeOK
<1>10. Store(NoRecord) /\ told' \subseteq users' \cup notes'
  BY <1>4, StoreNothing DEF IInv
<1>11. \A k \in Requests \ {h} : Apart(s.pending, req[k].pending)
  BY <1>3, StaysApart
<1>12. QED
  BY <1>3, <1>4, <1>6, <1>7, <1>8, <1>9, <1>10, <1>11, HandlerStep

LEMMA ReplyInv ==
  ASSUME IInv, NEW h \in Requests, Reply(h)
  PROVE  IInv'
<1>1. /\ req[h] \in Handler /\ HandlerInv(h) /\ req[h].pc = "reply" /\ req[h].conn = NoConn
  BY Typed DEF Reply, At, HandlerInv, Connected, StoresToken, Holding
<1>2. /\ req' = [req EXCEPT ![h] = Idle] /\ req'[h] = Idle
      /\ UNCHANGED <<users, notes, session, free, queue>>
  BY DEF Reply, IInv, TypeOK
<1>3. told' = told \/ (told' = told \cup {req[h].pending} /\ req[h].pending # NoRecord)
  BY <1>1 DEF Reply, HandlerInv, Answers
<1>4. told' \subseteq users' \cup notes'
  BY <1>1, <1>2, <1>3 DEF IInv, HandlerInv, Writes, At
<1>5. \A k \in Requests \ {h} : req[k].pending # NoRecord /\ req[k].pending \in told'
                                  => req[k].pending \in told
  BY <1>3 DEF IInv, KeysApart, Apart
<1>6. HandlerInv(h)'
  BY <1>2, IdleHandler
     DEF HandlerInv, Carries, Connected, StoresToken, Reads, Writes, Answers, Knows, At, Holding
<1>7. Waiting' /\ ConnectionsAccounted' /\ queue' \in Seq(Requests)
  <2>1. ~At(h, "queue") /\ Idle.pc # "queue" /\ Idle.conn = req[h].conn
    BY <1>1, IdleHandler DEF At
  <2>2. QED
    BY <1>2, <2>1, PoolUntouched
<1>8. session' \in [Conns -> Session] /\ \A d \in free' : session'[d] = Clean
  BY <1>2 DEF IInv, TypeOK
<1>9. Store(NoRecord)
  BY <1>2, StoreNothing
<1>10. \A k \in Requests \ {h} : Apart(Idle.pending, req[k].pending)
  BY IdleHandler, StaysApart
<1>11. QED
  BY <1>2, <1>4, <1>5, <1>6, <1>7, <1>8, <1>9, <1>10, IdleHandler, HandlerStep

----------------------------------------------------------------------------
(* The invariant *)

LEMMA InitInv == Init => IInv
<1> SUFFICES ASSUME Init PROVE IInv
  OBVIOUS
<1>1. \A h \in Requests : req[h] = Idle
  BY DEF Init
<1>2. TypeOK
  <2>1. queue \in Seq(Requests) /\ Len(queue) = 0
    BY EmptySeq DEF Init
  <2>2. Len(queue) <= Cardinality(Requests)
    BY <2>1, FiniteAssumption, FS_CardinalityType
  <2>3. QED
    BY <2>1, <2>2, IdleHandler, SessionFields DEF Init, TypeOK
<1>3. \A h \in Requests : HandlerInv(h)
  BY <1>1, IdleHandler
     DEF HandlerInv, Carries, Connected, StoresToken, Reads, Writes, Answers, Knows, At, Holding
<1>4. Waiting
  <2>1. Len(queue) = 0
    BY EmptySeq DEF Init
  <2>2. QED
    BY <1>1, <2>1, IdleHandler DEF Waiting, At
<1>5. ConnectionsAccounted
  BY <1>1, IdleHandler, NullAssumption DEF Init, ConnectionsAccounted
<1>6. KeysApart
  BY <1>1, IdleHandler DEF KeysApart, Apart
<1>7. QED
  BY <1>2, <1>3, <1>4, <1>5, <1>6 DEF Init, IInv

LEMMA FrameInv == IInv /\ UNCHANGED vars => IInv'
BY DEF vars, IInv, TypeOK, HandlerInv, Carries, Connected, StoresToken, Reads, Writes,
       OwnRow, Answers, Knows,
       Waiting, ConnectionsAccounted, KeysApart, At, Conn

LEMMA NextInv == IInv /\ Next => IInv'
<1> SUFFICES ASSUME IInv, NEW h \in Requests, Request(h) \/ Step(h) \/ Fault(h)
             PROVE  IInv'
  BY DEF Next
<1>1. CASE Request(h)
  <2>1. ASSUME NEW op \in {"register", "login"}, NEW t \in Tenants, NEW e \in Emails,
               Arrive(h, op, t, e)
        PROVE  IInv'
    BY <2>1, NullAssumption, ArriveInv DEF Ops
  <2>2. ASSUME NEW op \in {"listNotes", "createNote"}, NEW t \in Tenants, Arrive(h, op, t, NoRecord)
        PROVE  IInv'
    BY <2>2, NullAssumption, ArriveInv DEF Ops
  <2>3. CASE Arrive(h, "untenanted", NoTenant, NoRecord)
    BY <2>3, ArriveInv DEF Ops
  <2>4. QED
    BY <1>1, <2>1, <2>2, <2>3 DEF Request
<1>2. CASE Step(h)
  BY <1>2, ConnectInv, BeginInv, ConfigureInv, FindByEmailInv, InsertUserInv, UniqueViolationInv,
     InsertNoteInv, FindNotesInv, UntenantedInv, StoreTokenInv, CommitInv, RollbackInv, ReleaseInv,
     HashPasswordInv, ComparePasswordInv, ReplyInv DEF Step
<1>3. CASE Fault(h)
  BY <1>3, AcquireFailsInv, StatementFailsInv, ConnectionLostInv DEF Fault
<1>4. QED
  BY <1>1, <1>2, <1>3

\* Every reachable state satisfies the inductive invariant.
THEOREM InductiveInvariant == Spec => []IInv
<1>1. IInv /\ [Next]_vars => IInv'
  BY NextInv, FrameInv
<1>2. QED
  BY InitInv, <1>1, PTL DEF Spec

----------------------------------------------------------------------------
(* The safety properties *)

\* Every variable stays in its domain, and the pool's queue never grows longer than the
\* requests in flight.
THEOREM TypeCorrect == Spec => []TypeOK
<1>1. IInv => TypeOK
  BY DEF IInv
<1>2. QED
  BY <1>1, InductiveInvariant, PTL

\* No interleaving, failure or timeout makes a request read another tenant's row, and a
\* request without a tenant reads none.
THEOREM Isolation == Spec => []TenantIsolation
<1>1. IInv => TenantIsolation
  BY DEF IInv, HandlerInv, Reads, TenantIsolation
<1>2. QED
  BY <1>1, InductiveInvariant, PTL

\* No tenant setting and no open transaction is left on a connection for its next user.
THEOREM LeakFreedom == Spec => []NothingLeaks
<1>1. IInv => NothingLeaks
  BY DEF IInv, HandlerInv, Connected, StoresToken, NothingLeaks
<1>2. QED
  BY <1>1, InductiveInvariant, PTL

\* However a run ends, its connection comes back to the pool, once.
THEOREM Accounting == Spec => []ConnectionsAccounted
<1>1. IInv => ConnectionsAccounted
  BY DEF IInv
<1>2. QED
  BY <1>1, InductiveInvariant, PTL

\* A request that waits for a connection, for the first or the second time, or computes a
\* hash holds none, and every connection that is not in the pool is in a transaction in
\* progress: there is always one whose release ends somebody's wait.
THEOREM PoolCannotDeadlock == Spec => []NoHoldAndWait
<1>1. ASSUME IInv, NEW c \in Conns \ free
      PROVE  \E h \in Requests : req[h].conn = c /\ req[h].pc \in Holding
  <2>1. PICK h \in Requests : req[h].conn = c
    BY <1>1 DEF IInv, ConnectionsAccounted
  <2>2. QED
    BY <1>1, <2>1, NullAssumption DEF IInv, HandlerInv, Connected
<1>2. ASSUME IInv, NEW h \in Requests, req[h].pc \in {"queue", "hash", "reply"}
      PROVE  req[h].conn = NoConn
  BY <1>2 DEF IInv, HandlerInv, Connected, Holding
<1>3. IInv => NoHoldAndWait
  BY <1>1, <1>2 DEF NoHoldAndWait, Holding
<1>4. QED
  BY <1>3, InductiveInvariant, PTL

\* What was answered with 201 is stored, and a 409 means that the address is taken.
THEOREM TruthfulAnswers == Spec => []AnswersTrue
<1>1. IInv => AnswersTrue
  <2>1. ASSUME IInv, NEW h \in Requests, At(h, "reply")
        PROVE  /\ req[h].status = 201 => req[h].pending \in users \cup notes
               /\ req[h].status = 409 => [tenant |-> req[h].tenant, email |-> req[h].email] \in users
    BY <2>1 DEF IInv, HandlerInv, Answers, Writes, At
  <2>2. QED
    BY <2>1 DEF IInv, AnswersTrue
<1>2. QED
  BY <1>1, InductiveInvariant, PTL

\* Of any number of concurrent registrations of one address in one tenant, at most one
\* is answered with 201.
THEOREM AtMostOneWinner == Spec => []OneWinner
<1>1. IInv => OneWinner
  <2>1. SUFFICES ASSUME IInv, NEW h \in Requests, At(h, "reply"), req[h].status = 201
                 PROVE  /\ req[h].pending \notin told
                        /\ \A k \in Requests \ {h} :
                             At(k, "reply") /\ req[k].status = 201 => req[k].pending # req[h].pending
    BY DEF OneWinner
  <2>2. ASSUME NEW k \in Requests, req[k].status = 201 PROVE req[k].pending # NoRecord
    <3>1. HandlerInv(k)
      BY <2>1 DEF IInv
    <3>2. QED
      BY <2>2, <3>1 DEF HandlerInv, Answers
  <2>3. req[h].pending # NoRecord /\ req[h].pending \notin told
    <3>1. req[h].pending # NoRecord /\ HandlerInv(h)
      BY <2>1, <2>2 DEF IInv
    <3>2. QED
      BY <3>1 DEF HandlerInv, Writes
  <2>4. \A k \in Requests \ {h} : Apart(req[h].pending, req[k].pending)
    BY <2>1 DEF IInv, KeysApart
  <2>5. QED
    BY <2>1, <2>2, <2>3, <2>4 DEF Apart
<1>2. QED
  BY <1>1, InductiveInvariant, PTL

\* A list answered with 200 has every note whose creation was answered before it was asked for.
THEOREM ReadYourWrites == Spec => []ReadsAnsweredWrites
<1>1. IInv => ReadsAnsweredWrites
  BY DEF IInv, HandlerInv, Knows, ReadsAnsweredWrites, At
<1>2. QED
  BY <1>1, InductiveInvariant, PTL

=============================================================================
