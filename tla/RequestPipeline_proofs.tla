----------------------- MODULE RequestPipeline_proofs -----------------------
(***************************************************************************)
(* Proofs, for every value of the constants, of what RequestPipeline says  *)
(* of the service seen from outside.  The inductive invariant follows each *)
(* request through the stages: what it was asked, whose tenant it is in,   *)
(* and what its answer is worth; and it keeps the tables, the tokens and   *)
(* what clients were told in agreement.                                    *)
(***************************************************************************)
EXTENDS RequestPipeline, TLAPS

NoteRoutes == {"createNote", "listNotes"}
NoteFact   == [slug : Slugs, note : NoteIds]

----------------------------------------------------------------------------
(* The tables, the tokens and the histories *)

\* The account a client was told of is in the tenant its slug names.
Held(slug, email) ==
  \E row \in tenants : row.slug = slug /\ [tenant |-> row.id, email |-> email] \in users

\* What a client was told is so.
Holds(fact) ==
  /\ fact \in TenantRow => fact \in tenants
  /\ fact \in Account => Held(fact.slug, fact.email)
  /\ fact \in NoteFact => \E row \in tenants :
       row.slug = fact.slug /\ [tenant |-> row.id, id |-> fact.note] \in notes

\* A token names the tenant by its id and by the slug of its login, which agree.
Granted(token) == token \in Token /\ [id |-> token.tenant, slug |-> token.via] \in tenants

Tables ==
  /\ tenants \subseteq TenantRow /\ role \in [UserRow -> Roles \cup {None}]
  /\ users = {u \in UserRow : role[u] # None} /\ notes \subseteq NoteRow
  /\ watched \in Slugs /\ told \subseteq Fact
  /\ written \subseteq [id : NoteIds, token : Token]
  /\ \A x, y \in tenants : x.id = y.id \/ x.slug = y.slug => x = y
  /\ \A token \in issued : Granted(token)
  /\ \A fact \in told : Holds(fact)
  /\ AuthorsMayWrite

Contexts ==
  /\ tenantOf \in [Requests -> Tenants \cup {NoTenant}]
  /\ view \in [Requests -> SUBSET (UserRow \cup NoteRow)]
  /\ \A h \in Requests : tenantOf[h] = NoTenant => view[h] = {}

----------------------------------------------------------------------------
(* A request on its way through the pipeline *)

\* What each route is asked.
Proper(sent) ==
  /\ sent.route \in NoteRoutes => sent.token \in issued
  /\ sent.route \notin NoteRoutes => sent.token = None
  /\ sent.route \in {"createTenant", "login"} => sent.slug \in Slugs
  /\ sent.route \in {"register", "login"} => sent.email \in Emails /\ sent.id = None
  /\ sent.route = "getTenant" => sent.slug = None

\* Some stages only belong to some routes.
Asks(h) ==
  /\ Proper(req[h].sent)
  /\ At(h, "slug") => req[h].sent.route \in {"register", "login"}
  /\ At(h, "bearer") => req[h].sent.route \in NoteRoutes
  /\ At(h, "auth") => req[h].sent.route = "login"

Knows(h) == req[h].known \subseteq told \cap Concerning(req[h].sent)

\* Past the middleware a request is in the tenant its slug or its token names.
InTenant(h) ==
  LET sent == req[h].sent IN
  /\ sent.route \in {"register", "login"} /\ req[h].stage \in {"guards", "auth", "handle", "insert"} =>
       [id |-> tenantOf[h], slug |-> sent.slug] \in tenants
  /\ sent.route \in NoteRoutes /\ req[h].stage \in {"guards", "handle"} =>
       req[h].user = sent.token /\ tenantOf[h] = sent.token.tenant
  /\ Serving(h, "handle", "createNote") => req[h].user.role \in {"admin", "member"}
  /\ Serving(h, "handle", "login") => Granted(req[h].user)

\* What a 201 acknowledges is in the tables.
Made(h) ==
  LET sent == req[h].sent IN
  /\ sent.route \in {"createTenant", "register", "createNote"}
  /\ sent.route = "createTenant" =>
       Taken(sent.slug) /\ \A row \in req[h].data : row \in tenants /\ row.slug = sent.slug
  /\ sent.route = "register" => Held(sent.slug, sent.email)
  /\ sent.route = "createNote" =>
       \A row \in req[h].data : row \in notes /\ row.tenant = sent.token.tenant

\* A list of notes against the clients' histories.
Listed(h) ==
  /\ \A row \in req[h].data : \E w \in written :
       w.id = row.id /\ w.token.via = req[h].sent.token.via
  /\ \A fact \in req[h].known : \E row \in req[h].data : row.id = fact.note

AccountOf(sent) == [slug |-> sent.slug, email |-> sent.email]

\* What each answer is worth when it is given, and for as long as it is on its way.
Replies(h) ==
  LET sent   == req[h].sent
      status == req[h].status
      known  == req[h].known IN
  At(h, "reply") =>
    /\ status = 201 => Made(h)
    /\ status = 200 /\ sent.route = "login" => Granted(req[h].user)
    /\ status = 200 /\ sent.route = "listNotes" => Listed(h)
    /\ status = 200 /\ sent.route = "listTenants" => known \cap TenantRow \subseteq req[h].data
    /\ status \in {401, 404} /\ sent.route = "login" /\ sent.genuine => AccountOf(sent) \notin known
    /\ status = 409 /\ sent.route = "createTenant" => Taken(sent.slug)
    /\ status = 409 /\ sent.route = "register" => Held(sent.slug, sent.email)
    /\ status = 404 => \A row \in known \cap TenantRow : sent.id # row.id /\ sent.slug # row.slug

HandlerInv(h) == Asks(h) /\ Knows(h) /\ InTenant(h) /\ Replies(h)

\* An unsent 201 of createTenant: no other answer names the same slug, sent or not.
Creating(h) == Serving(h, "reply", "createTenant") /\ req[h].status = 201
Created ==
  \A h \in Requests : Creating(h) =>
    /\ \A row \in told \cap TenantRow : row.slug # req[h].sent.slug
    /\ \A k \in Requests \ {h} : Creating(k) => req[k].sent.slug # req[h].sent.slug

IInv ==
  /\ req \in [Requests -> Handler]
  /\ Tables /\ Contexts
  /\ \A h \in Requests : HandlerInv(h)
  /\ Created

----------------------------------------------------------------------------
(* Facts about rows and facts *)

LEMMA Kinds ==
  /\ \A x \in TenantRow : x \notin Account /\ x \notin NoteFact
  /\ \A x \in Account : x \notin TenantRow /\ x \notin NoteFact
  /\ \A x \in NoteFact : x \notin TenantRow /\ x \notin Account
BY DEF TenantRow, Account, NoteFact

LEMMA TenantRowFields ==
  /\ \A row \in TenantRow : row.id \in Tenants /\ row.slug \in Slugs
                            /\ row = [id |-> row.id, slug |-> row.slug]
  /\ \A id \in Tenants, slug \in Slugs : [id |-> id, slug |-> slug] \in TenantRow
BY DEF TenantRow

LEMMA StoredRowFields ==
  /\ \A row \in UserRow : row.tenant \in Tenants /\ row.email \in Emails
                          /\ row = [tenant |-> row.tenant, email |-> row.email]
  /\ \A t \in Tenants, e \in Emails : [tenant |-> t, email |-> e] \in UserRow
  /\ \A row \in NoteRow : row.tenant \in Tenants /\ row.id \in NoteIds
                          /\ row = [tenant |-> row.tenant, id |-> row.id]
  /\ \A t \in Tenants, id \in NoteIds : [tenant |-> t, id |-> id] \in NoteRow
BY DEF UserRow, NoteRow

LEMMA TokenFields ==
  \A token \in Token : token.tenant \in Tenants /\ token.via \in Slugs /\ token # None
BY NullAssumption DEF Token

LEMMA IdleHandler ==
  /\ Blank \in Sent /\ Idle \in Handler
  /\ Blank.route = "health" /\ Blank.token = None
  /\ Idle.stage = "idle" /\ Idle.sent = Blank /\ Idle.known = {} /\ Idle.user = None
  /\ Idle.status = 0 /\ Idle.data = {}
<1>1. Blank \in Sent
  BY DEF Blank, Sent, Routes
<1>2. 0 \in Statuses
  BY DEF Statuses
<1>3. PICK zero \in Statuses : zero = 0
  BY <1>2
<1>4. "idle" \in Stages
  BY DEF Stages
<1>5. Idle = [stage |-> "idle", sent |-> Blank, known |-> {}, user |-> None,
              status |-> zero, data |-> {}]
  BY <1>3 DEF Idle
<1>6. Idle \in Handler
  BY <1>1, <1>4, <1>5, Zenon DEF Handler
<1>7. Blank.route = "health" /\ Blank.token = None
  BY DEF Blank
<1>8. QED
  BY <1>1, <1>3, <1>5, <1>6, <1>7

LEMMA StatusKinds ==
  /\ {0, 200, 201, Invalid, 401, 403, 404, 409, 429, Failed} = Statuses
  /\ Invalid = 400 /\ Failed = 500
BY DEF Statuses, Invalid, Failed

----------------------------------------------------------------------------
(* What a step leaves true of the requests it does not serve *)

Grows ==
  /\ tenants \subseteq tenants' /\ users \subseteq users' /\ notes \subseteq notes'
  /\ issued \subseteq issued' /\ told \subseteq told' /\ written \subseteq written'

Moved(h) ==
  /\ req' \in [Requests -> Handler]
  /\ \A k \in Requests \ {h} : req'[k] = req[k]

Away(h) == \A k \in Requests \ {h} : tenantOf'[k] = tenantOf[k]

LEMMA HeldKept ==
  ASSUME Grows, NEW slug, NEW email, Held(slug, email)
  PROVE  Held(slug, email)'
BY DEF Grows, Held

LEMMA Kept ==
  ASSUME Grows, NEW k \in Requests, HandlerInv(k),
         req'[k] = req[k], tenantOf'[k] = tenantOf[k]
  PROVE  HandlerInv(k)'
<1>1. Asks(k)' /\ Knows(k)'
  BY DEF HandlerInv, Asks, Proper, Knows, Grows, At
<1>2. InTenant(k)'
  BY DEF HandlerInv, InTenant, Grows, Serving, Granted
<1>3. Made(k) => Made(k)'
  BY HeldKept DEF Made, Grows, Taken
<1>4. Listed(k) => Listed(k)'
  BY DEF Listed, Grows
<1>5. Granted(req[k].user) => Granted(req[k].user)'
  BY DEF Granted, Grows
<1>6. Taken(req[k].sent.slug) => Taken(req[k].sent.slug)'
  BY DEF Taken, Grows
<1>7. Held(req[k].sent.slug, req[k].sent.email) => Held(req[k].sent.slug, req[k].sent.email)'
  BY HeldKept
<1>8. Replies(k)'
  BY <1>3, <1>4, <1>5, <1>6, <1>7 DEF HandlerInv, Replies, At
<1>9. QED
  BY <1>1, <1>2, <1>8 DEF HandlerInv

\* A step of one request, from what it makes of the tables and of that request.
LEMMA RequestStep ==
  ASSUME IInv, NEW h \in Requests, Grows, Moved(h), Away(h),
         Tables', Contexts', HandlerInv(h)', Created'
  PROVE  IInv'
<1>1. ASSUME NEW k \in Requests \ {h} PROVE HandlerInv(k)'
  BY Kept DEF IInv, Moved, Away
<1>2. QED
  BY <1>1 DEF IInv, Moved

\* The same for a step that stores nothing and tells nobody anything.
LEMMA QuietStep ==
  ASSUME IInv, NEW h \in Requests, Moved(h), Away(h), Contexts', HandlerInv(h)',
         UNCHANGED <<directory, clients, written, users, notes>>,
         ~Creating(h)'
  PROVE  IInv'
<1>1. Grows
  BY DEF Grows, directory, clients
<1>2. Tables'
  BY DEF IInv, Tables, Granted, Holds, Held, AuthorsMayWrite, directory, clients
<1>3. Created'
  BY DEF IInv, Created, Creating, Serving, Moved, clients
<1>4. QED
  BY <1>1, <1>2, <1>3, RequestStep

----------------------------------------------------------------------------
(* The request's tenant context *)

LEMMA EnterContext ==
  ASSUME Contexts, NEW h \in Requests, NEW t \in Tenants, Store!Enter(h, t)
  PROVE  Contexts' /\ Away(h) /\ tenantOf'[h] = t /\ UNCHANGED <<users, notes>>
BY NullAssumption DEF Contexts, Away, Store!Enter

LEMMA LeaveContext ==
  ASSUME Contexts, NEW h \in Requests, Store!Leave(h)
  PROVE  Contexts' /\ Away(h) /\ UNCHANGED <<users, notes>>
BY DEF Contexts, Away, Store!Leave

LEMMA SameContext ==
  ASSUME Contexts, UNCHANGED tables
  PROVE  Contexts' /\ (\A h \in Requests : Away(h) /\ tenantOf'[h] = tenantOf[h])
         /\ UNCHANGED <<users, notes>>
BY DEF Contexts, Away, tables

LEMMA FindContext ==
  ASSUME Contexts, Tables, NEW h \in Requests,
         (\E e : Store!FindUser(h, e)) \/ Store!FindNotes(h)
  PROVE  /\ Contexts' /\ Away(h) /\ tenantOf'[h] = tenantOf[h] /\ UNCHANGED <<users, notes>>
         /\ tenantOf[h] \in Tenants
<1>1. PICK found \in SUBSET (UserRow \cup NoteRow) : view' = [view EXCEPT ![h] = found]
  BY DEF Store!FindUser, Store!FindNotes, Store!Owned, Tables
<1>2. tenantOf[h] # NoTenant /\ UNCHANGED <<tenantOf, users, notes>>
  BY DEF Store!FindUser, Store!FindNotes
<1>3. Contexts'
  BY <1>1, <1>2 DEF Contexts
<1>4. QED
  BY <1>2, <1>3 DEF Contexts, Away

----------------------------------------------------------------------------
(* How a request moves on *)

\* What an answer can carry.
Payloads == SUBSET (TenantRow \cup NoteRow)

LEMMA Goes ==
  ASSUME IInv, NEW h \in Requests, NEW stage \in Stages, Goto(h, stage)
  PROVE  /\ Moved(h)
         /\ req'[h].stage = stage /\ req'[h].sent = req[h].sent
         /\ req'[h].known = req[h].known /\ req'[h].user = req[h].user
<1> DEFINE s == [req[h] EXCEPT !.stage = stage]
<1>1. req[h] \in Handler /\ req' = [req EXCEPT ![h] = s]
  BY DEF IInv, Goto
<1>2. /\ s \in Handler
      /\ s.stage = stage /\ s.sent = req[h].sent /\ s.known = req[h].known
      /\ s.user = req[h].user
  BY <1>1 DEF Handler
<1> HIDE DEF s
<1>3. Moved(h) /\ req'[h] = s
  BY <1>1, <1>2 DEF IInv, Moved
<1>4. QED
  BY <1>2, <1>3

LEMMA Identifies ==
  ASSUME IInv, NEW h \in Requests, NEW stage \in Stages, NEW user \in Token,
         req' = [req EXCEPT ![h].stage = stage, ![h].user = user]
  PROVE  /\ Moved(h)
         /\ req'[h].stage = stage /\ req'[h].user = user
         /\ req'[h].sent = req[h].sent /\ req'[h].known = req[h].known
<1> DEFINE s == [req[h] EXCEPT !.stage = stage, !.user = user]
<1>1. req[h] \in Handler /\ req' = [req EXCEPT ![h] = s]
  BY DEF IInv
<1>2. /\ s \in Handler
      /\ s.stage = stage /\ s.sent = req[h].sent /\ s.known = req[h].known
      /\ s.user = user
  BY <1>1 DEF Handler
<1> HIDE DEF s
<1>3. Moved(h) /\ req'[h] = s
  BY <1>1, <1>2 DEF IInv, Moved
<1>4. QED
  BY <1>2, <1>3

\* The answers that keep what the request was asked.
LEMMA Answers ==
  ASSUME IInv, NEW h \in Requests, NEW status \in Statuses, Answer(h, status)
  PROVE  /\ Moved(h)
         /\ req'[h].stage = "reply" /\ req'[h].status = status
         /\ req'[h].sent = req[h].sent /\ req'[h].known = req[h].known
         /\ req'[h].user = req[h].user
<1> DEFINE s == [req[h] EXCEPT !.stage = "reply", !.status = status]
<1>1. /\ req[h] \in Handler /\ "reply" \in Stages
      /\ req' = [req EXCEPT ![h] = s]
  BY DEF IInv, Handler, Stages, Answer
<1>2. /\ s \in Handler
      /\ s.stage = "reply" /\ s.sent = req[h].sent /\ s.known = req[h].known
      /\ s.user = req[h].user /\ s.status = status
  BY <1>1 DEF Handler
<1> HIDE DEF s
<1>3. Moved(h) /\ req'[h] = s
  BY <1>1, <1>2 DEF IInv, Moved
<1>4. QED
  BY <1>1, <1>2, <1>3

LEMMA AnswersWith ==
  ASSUME IInv, NEW h \in Requests, NEW status \in Statuses,
         NEW data \in Payloads, AnswerWith(h, status, data)
  PROVE  /\ Moved(h)
         /\ req'[h].stage = "reply" /\ req'[h].status = status
         /\ req'[h].sent = req[h].sent /\ req'[h].known = req[h].known
         /\ req'[h].data = data
<1> DEFINE s == [req[h] EXCEPT !.stage = "reply", !.status = status, !.data = data]
<1>1. /\ req[h] \in Handler /\ "reply" \in Stages
      /\ req' = [req EXCEPT ![h] = s]
  BY DEF IInv, Handler, Stages, AnswerWith
<1>2. /\ s \in Handler
      /\ s.stage = "reply" /\ s.sent = req[h].sent /\ s.known = req[h].known
      /\ s.status = status /\ s.data = data
  BY <1>1 DEF Handler, Payloads
<1> HIDE DEF s
<1>3. Moved(h) /\ req'[h] = s
  BY <1>1, <1>2 DEF IInv, Moved
<1>4. QED
  BY <1>1, <1>2, <1>3

\* An exception leaves nothing of the request but its status.
LEMMA Throws ==
  ASSUME IInv, NEW h \in Requests, NEW status \in Statuses, status # 201,
         req' = [req EXCEPT ![h] = Thrown(status)]
  PROVE  Moved(h) /\ HandlerInv(h)' /\ ~Creating(h)'
<1> DEFINE s == Thrown(status)
<1>1. /\ s \in Handler
      /\ s.stage = "reply" /\ s.sent = Blank /\ s.known = {} /\ s.status = status
  <2>1. "reply" \in Stages
    BY DEF Stages
  <2>2. PICK idle \in Handler : idle = Idle /\ idle.sent = Blank /\ idle.known = {}
    BY IdleHandler
  <2>3. s = [idle EXCEPT !.stage = "reply", !.status = status]
    BY <2>2 DEF Thrown
  <2>4. QED
    BY <2>1, <2>2, <2>3 DEF Handler
<1>2. req' = [req EXCEPT ![h] = s]
  OBVIOUS
<1> HIDE DEF s
<1>3. Moved(h) /\ req'[h] = s
  BY <1>1, <1>2 DEF IInv, Moved
<1>4. s.sent.route = "health" /\ s.sent.token = None
  BY <1>1, IdleHandler
<1>5. Asks(h)' /\ InTenant(h)'
  BY <1>1, <1>3, <1>4 DEF Asks, Proper, InTenant, NoteRoutes, At, Serving
<1>6. Knows(h)'
  BY <1>1, <1>3 DEF Knows
<1>7. Replies(h)'
  BY <1>1, <1>3, <1>4 DEF Replies, At
<1>8. ~Creating(h)'
  BY <1>3, <1>4 DEF Creating, Serving
<1>9. QED
  BY <1>3, <1>5, <1>6, <1>7, <1>8 DEF HandlerInv

LEMMA ThrowInv ==
  ASSUME IInv, NEW h \in Requests, NEW status \in Statuses, status # 201,
         Throw(h, status), UNCHANGED <<directory, clients, written>>
  PROVE  IInv'
<1>1. Moved(h) /\ HandlerInv(h)' /\ ~Creating(h)'
  BY Throws DEF Throw
<1>2. Contexts' /\ Away(h) /\ UNCHANGED <<users, notes>>
  BY LeaveContext DEF Throw, IInv
<1>3. QED
  BY <1>1, <1>2, QuietStep

\* Every exception the pipeline throws.
LEMMA ThrownSteps ==
  ASSUME IInv, NEW h \in Requests,
         \/ BearerRefused(h) \/ RateLimited(h) \/ RolesRefuse(h) \/ PipeRefuses(h)
         \/ SlugTaken(h) \/ DbFails(h) \/ (At(h, "handle") /\ Throw(h, 401)
                                            /\ UNCHANGED <<directory, clients, written>>)
  PROVE  IInv'
<1>1. UNCHANGED <<directory, clients, written>>
  BY DEF BearerRefused, RateLimited, RolesRefuse, PipeRefuses, SlugTaken, DbFails
<1>2. PICK status \in {Invalid, 401, 403, 429, Failed} : Throw(h, status)
  BY DEF BearerRefused, RateLimited, RolesRefuse, PipeRefuses, SlugTaken, DbFails
<1>3. status \in Statuses /\ status # 201
  BY StatusKinds
<1>4. QED
  BY <1>1, <1>2, <1>3, ThrowInv

\* What the request was asked stays as it was when only its stage moves on.
LEMMA SentKept ==
  ASSUME NEW h \in Requests, Asks(h), Knows(h), Grows,
         req'[h].sent = req[h].sent, req'[h].known = req[h].known,
         req'[h].stage \notin {"slug", "bearer"},
         req'[h].stage = "auth" => req[h].sent.route = "login"
  PROVE  Asks(h)' /\ Knows(h)'
<1>1. Asks(h)'
  BY DEF Asks, Proper, Grows, At
<1>2. Knows(h)'
  BY DEF Knows, Grows
<1>3. QED
  BY <1>1, <1>2

\* An answer that keeps what the request was asked: only its worth is left to show.
LEMMA AnswerInv ==
  ASSUME IInv, NEW h \in Requests, Grows, Moved(h),
         req'[h].stage = "reply", req'[h].sent = req[h].sent, req'[h].known = req[h].known,
         Replies(h)'
  PROVE  HandlerInv(h)'
<1>1. Asks(h)' /\ Knows(h)'
  BY SentKept DEF IInv, HandlerInv
<1>2. InTenant(h)'
  BY DEF InTenant, At, Serving
<1>3. QED
  BY <1>1, <1>2 DEF HandlerInv

\* An answer that stores nothing.
LEMMA QuietAnswer ==
  ASSUME IInv, NEW h \in Requests, NEW status \in Statuses, status # 201,
         Answer(h, status) \/ \E data \in Payloads : AnswerWith(h, status, data),
         UNCHANGED <<directory, clients, written, users, notes>>, Contexts', Away(h), Replies(h)'
  PROVE  IInv'
<1>1. /\ Moved(h) /\ req'[h].stage = "reply" /\ req'[h].status = status
     
      /\ req'[h].sent = req[h].sent /\ req'[h].known = req[h].known
  <2>1. CASE Answer(h, status)
    BY <2>1, Answers
  <2>2. ASSUME NEW data \in Payloads, AnswerWith(h, status, data)
        PROVE  /\ Moved(h) /\ req'[h].stage = "reply" /\ req'[h].status = status
              
               /\ req'[h].sent = req[h].sent /\ req'[h].known = req[h].known
    BY <2>2, AnswersWith, ZenonT(40)
  <2>3. QED
    BY <2>1, <2>2
<1>2. Grows
  BY DEF Grows, directory, clients
<1>3. HandlerInv(h)'
  BY <1>1, <1>2, AnswerInv
<1>4. ~Creating(h)'
  BY <1>1 DEF Creating
<1>5. QED
  BY <1>1, <1>3, <1>4, QuietStep

\* A request that moves on without an answer.
LEMMA QuietMove ==
  ASSUME IInv, NEW h \in Requests, Moved(h),
         req'[h].sent = req[h].sent, req'[h].known = req[h].known,
         req'[h].stage \notin {"slug", "bearer", "reply"},
         req'[h].stage = "auth" => req[h].sent.route = "login",
         UNCHANGED <<directory, clients, written, users, notes>>, Contexts', Away(h), InTenant(h)'
  PROVE  IInv'
<1>1. Grows
  BY DEF Grows, directory, clients
<1>2. Asks(h)' /\ Knows(h)'
  BY <1>1, SentKept DEF IInv, HandlerInv
<1>3. Replies(h)' /\ ~Creating(h)'
  BY DEF Replies, At, Creating, Serving
<1>4. QED
  BY <1>2, <1>3, QuietStep DEF HandlerInv

----------------------------------------------------------------------------
(* The middleware and the guards *)

\* What a request is held against was told, and what was told is so.
LEMMA KnownHolds ==
  ASSUME IInv, NEW h \in Requests, NEW fact \in req[h].known
  PROVE  fact \in told /\ Holds(fact) /\ fact \in Concerning(req[h].sent)
BY DEF IInv, HandlerInv, Knows, Tables

LEMMA KnownTenants ==
  ASSUME IInv, NEW h \in Requests
  PROVE  req[h].known \cap TenantRow \subseteq tenants
BY KnownHolds DEF Holds

\* One tenant has a given slug, and one a given id.
LEMMA OneTenant ==
  ASSUME IInv, NEW x \in tenants, NEW y \in tenants, x.id = y.id \/ x.slug = y.slug
  PROVE  x = y
BY DEF IInv, Tables

LEMMA LoginAccount ==
  ASSUME IInv, NEW h \in Requests, req[h].sent.route = "login",
         AccountOf(req[h].sent) \in req[h].known
  PROVE  Held(req[h].sent.slug, req[h].sent.email)
<1>1. req[h].sent.slug \in Slugs /\ req[h].sent.email \in Emails
  BY DEF IInv, HandlerInv, Asks, Proper
<1>2. AccountOf(req[h].sent) \in Account
  BY <1>1 DEF AccountOf, Account
<1>3. Holds(AccountOf(req[h].sent))
  BY KnownHolds
<1>4. /\ AccountOf(req[h].sent).slug = req[h].sent.slug
      /\ AccountOf(req[h].sent).email = req[h].sent.email
  BY DEF AccountOf
<1>5. QED
  BY <1>2, <1>3, <1>4 DEF Holds

LEMMA SlugRefusedInv ==
  ASSUME IInv, NEW h \in Requests, SlugRefused(h)
  PROVE  IInv'
<1>1. /\ At(h, "slug") /\ ~Taken(req[h].sent.slug)
      /\ UNCHANGED <<directory, clients, written, tables>>
  BY DEF SlugRefused, At
<1>2. PICK status \in Statuses : status \in {Invalid, 404} /\ Answer(h, status)
  <2>1. PICK st : /\ st = (IF req[h].sent.slug = None THEN Invalid ELSE 404)
                  /\ Answer(h, st)
    BY DEF SlugRefused
  <2>2. st \in Statuses /\ st \in {Invalid, 404}
    BY <2>1, StatusKinds
  <2>3. QED
    BY <2>1, <2>2
<1>3. /\ req'[h].status = status
      /\ req'[h].sent = req[h].sent /\ req'[h].known = req[h].known
  BY <1>2, Answers
<1>4. status \notin {200, 201, 401, 409}
  BY <1>2, StatusKinds
<1>5. req[h].sent.route \in {"register", "login"} /\ req[h].sent.id = None
  BY <1>1 DEF IInv, HandlerInv, Asks, Proper
<1>6. \A row \in req[h].known \cap TenantRow :
        req[h].sent.id # row.id /\ req[h].sent.slug # row.slug
  BY <1>1, <1>5, KnownTenants, TenantRowFields, NullAssumption DEF Taken
<1>7. req[h].sent.route = "login" => AccountOf(req[h].sent) \notin req[h].known
  BY <1>1, LoginAccount DEF Held, Taken
<1>8. Replies(h)'
  BY <1>3, <1>4, <1>6, <1>7 DEF Replies
<1>9. Contexts' /\ Away(h) /\ UNCHANGED <<users, notes>>
  BY <1>1, SameContext DEF IInv
<1>10. QED
  BY <1>1, <1>2, <1>4, <1>8, <1>9, QuietAnswer

LEMMA ResolveSlugInv ==
  ASSUME IInv, NEW h \in Requests, ResolveSlug(h)
  PROVE  IInv'
<1>1. /\ At(h, "slug") /\ Goto(h, "guards")
      /\ UNCHANGED <<directory, clients, written>>
  BY DEF ResolveSlug, At
<1>2. PICK row \in tenants : row.slug = req[h].sent.slug /\ Store!Enter(h, row.id)
  BY DEF ResolveSlug
<1>3. row.id \in Tenants /\ row = [id |-> row.id, slug |-> row.slug]
  BY TenantRowFields DEF IInv, Tables
<1>4. Contexts' /\ Away(h) /\ tenantOf'[h] = row.id /\ UNCHANGED <<users, notes>>
  BY <1>2, <1>3, EnterContext DEF IInv
<1>5. "guards" \in Stages
  BY DEF Stages
<1>6. /\ Moved(h) /\ req'[h].stage = "guards" /\ req'[h].sent = req[h].sent
      /\ req'[h].known = req[h].known
  BY <1>1, <1>5, Goes
<1>7. req[h].sent.route \in {"register", "login"}
  BY <1>1 DEF IInv, HandlerInv, Asks, Proper
<1>8. [id |-> tenantOf'[h], slug |-> req'[h].sent.slug] \in tenants'
  BY <1>1, <1>2, <1>3, <1>4, <1>6 DEF directory
<1>9. InTenant(h)'
  BY <1>6, <1>7, <1>8 DEF InTenant, Serving, NoteRoutes
<1>10. QED
  BY <1>1, <1>4, <1>6, <1>9, QuietMove

LEMMA VerifyBearerInv ==
  ASSUME IInv, NEW h \in Requests, VerifyBearer(h)
  PROVE  IInv'
<1>1. /\ At(h, "bearer") /\ UNCHANGED <<directory, clients, written>>
      /\ Store!Enter(h, req[h].sent.token.tenant)
  BY DEF VerifyBearer, At
<1>2. req[h].sent.route \in NoteRoutes /\ req[h].sent.token \in issued
  BY <1>1 DEF IInv, HandlerInv, Asks, Proper
<1>3. PICK token \in Token : token = req[h].sent.token
  BY <1>2 DEF IInv, Tables, Granted
<1>4. PICK stage \in Stages : stage = "guards"
  BY DEF Stages
<1>5. /\ Moved(h) /\ req'[h].stage = stage /\ req'[h].user = token
      /\ req'[h].sent = req[h].sent
      /\ req'[h].known = req[h].known
  <2>1. req' = [req EXCEPT ![h].stage = stage, ![h].user = token]
    BY <1>3, <1>4 DEF VerifyBearer
  <2>2. QED
    BY <2>1, Identifies
<1>6. Contexts' /\ Away(h) /\ tenantOf'[h] = token.tenant /\ UNCHANGED <<users, notes>>
  BY <1>1, <1>3, TokenFields, EnterContext DEF IInv
<1>7. InTenant(h)'
  BY <1>2, <1>3, <1>4, <1>5, <1>6 DEF InTenant, Serving, NoteRoutes
<1>8. QED
  BY <1>1, <1>4, <1>5, <1>6, <1>7, QuietMove

LEMMA PassGuardsInv ==
  ASSUME IInv, NEW h \in Requests, PassGuards(h)
  PROVE  IInv'
<1>1. /\ At(h, "guards") /\ HasRole(h)
      /\ UNCHANGED <<directory, clients, written, tables>>
  BY DEF PassGuards, At
<1>2. PICK stage \in Stages : /\ stage = (IF req[h].sent.route = "login" THEN "auth" ELSE "handle")
                              /\ Goto(h, stage)
  BY DEF PassGuards, Stages
<1>3. /\ Moved(h) /\ req'[h].stage = stage /\ req'[h].sent = req[h].sent
      /\ req'[h].known = req[h].known /\ req'[h].user = req[h].user
  BY <1>2, Goes
<1>4. Contexts' /\ Away(h) /\ tenantOf'[h] = tenantOf[h] /\ UNCHANGED <<users, notes>>
  BY <1>1, SameContext DEF IInv
<1>5. InTenant(h)
  BY DEF IInv, HandlerInv
<1>6. UNCHANGED tenants
  BY <1>1 DEF directory
<1>7. InTenant(h)'
  BY <1>1, <1>2, <1>3, <1>4, <1>5, <1>6 DEF InTenant, Serving, At, HasRole, NoteRoutes
<1>8. QED
  BY <1>1, <1>2, <1>3, <1>4, <1>7, QuietMove

\* The rows a lookup by address finds are there exactly when the account is.
LEMMA LookedUp ==
  ASSUME IInv, NEW h \in Requests,
         [id |-> tenantOf[h], slug |-> req[h].sent.slug] \in tenants,
         req[h].sent.email \in Emails, Store!FindUser(h, req[h].sent.email)
  PROVE  /\ view'[h] = {} <=> ~Held(req[h].sent.slug, req[h].sent.email)
         /\ view'[h] # {} <=> [tenant |-> tenantOf[h], email |-> req[h].sent.email] \in users
<1> DEFINE here == [id |-> tenantOf[h], slug |-> req[h].sent.slug]
           mine == [tenant |-> tenantOf[h], email |-> req[h].sent.email]
<1>1. view'[h] = {row \in users : row.tenant = tenantOf[h] /\ row.email = req[h].sent.email}
  BY DEF Store!FindUser, Store!Owned, IInv, Contexts
<1>2. \A row \in users : row = [tenant |-> row.tenant, email |-> row.email]
  BY StoredRowFields DEF IInv, Tables
<1>3. view'[h] # {} <=> mine \in users
  BY <1>1, <1>2
<1>4. Held(req[h].sent.slug, req[h].sent.email) <=> mine \in users
  <2>1. here.id = tenantOf[h] /\ here.slug = req[h].sent.slug /\ here \in tenants
    OBVIOUS
  <2> HIDE DEF here
  <2>2. \A row \in tenants : row.slug = req[h].sent.slug => row = here
    BY <2>1, OneTenant
  <2>3. QED
    BY <2>1, <2>2 DEF Held
<1>5. QED
  BY <1>3, <1>4

LEMMA LocalAuthInv ==
  ASSUME IInv, NEW h \in Requests, LocalAuth(h)
  PROVE  IInv'
<1> DEFINE here  == tenantOf[h]
           email == req[h].sent.email
           slug  == req[h].sent.slug
           mine  == [tenant |-> here, email |-> email]
           user  == [tenant |-> here, email |-> email, via |-> slug, role |-> role[mine]]
<1>1. /\ At(h, "auth") /\ Store!FindUser(h, email)
      /\ UNCHANGED <<directory, clients, written>>
  BY DEF LocalAuth, At
<1>2. req[h].sent.route = "login" /\ slug \in Slugs /\ email \in Emails
  BY <1>1 DEF IInv, HandlerInv, Asks, Proper
<1>3. [id |-> here, slug |-> slug] \in tenants
  BY <1>1, <1>2 DEF IInv, HandlerInv, InTenant, At
<1>4. /\ view'[h] = {} <=> ~Held(slug, email)
      /\ view'[h] # {} <=> mine \in users
  BY <1>1, <1>2, <1>3, LookedUp
<1>5. /\ Contexts' /\ Away(h) /\ tenantOf'[h] = here /\ UNCHANGED <<users, notes>>
      /\ here \in Tenants
  BY <1>1, FindContext DEF IInv
<1>6. CASE view'[h] # {} /\ req[h].sent.genuine
  <2>1. mine \in UserRow /\ role[mine] \in Roles
    BY <1>4, <1>6, NullAssumption DEF IInv, Tables
  <2>2. PICK token \in Token : token = user
    BY <1>2, <1>5, <2>1 DEF Token
  <2>3. token.tenant = here /\ token.via = slug
    BY <2>2
  <2>4. PICK stage \in Stages : stage = "handle"
    BY DEF Stages
  <2>5. req' = [req EXCEPT ![h].stage = stage, ![h].user = token]
    BY <1>6, <2>2, <2>4 DEF LocalAuth
  <2> HIDE DEF user
  <2>6. /\ Moved(h) /\ req'[h].stage = stage /\ req'[h].user = token
        /\ req'[h].sent = req[h].sent
        /\ req'[h].known = req[h].known
    BY <2>5, Identifies
  <2>7. tenants' = tenants
    BY <1>1 DEF directory
  <2>8. Granted(token)'
    BY <1>3, <2>3, <2>7 DEF Granted
  <2>9. [id |-> tenantOf'[h], slug |-> req'[h].sent.slug] \in tenants'
    BY <1>3, <1>5, <2>6, <2>7
  <2>10. InTenant(h)'
    BY <1>2, <2>4, <2>6, <2>8, <2>9 DEF InTenant, Serving, NoteRoutes
  <2>11. QED
    BY <1>1, <1>5, <2>4, <2>6, <2>10, QuietMove
<1>7. CASE ~(view'[h] # {} /\ req[h].sent.genuine)
  <2>1. PICK status \in Statuses : status = 401 /\ Answer(h, status)
    <3>1. Answer(h, 401)
      BY <1>7 DEF LocalAuth
    <3>2. 401 \in Statuses
      BY StatusKinds
    <3>3. QED
      BY <3>1, <3>2
  <2>2. /\ req'[h].status = status
        /\ req'[h].sent = req[h].sent /\ req'[h].known = req[h].known
    BY <2>1, Answers
  <2>3. req[h].sent.genuine => AccountOf(req[h].sent) \notin req[h].known
    BY <1>2, <1>4, <1>7, LoginAccount
  <2>4. status \notin {200, 201, 404, 409}
    BY <2>1
  <2>5. Replies(h)'
    BY <2>2, <2>3, <2>4 DEF Replies
  <2>6. QED
    BY <1>1, <1>5, <2>1, <2>4, <2>5, QuietAnswer
<1>8. QED
  BY <1>6, <1>7

----------------------------------------------------------------------------
(* The handlers that store nothing *)

LEMMA CheckSlugInv ==
  ASSUME IInv, NEW h \in Requests, CheckSlug(h)
  PROVE  IInv'
<1>1. /\ At(h, "handle") /\ req[h].sent.route = "createTenant"
      /\ UNCHANGED <<directory, clients, written, tables>>
  BY DEF CheckSlug, Serving, At
<1>2. Contexts' /\ Away(h) /\ UNCHANGED <<users, notes>>
  BY <1>1, SameContext DEF IInv
<1>3. CASE Taken(req[h].sent.slug)
  <2>1. PICK status \in Statuses : status = 409 /\ Answer(h, status)
    <3>1. Answer(h, 409)
      BY <1>3 DEF CheckSlug
    <3>2. 409 \in Statuses
      BY StatusKinds
    <3>3. QED
      BY <3>1, <3>2
  <2>2. req'[h].status = status /\ req'[h].sent = req[h].sent
    BY <2>1, Answers
  <2>3. status \notin {200, 201, 401, 404}
    BY <2>1
  <2>4. Taken(req[h].sent.slug)'
    BY <1>1, <1>3, <2>2 DEF Taken, directory
  <2>5. Replies(h)'
    BY <1>1, <2>2, <2>3, <2>4 DEF Replies
  <2>6. QED
    BY <1>1, <1>2, <2>1, <2>3, <2>5, QuietAnswer
<1>4. CASE ~Taken(req[h].sent.slug)
  <2>1. PICK stage \in Stages : stage = "insert" /\ Goto(h, stage)
    BY <1>4 DEF CheckSlug, Stages
  <2>2. /\ Moved(h) /\ req'[h].stage = stage /\ req'[h].sent = req[h].sent
        /\ req'[h].known = req[h].known
    BY <2>1, Goes
  <2>3. InTenant(h)'
    BY <1>1, <2>1, <2>2 DEF InTenant, Serving, NoteRoutes
  <2>4. QED
    BY <1>1, <1>2, <2>1, <2>2, <2>3, QuietMove
<1>5. QED
  BY <1>3, <1>4

LEMMA ListTenantsInv ==
  ASSUME IInv, NEW h \in Requests, ListTenants(h)
  PROVE  IInv'
<1>1. /\ At(h, "handle") /\ req[h].sent.route = "listTenants"
      /\ UNCHANGED <<directory, clients, written, tables>>
  BY DEF ListTenants, Serving, At
<1>2. Contexts' /\ Away(h) /\ UNCHANGED <<users, notes>>
  BY <1>1, SameContext DEF IInv
<1>3. PICK status \in Statuses, data \in Payloads :
        status = 200 /\ data = tenants /\ AnswerWith(h, status, data)
  BY StatusKinds DEF ListTenants, IInv, Tables, Payloads
<1>4. /\ req'[h].status = status /\ req'[h].data = data
      /\ req'[h].sent = req[h].sent /\ req'[h].known = req[h].known
  BY <1>3, AnswersWith
<1>5. status \notin {201, 401, 404, 409}
  BY <1>3
<1>6. req[h].known \cap TenantRow \subseteq data
  BY <1>3, KnownTenants
<1>7. Replies(h)'
  BY <1>1, <1>4, <1>5, <1>6 DEF Replies
<1>8. QED
  BY <1>1, <1>2, <1>3, <1>5, <1>7, QuietAnswer

LEMMA GetTenantInv ==
  ASSUME IInv, NEW h \in Requests, GetTenant(h)
  PROVE  IInv'
<1>1. /\ At(h, "handle") /\ req[h].sent.route = "getTenant"
      /\ UNCHANGED <<directory, clients, written, tables>>
  BY DEF GetTenant, Serving, At
<1>2. Contexts' /\ Away(h) /\ UNCHANGED <<users, notes>>
  BY <1>1, SameContext DEF IInv
<1>3. PICK data \in Payloads :
        data = {row \in tenants : row.id = req[h].sent.id}
  BY DEF IInv, Tables, Payloads
<1>4. PICK status \in Statuses :
        status = (IF data = {} THEN 404 ELSE 200) /\ AnswerWith(h, status, data)
  <2>1. PICK status : status = (IF data = {} THEN 404 ELSE 200) /\ AnswerWith(h, status, data)
    BY <1>3 DEF GetTenant
  <2>2. status \in Statuses
    BY <2>1, StatusKinds
  <2>3. QED
    BY <2>1, <2>2
<1>5. /\ req'[h].status = status
      /\ req'[h].sent = req[h].sent /\ req'[h].known = req[h].known
  BY <1>4, AnswersWith
<1>6. status \notin {201, 401, 409}
  BY <1>4
<1>7. req[h].sent.slug = None
  BY <1>1 DEF IInv, HandlerInv, Asks, Proper
<1>8. status = 404 => \A row \in req[h].known \cap TenantRow :
                        req[h].sent.id # row.id /\ req[h].sent.slug # row.slug
  BY <1>3, <1>4, <1>7, KnownTenants, TenantRowFields, NullAssumption
<1>9. Replies(h)'
  BY <1>1, <1>5, <1>6, <1>8 DEF Replies
<1>10. QED
  BY <1>1, <1>2, <1>4, <1>6, <1>9, QuietAnswer

LEMMA CheckEmailInv ==
  ASSUME IInv, NEW h \in Requests, CheckEmail(h)
  PROVE  IInv'
<1>1. /\ At(h, "handle") /\ req[h].sent.route = "register"
      /\ Store!FindUser(h, req[h].sent.email) /\ UNCHANGED <<directory, clients, written>>
  BY DEF CheckEmail, Serving, At
<1>2. /\ Contexts' /\ Away(h) /\ tenantOf'[h] = tenantOf[h] /\ UNCHANGED <<users, notes>>
  BY <1>1, FindContext DEF IInv
<1>3. CASE view'[h] # {}
  <2>1. PICK status \in Statuses : status = 409 /\ Answer(h, status)
    <3>1. Answer(h, 409)
      BY <1>3 DEF CheckEmail
    <3>2. 409 \in Statuses
      BY StatusKinds
    <3>3. QED
      BY <3>1, <3>2
  <2>2. req'[h].status = status /\ req'[h].sent = req[h].sent
    BY <2>1, Answers
  <2>3. status \notin {200, 201, 401, 404}
    BY <2>1
  <2>4. /\ [id |-> tenantOf[h], slug |-> req[h].sent.slug] \in tenants
        /\ req[h].sent.email \in Emails
    BY <1>1 DEF IInv, HandlerInv, Asks, Proper, InTenant, At
  <2>5. Held(req[h].sent.slug, req[h].sent.email)
    BY <1>1, <1>3, <2>4, LookedUp
  <2>6. Held(req[h].sent.slug, req[h].sent.email)'
    BY <1>1, <1>2, <2>2, <2>5 DEF Held, directory
  <2>7. Replies(h)'
    BY <1>1, <2>2, <2>3, <2>6 DEF Replies
  <2>8. QED
    BY <1>1, <1>2, <2>1, <2>3, <2>7, QuietAnswer
<1>4. CASE view'[h] = {}
  <2>1. PICK stage \in Stages : stage = "insert" /\ Goto(h, stage)
    BY <1>4 DEF CheckEmail, Stages
  <2>2. /\ Moved(h) /\ req'[h].stage = stage /\ req'[h].sent = req[h].sent
        /\ req'[h].known = req[h].known
    BY <2>1, Goes
  <2>3. [id |-> tenantOf'[h], slug |-> req'[h].sent.slug] \in tenants'
    BY <1>1, <1>2, <2>2 DEF IInv, HandlerInv, InTenant, At, directory
  <2>4. InTenant(h)'
    BY <1>1, <2>1, <2>2, <2>3 DEF InTenant, Serving, NoteRoutes
  <2>5. QED
    BY <1>1, <1>2, <2>1, <2>2, <2>4, QuietMove
<1>5. QED
  BY <1>3, <1>4

\* The unique index refuses the INSERT because the account of that tenant is there.
LEMMA EmailTakenInv ==
  ASSUME IInv, NEW h \in Requests, EmailTaken(h)
  PROVE  IInv'
<1>1. /\ At(h, "insert") /\ req[h].sent.route = "register"
      /\ [tenant |-> tenantOf[h], email |-> req[h].sent.email] \in users
      /\ UNCHANGED <<directory, clients, written, tables>>
  BY DEF EmailTaken, Serving, At
<1>2. Contexts' /\ Away(h) /\ UNCHANGED <<users, notes>>
  BY <1>1, SameContext DEF IInv
<1>3. PICK status \in Statuses : status = 409 /\ Answer(h, status)
  <2>1. Answer(h, 409)
    BY DEF EmailTaken
  <2>2. 409 \in Statuses
    BY StatusKinds
  <2>3. QED
    BY <2>1, <2>2
<1>4. req'[h].status = status /\ req'[h].sent = req[h].sent
  BY <1>3, Answers
<1>5. status \notin {200, 201, 401, 404}
  BY <1>3
<1>6. PICK here \in tenants : here = [id |-> tenantOf[h], slug |-> req[h].sent.slug]
  BY <1>1 DEF IInv, HandlerInv, InTenant, At
<1>7. here.id = tenantOf[h] /\ here.slug = req[h].sent.slug
  BY <1>6
<1>8. Held(req[h].sent.slug, req[h].sent.email)
  BY <1>1, <1>7 DEF Held
<1>9. Held(req[h].sent.slug, req[h].sent.email)'
  BY <1>1, <1>2, <1>4, <1>8 DEF Held, directory
<1>10. Replies(h)'
  BY <1>1, <1>4, <1>5, <1>9 DEF Replies
<1>11. QED
  BY <1>1, <1>2, <1>3, <1>5, <1>10, QuietAnswer

\* Answers that neither store nor look anything up.
LEMMA PlainAnswers ==
  ASSUME IInv, NEW h \in Requests,
         \/ IssueTokens(h) \/ Health(h)
         \/ Serving(h, "handle", "me") /\ Answer(h, 200)
              /\ UNCHANGED <<directory, clients, written, tables>>
  PROVE  IInv'
<1>1. /\ UNCHANGED <<directory, clients, written, tables>>
      /\ req[h].sent.route \in {"login", "health", "me"}
  BY DEF IssueTokens, Health, Serving, At
<1>2. Contexts' /\ Away(h) /\ UNCHANGED <<users, notes>>
  BY <1>1, SameContext DEF IInv
<1>3. PICK status \in Statuses : status = 200 /\ Answer(h, status)
  BY StatusKinds DEF IssueTokens, Health
<1>4. /\ req'[h].status = status
      /\ req'[h].sent = req[h].sent /\ req'[h].known = req[h].known /\ req'[h].user = req[h].user
  BY <1>3, Answers
<1>5. status \notin {201, 401, 404, 409}
  BY <1>3
<1>6. req[h].sent.route = "login" => Granted(req[h].user)
  <2>1. req[h].sent.route = "login" => IssueTokens(h)
    BY DEF IssueTokens, Health, Serving
  <2>2. IssueTokens(h) => Granted(req[h].user)
    BY DEF IssueTokens, Serving, IInv, HandlerInv, InTenant
  <2>3. QED
    BY <2>1, <2>2
<1>7. req'[h].sent.route = "login" => Granted(req[h].user)'
  BY <1>1, <1>4, <1>6 DEF Granted, directory
<1>8. Replies(h)'
  BY <1>1, <1>4, <1>5, <1>7 DEF Replies
<1>9. QED
  BY <1>1, <1>2, <1>3, <1>5, <1>8, QuietAnswer

\* The client sees the notes of its token's tenant: those written under its slug.
LEMMA ListNotesInv ==
  ASSUME IInv, NEW h \in Requests, ListNotes(h)
  PROVE  IInv'
<1>1. /\ At(h, "handle") /\ req[h].sent.route = "listNotes"
      /\ Store!FindNotes(h) /\ UNCHANGED <<directory, clients, written>>
  BY DEF ListNotes, Serving, At
<1>2. Contexts' /\ Away(h) /\ UNCHANGED <<users, notes>>
  BY <1>1, FindContext DEF IInv
<1>3. PICK data \in Payloads : data = {row \in notes : row.tenant = tenantOf[h]}
  BY DEF IInv, Tables, Payloads
<1>4. view'[h] = data
  BY <1>1, <1>3 DEF Store!FindNotes, Store!Owned, IInv, Contexts
<1>5. PICK status \in Statuses : status = 200 /\ AnswerWith(h, status, data)
  BY <1>4, StatusKinds DEF ListNotes
<1>6. /\ req'[h].status = status /\ req'[h].data = data
      /\ req'[h].sent = req[h].sent /\ req'[h].known = req[h].known
  BY <1>5, AnswersWith
<1>7. PICK token \in issued : /\ token = req[h].sent.token /\ tenantOf[h] = token.tenant
                              /\ Granted(token)
  BY <1>1 DEF IInv, HandlerInv, Asks, Proper, InTenant, At, NoteRoutes, Tables
<1>8. ASSUME NEW row \in data
      PROVE  \E w \in written : w.id = row.id /\ w.token.via = token.via
  <2>1. PICK w \in written : w.id = row.id /\ w.token \in issued /\ w.token.tenant = token.tenant
    BY <1>3, <1>7 DEF IInv, Tables, AuthorsMayWrite
  <2>2. PICK x \in tenants, y \in tenants :
          /\ x = [id |-> w.token.tenant, slug |-> w.token.via]
          /\ y = [id |-> token.tenant, slug |-> token.via]
    BY <1>7, <2>1 DEF IInv, Tables, Granted
  <2>3. x.id = y.id /\ x.slug = w.token.via /\ y.slug = token.via
    BY <2>1, <2>2
  <2>4. QED
    BY <2>1, <2>3, OneTenant
<1>9. ASSUME NEW fact \in req[h].known PROVE \E row \in data : row.id = fact.note
  <2>1. token.via \in Slugs /\ token # None
    BY <1>7, TokenFields DEF Granted
  <2>2. fact \in [slug : {token.via}, note : NoteIds] /\ Holds(fact)
    BY <1>1, <1>7, <2>1, KnownHolds DEF Concerning, SlugOf
  <2>3. fact.slug = token.via /\ fact \in NoteFact
    BY <2>1, <2>2 DEF NoteFact
  <2>4. PICK row \in tenants :
          row.slug = token.via /\ [tenant |-> row.id, id |-> fact.note] \in notes
    BY <2>2, <2>3 DEF Holds
  <2>5. PICK y \in tenants : y = [id |-> token.tenant, slug |-> token.via]
    BY <1>7 DEF Granted
  <2>6. y.slug = token.via /\ y.id = token.tenant
    BY <2>5
  <2>7. row.id = token.tenant
    BY <2>4, <2>6, OneTenant
  <2>8. QED
    BY <1>3, <1>7, <2>4, <2>7
<1>10. Listed(h)'
  BY <1>1, <1>6, <1>7, <1>8, <1>9 DEF Listed
<1>11. status \notin {201, 401, 404, 409}
  BY <1>5
<1>12. Replies(h)'
  BY <1>1, <1>6, <1>10, <1>11 DEF Replies
<1>13. QED
  BY <1>1, <1>2, <1>5, <1>11, <1>12, QuietAnswer

LEMMA MeInv ==
  ASSUME IInv, NEW h \in Requests, Me(h)
  PROVE  IInv'
<1>1. CASE Throw(h, 401)
  BY <1>1, ThrownSteps DEF Me, Serving, At
<1>2. CASE Answer(h, 200) /\ UNCHANGED tables
  BY <1>2, PlainAnswers DEF Me
<1>3. QED
  BY <1>1, <1>2 DEF Me

----------------------------------------------------------------------------
(* The handlers that store a row *)

LEMMA HoldsKept ==
  ASSUME Grows, NEW fact, Holds(fact)
  PROVE  Holds(fact)'
<1>1. fact \in Account => Held(fact.slug, fact.email)'
  BY HeldKept DEF Holds
<1>2. QED
  BY <1>1 DEF Holds, Grows

\* What is written is acknowledged, or its answer is lost and becomes an error.
LEMMA WrittenInv ==
  ASSUME IInv, NEW h \in Requests, NEW data \in Payloads, Written(h, data),
         Grows, Away(h), Tables', Contexts', UNCHANGED told,
         AnswerWith(h, 201, data) => Made(h)',
         req[h].sent.route = "createTenant" => ~Taken(req[h].sent.slug)
  PROVE  IInv'
<1>1. CASE AnswerWith(h, 201, data)
  <2>1. PICK status \in Statuses : status = 201
    BY StatusKinds
  <2>2. AnswerWith(h, status, data)
    BY <1>1, <2>1
  <2>3. /\ Moved(h)
        /\ req'[h].stage = "reply" /\ req'[h].status = status /\ req'[h].data = data
        /\ req'[h].sent = req[h].sent /\ req'[h].known = req[h].known
    BY <2>2, AnswersWith
  <2>4. status \notin {200, 401, 404, 409}
    BY <2>1
  <2>5. Replies(h)'
    BY <1>1, <2>3, <2>4 DEF Replies
  <2>6. HandlerInv(h)'
    BY <2>1, <2>3, <2>5, AnswerInv
  <2>7. ASSUME NEW row \in told \cap TenantRow, ~Taken(req[h].sent.slug)
        PROVE  row.slug # req[h].sent.slug
    BY <2>7 DEF Taken, IInv, Tables, Holds
  <2>8. Created'
    <3>1. \A k \in Requests \ {h} : Creating(k)' => Creating(k) /\ req'[k].sent = req[k].sent
      BY <2>3 DEF Creating, Serving, Moved
    <3>2. Creating(h)' => ~Taken(req[h].sent.slug)
      BY <2>3 DEF Creating, Serving
    <3>3. \A k \in Requests : Creating(k) => Taken(req[k].sent.slug)
      BY DEF Creating, Serving, At, IInv, HandlerInv, Replies, Made
    <3>4. QED
      BY <2>3, <2>7, <3>1, <3>2, <3>3 DEF IInv, Created
  <2>9. QED
    BY <2>3, <2>6, <2>8, RequestStep
<1>2. CASE req' = [req EXCEPT ![h] = Thrown(Invalid)]
  <2>1. PICK status \in Statuses : status = Invalid /\ status # 201
    BY StatusKinds
  <2>2. Moved(h) /\ HandlerInv(h)' /\ ~Creating(h)'
    BY <1>2, <2>1, Throws
  <2>3. Created'
    BY <2>2 DEF IInv, Created, Creating, Serving, Moved
  <2>4. QED
    BY <2>2, <2>3, RequestStep
<1>3. QED
  BY <1>1, <1>2 DEF Written

LEMMA InsertTenantInv ==
  ASSUME IInv, NEW h \in Requests, NEW id \in Tenants, InsertTenant(h, id)
  PROVE  IInv'
<1>1. /\ At(h, "insert") /\ req[h].sent.route = "createTenant"
      /\ UNCHANGED <<role, clients, written, tables>>
  BY DEF InsertTenant, Serving, At
<1>2. PICK row \in TenantRow : /\ row = [id |-> id, slug |-> req[h].sent.slug]
                               /\ row.id = id /\ row.slug = req[h].sent.slug
  BY <1>1, TenantRowFields DEF IInv, HandlerInv, Asks, Proper
<1>3. /\ \A other \in tenants : other.id # row.id /\ other.slug # row.slug
      /\ tenants' = tenants \cup {row} /\ Written(h, {row})
  BY <1>2 DEF InsertTenant
<1>4. Contexts' /\ Away(h) /\ UNCHANGED <<users, notes>>
  BY <1>1, SameContext DEF IInv
<1>5. Grows /\ UNCHANGED told
  BY <1>1, <1>3, <1>4 DEF Grows, clients
<1>6. Tables'
  <2>1. tenants' \subseteq TenantRow
    BY <1>3 DEF IInv, Tables
  <2>2. \A x, y \in tenants' : x.id = y.id \/ x.slug = y.slug => x = y
    BY <1>3 DEF IInv, Tables
  <2>3. \A token \in issued' : Granted(token)'
    BY <1>1, <1>3 DEF IInv, Tables, Granted, clients
  <2>4. \A fact \in told' : Holds(fact)'
    BY <1>5, HoldsKept DEF IInv, Tables
  <2>5. AuthorsMayWrite'
    BY <1>1, <1>4 DEF IInv, Tables, AuthorsMayWrite, clients
  <2>6. QED
    BY <1>1, <1>4, <2>1, <2>2, <2>3, <2>4, <2>5 DEF IInv, Tables, clients
<1>7. PICK data \in Payloads : data = {row}
  BY DEF Payloads
<1>8. ASSUME AnswerWith(h, 201, data) PROVE Made(h)'
  <2>1. PICK status \in Statuses : status = 201
    BY StatusKinds
  <2>2. req'[h].data = data /\ req'[h].sent = req[h].sent
    BY <1>8, <2>1, AnswersWith
  <2>3. row \in tenants'
    BY <1>3
  <2>4. QED
    BY <1>1, <1>2, <1>7, <2>2, <2>3 DEF Made, Taken
<1>9. ~Taken(req[h].sent.slug)
  BY <1>2, <1>3 DEF Taken
<1>10. QED
  BY <1>3, <1>4, <1>5, <1>6, <1>7, <1>8, <1>9, WrittenInv

LEMMA InsertUserInv ==
  ASSUME IInv, NEW h \in Requests, InsertUser(h)
  PROVE  IInv'
<1>1. /\ At(h, "insert") /\ req[h].sent.route = "register"
      /\ Store!AddUser(h, req[h].sent.email) /\ Written(h, {})
      /\ UNCHANGED <<tenants, clients, written>>
  BY DEF InsertUser, Serving, At
<1>2. /\ req[h].sent.email \in Emails
      /\ [id |-> tenantOf[h], slug |-> req[h].sent.slug] \in tenants
  BY <1>1 DEF IInv, HandlerInv, Asks, Proper, InTenant, At
<1>3. tenantOf[h] \in Tenants
  BY <1>1 DEF Store!AddUser, IInv, Contexts
<1>4. PICK row \in UserRow : row = [tenant |-> tenantOf[h], email |-> req[h].sent.email]
  BY <1>2, <1>3, StoredRowFields
<1>5. /\ users' = users \cup {row} /\ UNCHANGED <<notes, tenantOf, view>>
      /\ role' = [role EXCEPT ![row] = "member"]
  BY <1>4 DEF InsertUser, Store!AddUser
<1>6. Contexts' /\ Away(h)
  BY <1>5 DEF IInv, Contexts, Away
<1>7. Grows /\ UNCHANGED told
  BY <1>1, <1>5 DEF Grows, clients
<1>8. Tables'
  <2>1. "member" \in Roles /\ "member" # None
    BY RoleAssumption, NullAssumption
  <2>2. PICK member \in Roles : member = "member" /\ member # None
    BY <2>1
  <2>3. role' = [role EXCEPT ![row] = member]
    BY <1>5, <2>2
  <2>4. role' \in [UserRow -> Roles \cup {None}] /\ users' = {u \in UserRow : role'[u] # None}
    BY <1>5, <2>2, <2>3 DEF IInv, Tables
  <2>5. \A token \in issued' : Granted(token)'
    BY <1>1 DEF IInv, Tables, Granted, clients
  <2>6. \A fact \in told' : Holds(fact)'
    BY <1>7, HoldsKept DEF IInv, Tables
  <2>7. AuthorsMayWrite'
    BY <1>1, <1>5 DEF IInv, Tables, AuthorsMayWrite, clients
  <2>8. QED
    BY <1>1, <1>5, <2>4, <2>5, <2>6, <2>7 DEF IInv, Tables, clients
<1>9. PICK data \in Payloads : data = {}
  BY DEF Payloads
<1>10. ASSUME AnswerWith(h, 201, data) PROVE Made(h)'
  <2>1. PICK status \in Statuses : status = 201
    BY StatusKinds
  <2>2. req'[h].sent = req[h].sent
    BY <1>10, <2>1, AnswersWith
  <2>3. PICK here \in tenants : here = [id |-> tenantOf[h], slug |-> req[h].sent.slug]
    BY <1>2
  <2>4. here \in tenants' /\ here.id = tenantOf[h] /\ here.slug = req[h].sent.slug
    BY <1>1, <2>3
  <2>5. Held(req[h].sent.slug, req[h].sent.email)'
    BY <1>4, <1>5, <2>2, <2>4 DEF Held
  <2>6. QED
    BY <1>1, <2>2, <2>5 DEF Made
<1>11. QED
  BY <1>1, <1>6, <1>7, <1>8, <1>9, <1>10, WrittenInv

LEMMA CreateNoteInv ==
  ASSUME IInv, NEW h \in Requests, NEW id \in NoteIds, CreateNote(h, id)
  PROVE  IInv'
<1>1. /\ At(h, "handle") /\ req[h].sent.route = "createNote"
      /\ Store!AddNote(h, id) /\ UNCHANGED <<directory, clients>>
  BY DEF CreateNote, Serving, At
<1>2. PICK token \in issued : /\ token = req[h].user /\ token = req[h].sent.token
                              /\ tenantOf[h] = token.tenant /\ Granted(token)
                              /\ token.role \in {"admin", "member"}
  BY <1>1 DEF IInv, HandlerInv, Asks, Proper, InTenant, At, Serving, NoteRoutes, Tables
<1>3. token \in Token /\ tenantOf[h] \in Tenants
  BY <1>2, TokenFields DEF Granted
<1>4. PICK row \in NoteRow : /\ row = [tenant |-> tenantOf[h], id |-> id]
                             /\ row.id = id /\ row.tenant = token.tenant
  BY <1>2, <1>3, StoredRowFields
<1>5. PICK w \in [id : NoteIds, token : Token] : /\ w = [id |-> id, token |-> token]
                                                 /\ w.id = id /\ w.token = token
  <2>1. token \in Token /\ id \in NoteIds
    BY <1>3
  <2>2. [id |-> id, token |-> token] \in [id : NoteIds, token : Token]
    BY <2>1, Zenon
  <2>3. [id |-> id, token |-> token].id = id /\ [id |-> id, token |-> token].token = token
    OBVIOUS
  <2>4. QED
    BY <2>2, <2>3, Zenon
<1>6. /\ notes' = notes \cup {row} /\ UNCHANGED <<users, tenantOf, view>>
      /\ written' = written \cup {w} /\ Written(h, {row})
  BY <1>2, <1>4, <1>5 DEF CreateNote, Store!AddNote
<1>7. Contexts' /\ Away(h)
  BY <1>6 DEF IInv, Contexts, Away
<1>8. Grows /\ UNCHANGED told
  BY <1>1, <1>6 DEF Grows, clients, directory
<1>9. Tables'
  <2>1. \A t \in issued' : Granted(t)'
    BY <1>1 DEF IInv, Tables, Granted, clients, directory
  <2>2. \A fact \in told' : Holds(fact)'
    BY <1>8, HoldsKept DEF IInv, Tables
  <2>3. AuthorsMayWrite'
    <3>1. ASSUME NEW x \in notes
          PROVE  \E v \in written' : /\ v.id = x.id /\ v.token \in issued'
                                     /\ v.token.tenant = x.tenant /\ v.token.role \in {"admin", "member"}
      BY <1>1, <1>6 DEF IInv, Tables, AuthorsMayWrite, clients
    <3>2. /\ w \in written' /\ w.id = row.id /\ w.token \in issued'
          /\ w.token.tenant = row.tenant /\ w.token.role \in {"admin", "member"}
      BY <1>1, <1>2, <1>4, <1>5, <1>6 DEF clients
    <3>3. QED
      BY <1>6, <3>1, <3>2 DEF AuthorsMayWrite
  <2>4. QED
    BY <1>1, <1>6, <2>1, <2>2, <2>3 DEF IInv, Tables, clients, directory
<1>10. PICK data \in Payloads : data = {row}
  BY DEF Payloads
<1>11. ASSUME AnswerWith(h, 201, data) PROVE Made(h)'
  <2>1. PICK status \in Statuses : status = 201
    BY StatusKinds
  <2>2. req'[h].data = data /\ req'[h].sent = req[h].sent
    BY <1>11, <2>1, AnswersWith
  <2>3. row \in notes' /\ row.tenant = req[h].sent.token.tenant
    BY <1>2, <1>4, <1>6
  <2>4. QED
    BY <1>1, <1>10, <2>2, <2>3 DEF Made
<1>12. QED
  BY <1>1, <1>6, <1>7, <1>8, <1>9, <1>10, <1>11, WrittenInv

----------------------------------------------------------------------------
(* Requests come and go *)

\* A request slot that serves nobody.
LEMMA IdleInv ==
  ASSUME IInv, NEW h \in Requests, req' = [req EXCEPT ![h] = Idle]
  PROVE  Moved(h) /\ HandlerInv(h)' /\ ~Creating(h)'
<1>1. Moved(h) /\ req'[h] = Idle
  BY IdleHandler DEF IInv, Moved
<1>2. req'[h].stage = "idle" /\ req'[h].sent.route = "health" /\ req'[h].sent.token = None
  BY <1>1, IdleHandler
<1>3. Asks(h)' /\ InTenant(h)' /\ Replies(h)' /\ ~Creating(h)'
  BY <1>2 DEF Asks, Proper, InTenant, Replies, Creating, NoteRoutes, At, Serving
<1>4. Knows(h)'
  BY <1>1, IdleHandler DEF Knows
<1>5. QED
  BY <1>1, <1>3, <1>4 DEF HandlerInv

LEMMA LostInv ==
  ASSUME IInv, NEW h \in Requests, Lost(h)
  PROVE  IInv'
<1>1. Contexts' /\ Away(h) /\ UNCHANGED <<users, notes>>
  BY LeaveContext DEF Lost, IInv
<1>2. QED
  BY <1>1, IdleInv, QuietStep DEF Lost

\* What a 201 tells its client is so, and only a creation tells of a tenant.
LEMMA ToldFacts ==
  ASSUME IInv, NEW h \in Requests, At(h, "reply"), NEW fact \in Facts(h)
  PROVE  /\ fact \in Fact /\ Holds(fact)
         /\ fact \in TenantRow => Creating(h) /\ fact.slug = req[h].sent.slug
<1>1. /\ req[h].status = 201 /\ SlugOf(req[h].sent) = watched /\ Made(h)
      /\ Proper(req[h].sent) /\ watched \in Slugs
  BY DEF Facts, IInv, HandlerInv, Replies, Asks, Tables
<1>2. CASE req[h].sent.route = "createTenant"
  <2>1. fact \in req[h].data
    BY <1>1, <1>2 DEF Facts
  <2>2. fact \in tenants /\ fact.slug = req[h].sent.slug
    BY <1>1, <1>2, <2>1 DEF Made
  <2>3. fact \in TenantRow
    BY <2>2 DEF IInv, Tables
  <2>4. QED
    BY <1>1, <1>2, <2>2, <2>3, Kinds DEF Holds, Fact, Creating, Serving, At
<1>3. CASE req[h].sent.route = "register"
  <2>1. fact = [slug |-> watched, email |-> req[h].sent.email]
    BY <1>1, <1>3 DEF Facts
  <2>2. watched = req[h].sent.slug /\ req[h].sent.email \in Emails
    BY <1>1, <1>3 DEF SlugOf, Proper, NoteRoutes
  <2>3. /\ fact \in Account /\ fact.slug = req[h].sent.slug
        /\ fact.email = req[h].sent.email
    BY <1>1, <2>1, <2>2 DEF Account
  <2>4. Held(fact.slug, fact.email)
    BY <1>1, <1>3, <2>3 DEF Made
  <2>5. QED
    BY <2>3, <2>4, Kinds DEF Holds, Fact
<1>4. CASE req[h].sent.route = "createNote"
  <2>1. PICK row \in req[h].data : fact = [slug |-> watched, note |-> row.id]
    BY <1>1, <1>4 DEF Facts
  <2>2. PICK token \in issued : token = req[h].sent.token /\ Granted(token)
    BY <1>1, <1>4 DEF Proper, NoteRoutes, IInv, Tables
  <2>3. row \in notes /\ row.tenant = token.tenant
    BY <1>1, <1>4, <2>2 DEF Made
  <2>4. row.id \in NoteIds /\ row = [tenant |-> token.tenant, id |-> row.id]
    BY <2>3, StoredRowFields DEF IInv, Tables
  <2>5. watched = token.via
    BY <1>1, <2>2, TokenFields DEF SlugOf, Granted
  <2>6. fact \in NoteFact /\ fact.slug = token.via /\ fact.note = row.id
    BY <1>1, <2>1, <2>4, <2>5 DEF NoteFact
  <2>7. PICK here \in tenants : here = [id |-> token.tenant, slug |-> token.via]
    BY <2>2 DEF Granted
  <2>8. here.slug = fact.slug /\ [tenant |-> here.id, id |-> fact.note] \in notes
    BY <2>3, <2>4, <2>6, <2>7
  <2>9. QED
    BY <2>6, <2>8, Kinds DEF Holds, Fact, NoteFact
<1>5. QED
  BY <1>1, <1>2, <1>3, <1>4 DEF Made

LEMMA ReplyInv ==
  ASSUME IInv, NEW h \in Requests, Reply(h)
  PROVE  IInv'
<1>1. /\ At(h, "reply") /\ told' = told \cup Facts(h)
      /\ UNCHANGED <<directory, watched, written>>
  BY DEF Reply
<1>2. Moved(h) /\ HandlerInv(h)' /\ ~Creating(h)'
  BY IdleInv DEF Reply
<1>3. Contexts' /\ Away(h) /\ UNCHANGED <<users, notes>>
  BY LeaveContext DEF Reply, IInv
<1>4. issued \subseteq issued' /\ \A token \in issued' : Granted(token)
  <2>1. CASE req[h].sent.route = "login" /\ req[h].status = 200
    <3>1. Granted(req[h].user)
      BY <1>1, <2>1 DEF IInv, HandlerInv, Replies
    <3>2. issued' = issued \cup {req[h].user}
      BY <2>1 DEF Reply
    <3>3. QED
      BY <3>1, <3>2 DEF IInv, Tables
  <2>2. CASE ~(req[h].sent.route = "login" /\ req[h].status = 200)
    BY <2>2 DEF Reply, IInv, Tables
  <2>3. QED
    BY <2>1, <2>2
<1>5. Grows
  BY <1>1, <1>3, <1>4 DEF Grows, directory
<1>6. Tables'
  <2>1. \A fact \in told' : fact \in Fact /\ Holds(fact)'
    BY <1>1, <1>5, ToldFacts, HoldsKept DEF IInv, Tables
  <2>2. \A token \in issued' : Granted(token)'
    BY <1>1, <1>4 DEF Granted, directory
  <2>3. AuthorsMayWrite'
    BY <1>1, <1>3, <1>4 DEF IInv, Tables, AuthorsMayWrite
  <2>4. QED
    BY <1>1, <1>3, <2>1, <2>2, <2>3 DEF IInv, Tables, directory
<1>7. Created'
  <2>1. ASSUME NEW k \in Requests, Creating(k)'
        PROVE  k # h /\ Creating(k) /\ req'[k].sent = req[k].sent
    BY <1>2, <2>1 DEF Creating, Serving, Moved
  <2>2. ASSUME NEW k \in Requests \ {h}, Creating(k), NEW row \in told' \cap TenantRow
        PROVE  row.slug # req[k].sent.slug
    <3>1. CASE row \in told
      BY <2>2, <3>1 DEF IInv, Created
    <3>2. CASE row \in Facts(h)
      <4>1. Creating(h) /\ row.slug = req[h].sent.slug
        BY <1>1, <3>2, ToldFacts
      <4>2. QED
        BY <2>2, <4>1 DEF IInv, Created
    <3>3. QED
      BY <1>1, <3>1, <3>2
  <2>3. QED
    BY <2>1, <2>2 DEF IInv, Created
<1>8. QED
  BY <1>2, <1>3, <1>5, <1>6, <1>7, RequestStep

LEMMA ChangeRoleInv ==
  ASSUME IInv, NEW u \in UserRow, NEW r \in Roles, ChangeRole(u, r)
  PROVE  IInv'
<1>1. /\ role[u] # None /\ role' = [role EXCEPT ![u] = r]
      /\ UNCHANGED <<tenants, clients, written, req, tables>>
  BY DEF ChangeRole
<1>2. UNCHANGED <<users, notes, tenantOf, view, issued, watched, told>>
  BY <1>1 DEF clients, tables
<1>3. Grows
  BY <1>1, <1>2 DEF Grows
<1>4. Tables'
  <2>1. role' \in [UserRow -> Roles \cup {None}] /\ users' = {v \in UserRow : role'[v] # None}
    BY <1>1, <1>2, NullAssumption DEF IInv, Tables
  <2>2. \A fact \in told' : Holds(fact)'
    BY <1>2, <1>3, HoldsKept DEF IInv, Tables
  <2>3. \A token \in issued' : Granted(token)'
    BY <1>1, <1>2 DEF IInv, Tables, Granted
  <2>4. AuthorsMayWrite'
    BY <1>1, <1>2 DEF IInv, Tables, AuthorsMayWrite
  <2>5. QED
    BY <1>1, <1>2, <2>1, <2>2, <2>3, <2>4 DEF IInv, Tables
<1>5. Contexts'
  BY <1>2 DEF IInv, Contexts
<1>6. \A k \in Requests : HandlerInv(k)'
  BY <1>1, <1>2, <1>3, Kept DEF IInv
<1>7. Created'
  BY <1>1, <1>2 DEF IInv, Created, Creating, Serving
<1>8. QED
  BY <1>1, <1>4, <1>5, <1>6, <1>7 DEF IInv

LEMMA ArriveInv ==
  ASSUME IInv, NEW h \in Requests, NEW sent \in Sent, Proper(sent), Arrive(h, sent)
  PROVE  IInv'
<1> DEFINE stage == FirstStage(sent.route)
           known == told \cap Concerning(sent)
           s == [Idle EXCEPT !.stage = stage, !.sent = sent, !.known = known]
<1>1. /\ req' = [req EXCEPT ![h] = s] /\ At(h, "idle")
      /\ UNCHANGED <<directory, clients, written, tables>>
  BY DEF Arrive
<1>2. /\ stage \in Stages
      /\ stage \in {"slug", "bearer", "guards"}
      /\ stage = "slug" => sent.route \in {"register", "login"}
      /\ stage = "bearer" => sent.route \in NoteRoutes
      /\ stage = "guards" => sent.route \notin {"register", "login"} \cup NoteRoutes
  BY DEF FirstStage, Stages, NoteRoutes
<1>3. known \in SUBSET Fact
  BY DEF IInv, Tables
<1> HIDE DEF stage, known
<1>4. /\ s \in Handler /\ s.stage = stage /\ s.sent = sent /\ s.known = known
  BY <1>2, <1>3, IdleHandler DEF Handler
<1> HIDE DEF s
<1>5. Moved(h) /\ req'[h] = s
  BY <1>1, <1>4 DEF IInv, Moved
<1>6. Contexts' /\ Away(h) /\ UNCHANGED <<users, notes>>
  BY <1>1, SameContext DEF IInv
<1>7. Asks(h)'
  BY <1>1, <1>2, <1>4, <1>5 DEF Asks, Proper, At, clients
<1>8. Knows(h)'
  BY <1>1, <1>4, <1>5 DEF Knows, known, clients
<1>9. Replies(h)' /\ ~Creating(h)'
  BY <1>2, <1>4, <1>5 DEF Replies, Creating, Serving, At
<1>10. InTenant(h)'
  BY <1>2, <1>4, <1>5 DEF InTenant, Serving
<1>11. QED
  BY <1>1, <1>5, <1>6, <1>7, <1>8, <1>9, <1>10, QuietStep DEF HandlerInv

\* What Request fills in, field by field.
LEMMA AskedSent ==
  ASSUME NEW route \in Routes
  PROVE  /\ Asked(route) \in Sent /\ Asked(route).route = route
         /\ Asked(route).slug = None /\ Asked(route).id = None /\ Asked(route).token = None
<1>1. Blank \in Sent
  BY IdleHandler
<1>2. Blank.slug = None /\ Blank.id = None /\ Blank.token = None
  BY DEF Blank
<1>3. QED
  BY <1>1, <1>2 DEF Sent, Asked

LEMMA SentSlug ==
  ASSUME NEW base \in Sent, NEW slug \in Slugs \cup {None}
  PROVE  LET sent == [base EXCEPT !.slug = slug] IN
         sent \in Sent /\ sent.route = base.route /\ sent.slug = slug /\ sent.token = base.token
  BY DEF Sent

LEMMA SentId ==
  ASSUME NEW base \in Sent, NEW id \in Tenants \cup {None}
  PROVE  LET sent == [base EXCEPT !.id = id] IN
         sent \in Sent /\ sent.route = base.route /\ sent.slug = base.slug /\ sent.token = base.token
  BY DEF Sent

LEMMA SentToken ==
  ASSUME NEW base \in Sent, NEW token \in Token \cup {None}
  PROVE  LET sent == [base EXCEPT !.token = token] IN
         sent \in Sent /\ sent.route = base.route /\ sent.token = token
  BY DEF Sent

\* The requests clients send are of the shapes their routes take.
LEMMA RequestSends ==
  ASSUME IInv, NEW h \in Requests, Request(h)
  PROVE  \E sent \in Sent : Proper(sent) /\ Arrive(h, sent)
<1>1. \A route \in {"listTenants", "me", "health", "createTenant", "getTenant", "register",
                    "login", "createNote", "listNotes"} : route \in Routes
  BY DEF Routes
<1>2. \A route \in Routes :
         /\ Asked(route) \in Sent /\ Asked(route).route = route
         /\ Asked(route).slug = None /\ Asked(route).id = None /\ Asked(route).token = None
  BY AskedSent
<1>3. CASE \E route \in {"listTenants", "me", "health"} : Arrive(h, Asked(route))
  <2>1. PICK route \in {"listTenants", "me", "health"} : Arrive(h, Asked(route))
    BY <1>3
  <2>2. Asked(route) \in Sent /\ Asked(route).route = route /\ Asked(route).token = None
    BY <1>1, <1>2
  <2>3. Proper(Asked(route))
    BY <2>2 DEF Proper, NoteRoutes
  <2>4. QED
    BY <2>1, <2>2, <2>3
<1>4. CASE \E slug \in Slugs : Arrive(h, [Asked("createTenant") EXCEPT !.slug = slug])
  <2>1. PICK slug \in Slugs : Arrive(h, [Asked("createTenant") EXCEPT !.slug = slug])
    BY <1>4
  <2> DEFINE sent == [Asked("createTenant") EXCEPT !.slug = slug]
  <2>2. /\ sent \in Sent /\ sent.route = "createTenant" /\ sent.slug = slug
        /\ sent.token = None
    BY <1>1, <1>2, SentSlug
  <2>3. Arrive(h, sent)
    BY <2>1
  <2> HIDE DEF sent
  <2>4. Proper(sent)
    BY <2>2 DEF Proper, NoteRoutes
  <2>5. QED
    BY <2>2, <2>3, <2>4
<1>5. CASE \E id \in Tenants : Arrive(h, [Asked("getTenant") EXCEPT !.id = id])
  <2>1. PICK id \in Tenants : Arrive(h, [Asked("getTenant") EXCEPT !.id = id])
    BY <1>5
  <2> DEFINE sent == [Asked("getTenant") EXCEPT !.id = id]
  <2>2. /\ sent \in Sent /\ sent.route = "getTenant" /\ sent.slug = None
        /\ sent.token = None
    BY <1>1, <1>2, SentId
  <2>3. Arrive(h, sent)
    BY <2>1
  <2> HIDE DEF sent
  <2>4. Proper(sent)
    BY <2>2 DEF Proper, NoteRoutes
  <2>5. QED
    BY <2>2, <2>3, <2>4
<1>6. CASE \E slug \in Slugs \cup {None}, email \in Emails :
             Arrive(h, [Asked("register") EXCEPT !.slug = slug, !.email = email])
  <2>1. PICK slug \in Slugs \cup {None}, email \in Emails :
          Arrive(h, [Asked("register") EXCEPT !.slug = slug, !.email = email])
    BY <1>6
  <2> DEFINE base == Asked("register")
             sent == [base EXCEPT !.slug = slug, !.email = email]
  <2>2. base \in Sent /\ base.route = "register" /\ base.id = None /\ base.token = None
    BY <1>1, <1>2
  <2>3. Arrive(h, sent)
    BY <2>1
  <2> HIDE DEF base
  <2>4. /\ sent \in Sent /\ sent.route = "register" /\ sent.email = email
        /\ sent.id = None /\ sent.token = None
    BY <2>1, <2>2 DEF Sent
  <2> HIDE DEF sent
  <2>5. Proper(sent)
    BY <2>1, <2>4 DEF Proper, NoteRoutes
  <2>6. QED
    BY <2>3, <2>4, <2>5
<1>7. CASE \E slug \in Slugs, email \in Emails, genuine \in BOOLEAN :
             Arrive(h, [Asked("login") EXCEPT !.slug = slug, !.email = email, !.genuine = genuine])
  <2>1. PICK slug \in Slugs, email \in Emails, genuine \in BOOLEAN :
          Arrive(h, [Asked("login") EXCEPT !.slug = slug, !.email = email, !.genuine = genuine])
    BY <1>7
  <2> DEFINE base == Asked("login")
             sent == [base EXCEPT !.slug = slug, !.email = email, !.genuine = genuine]
  <2>2. base \in Sent /\ base.route = "login" /\ base.id = None /\ base.token = None
    BY <1>1, <1>2
  <2>3. Arrive(h, sent)
    BY <2>1
  <2> HIDE DEF base
  <2>4. /\ sent \in Sent /\ sent.route = "login" /\ sent.slug = slug /\ sent.email = email
        /\ sent.id = None /\ sent.token = None
    BY <2>1, <2>2 DEF Sent
  <2> HIDE DEF sent
  <2>5. Proper(sent)
    BY <2>1, <2>4 DEF Proper, NoteRoutes
  <2>6. QED
    BY <2>3, <2>4, <2>5
<1>8. CASE \E route \in {"createNote", "listNotes"}, token \in issued :
             Arrive(h, [Asked(route) EXCEPT !.token = token])
  <2>1. PICK route \in {"createNote", "listNotes"}, token \in issued :
          Arrive(h, [Asked(route) EXCEPT !.token = token])
    BY <1>8
  <2> DEFINE sent == [Asked(route) EXCEPT !.token = token]
  <2>2. token \in Token \cup {None}
    BY <2>1 DEF IInv, Tables, Granted
  <2>3. sent \in Sent /\ sent.route = route /\ sent.token = token
    BY <1>1, <1>2, <2>2, SentToken
  <2>4. Arrive(h, sent)
    BY <2>1
  <2> HIDE DEF sent
  <2>5. Proper(sent)
    BY <2>1, <2>3 DEF Proper, NoteRoutes
  <2>6. QED
    BY <2>3, <2>4, <2>5
<1>9. QED
  BY <1>3, <1>4, <1>5, <1>6, <1>7, <1>8 DEF Request

----------------------------------------------------------------------------
(* The invariant holds initially and is preserved *)

LEMMA InitInv == Init => IInv
<1> SUFFICES ASSUME Init PROVE IInv
  OBVIOUS
<1>1. req \in [Requests -> Handler] /\ \A h \in Requests : req[h] = Idle
  BY IdleHandler DEF Init
<1>2. \A h \in Requests : /\ req[h].stage = "idle" /\ req[h].sent.route = "health"
                          /\ req[h].sent.token = None
  BY <1>1, IdleHandler
<1>3. ASSUME NEW h \in Requests PROVE HandlerInv(h) /\ ~Creating(h)
  <2>1. Asks(h) /\ InTenant(h) /\ Replies(h) /\ ~Creating(h)
    BY <1>2 DEF Asks, Proper, InTenant, Replies, Creating, NoteRoutes, At, Serving
  <2>2. Knows(h)
    BY <1>1, IdleHandler DEF Knows
  <2>3. QED
    BY <2>1, <2>2 DEF HandlerInv
<1>4. Tables /\ Contexts
  BY DEF Init, Store!Init, Tables, Contexts, AuthorsMayWrite
<1>5. QED
  BY <1>1, <1>3, <1>4 DEF IInv, Created

LEMMA NextInv == IInv /\ [Next]_vars => IInv'
<1> SUFFICES ASSUME IInv, [Next]_vars PROVE IInv'
  OBVIOUS
<1>1. CASE UNCHANGED vars
  <2>1. UNCHANGED <<tenants, role, issued, watched, told, written, req, users, notes, tenantOf, view>>
    BY <1>1 DEF vars, directory, clients, tables
  <2>2. Grows /\ \A k \in Requests : HandlerInv(k)'
    BY <2>1, Kept DEF IInv, Grows
  <2>3. Tables'
    BY <2>1 DEF IInv, Tables, Granted, Holds, Held, AuthorsMayWrite
  <2>4. Contexts' /\ Created' /\ req' \in [Requests -> Handler]
    BY <2>1 DEF IInv, Contexts, Created, Creating, Serving
  <2>5. QED
    BY <2>2, <2>3, <2>4 DEF IInv
<1>2. ASSUME NEW h \in Requests, Request(h) PROVE IInv'
  BY <1>2, RequestSends, ArriveInv
<1>3. ASSUME NEW h \in Requests, Stage(h) PROVE IInv'
  BY <1>3, SlugRefusedInv, ResolveSlugInv, VerifyBearerInv, PassGuardsInv, LocalAuthInv,
     ThrownSteps DEF Stage
<1>4. ASSUME NEW h \in Requests, Handle(h) PROVE IInv'
  BY <1>4, CheckSlugInv, InsertTenantInv, ListTenantsInv, GetTenantInv, CheckEmailInv,
     InsertUserInv, EmailTakenInv, PlainAnswers, MeInv, CreateNoteInv, ListNotesInv, ThrownSteps DEF Handle
<1>5. ASSUME NEW u \in UserRow, NEW r \in Roles, ChangeRole(u, r) PROVE IInv'
  BY <1>5, ChangeRoleInv
<1>6. QED
  BY <1>1, <1>2, <1>3, <1>4, <1>5, ReplyInv, LostInv DEF Next

\* The inductive invariant holds in every reachable state.
THEOREM InductiveInvariant == Spec => []IInv
<1>1. QED
  BY InitInv, NextInv, PTL DEF Spec

----------------------------------------------------------------------------
(* What follows from it *)

\* Every variable keeps to its domain, and no request without a tenant has read a row.
THEOREM TypeCorrect == Spec => []TypeOK
<1>1. IInv => TypeOK
  BY DEF IInv, Tables, Contexts, Granted, TypeOK
<1>2. QED
  BY <1>1, InductiveInvariant, PTL

\* From the slug of a login to the notes of a list: a client sees the notes written under
\* its own slug, only those, and all of those it was told of.
THEOREM IsolatedEndToEnd == Spec => []EndToEndIsolation
<1>1. ASSUME IInv PROVE EndToEndIsolation
  <2> SUFFICES ASSUME NEW h \in Requests, Serving(h, "reply", "listNotes"), req[h].status = 200
               PROVE  /\ \A id \in {row.id : row \in req[h].data} :
                           \E w \in written : w.id = id /\ w.token.via = req[h].sent.token.via
                      /\ \A fact \in req[h].known : fact.note \in {row.id : row \in req[h].data}
    BY DEF EndToEndIsolation
  <2>1. Listed(h)
    BY <1>1 DEF IInv, HandlerInv, Replies, Serving, At
  <2>2. QED
    BY <2>1 DEF Listed
<1>2. QED
  BY <1>1, InductiveInvariant, PTL

\* Whoever was told of a registration is never told later that tenant, address or
\* password are wrong.
THEOREM RegistrationLasts == Spec => []RegisteredCanLogIn
<1>1. IInv => RegisteredCanLogIn
  BY DEF IInv, HandlerInv, Replies, RegisteredCanLogIn, Serving, At, AccountOf
<1>2. QED
  BY <1>1, InductiveInvariant, PTL

\* What the directory answers is so, and what it has acknowledged it goes on to answer.
THEOREM DirectoryTellsTruth == Spec => []DirectoryTruthful
<1>1. ASSUME IInv PROVE DirectoryTruthful
  <2> SUFFICES ASSUME NEW h \in Requests, At(h, "reply")
               PROVE  LET sent  == req[h].sent
                          known == req[h].known \cap TenantRow IN
                      /\ sent.route = "createTenant" /\ req[h].status = 409 => Taken(sent.slug)
                      /\ sent.route = "createTenant" /\ req[h].status = 201 =>
                           \A row \in told \cap TenantRow : row.slug # sent.slug
                      /\ sent.route = "listTenants" /\ req[h].status = 200 => known \subseteq req[h].data
                      /\ req[h].status = 404 => \A row \in known : sent.id # row.id /\ sent.slug # row.slug
    BY DEF DirectoryTruthful
  <2>1. Replies(h) /\ (Creating(h) => \A row \in told \cap TenantRow : row.slug # req[h].sent.slug)
    BY <1>1 DEF IInv, HandlerInv, Created
  <2>2. QED
    BY <2>1 DEF Replies, Creating, Serving, At
<1>2. QED
  BY <1>1, InductiveInvariant, PTL

\* A client whose registration was answered, with a 201 or a 409, finds the address in the
\* tenant it named.
THEOREM RegistrationsToldTruly == Spec => []RegistrationTruthful
<1>1. ASSUME IInv PROVE RegistrationTruthful
  <2>1. \A h \in Requests :
          Serving(h, "reply", "register") /\ req[h].status \in {201, 409} =>
            Held(req[h].sent.slug, req[h].sent.email)
    BY <1>1 DEF IInv, HandlerInv, Replies, Made, Serving, At
  <2>2. QED
    BY <2>1 DEF RegistrationTruthful, Held
<1>2. QED
  BY <1>1, InductiveInvariant, PTL

\* A note's author logged in to its tenant, as a member or an admin.
THEOREM OnlyAuthorsWrite == Spec => []AuthorsMayWrite
<1>1. IInv => AuthorsMayWrite
  BY DEF IInv, Tables
<1>2. QED
  BY <1>1, InductiveInvariant, PTL

=============================================================================
