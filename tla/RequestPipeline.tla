-------------------------- MODULE RequestPipeline --------------------------
(***************************************************************************)
(* What a client of the service sees: the tenant directory and every route *)
(* but refresh and logout, each taken through the stages of the request    *)
(* pipeline in Nest's order, middleware, global guards (rate limit, roles),*)
(* route guards, pipes, handler, and composed with what TenantStore        *)
(* promises of the users and tenant_notes tables.                          *)
(*                                                                         *)
(* An action is the code from one await to the next, so requests of other  *)
(* clients run between the stages of one.  A token's via, told and written *)
(* are histories: they record what clients asked for and were told.        *)
(***************************************************************************)
EXTENDS Naturals, FiniteSets

CONSTANTS
  Tenants,    \* ids gen_random_uuid can return, bounded for TLC
  Slugs, Emails,
  NoteIds,    \* as Tenants
  Requests,   \* requests that may be in flight at the same time
  MaxTokens,  \* bound on the tokens clients hold
  Roles,      \* 'admin', 'member', 'viewer'
  NoTenant, None   \* null

ASSUME RoleAssumption == "member" \in Roles

VARIABLES
  tenants,    \* the tenants table: [id, slug]
  role,       \* the role column of users, None where there is no row
  issued,     \* the access tokens that reached a client; via is the slug it logged in with
  watched,    \* the slug the history told is kept for
  told,       \* history: what clients know of the watched slug from a 201
  written,    \* history: the token each note was written with
  req,        \* the requests: stage, what the client sent, locals, answer
  users, notes, tenantOf, view   \* TenantStore; tenantOf is the AsyncLocalStorage

Store == INSTANCE TenantStore

tables    == <<users, notes, tenantOf, view>>
directory == <<tenants, role>>
clients   == <<issued, watched, told>>
vars      == <<directory, clients, written, req, tables>>

Routes == {"createTenant", "listTenants", "getTenant", "register", "login", "me",
           "createNote", "listNotes", "health"}
Stages == {"idle", "slug", "bearer", "guards", "auth", "handle", "insert", "reply"}

\* What AllExceptionsFilter makes of an error that is no HttpException: a QueryFailedError,
\* like invalid input, is a 400; for the pool's timeout and all others, 503 and 500, stands
\* Failed.
Invalid  == 400
Failed   == 500
Statuses == {0, 200, 201, Invalid, 401, 403, 404, 409, 429, Failed}

TenantRow == [id : Tenants, slug : Slugs]
UserRow   == [tenant : Tenants, email : Emails]
NoteRow   == [tenant : Tenants, id : NoteIds]
Token     == [tenant : Tenants, email : Emails, role : Roles, via : Slugs]
Account   == [slug : Slugs, email : Emails]
Fact      == TenantRow \cup Account \cup [slug : Slugs, note : NoteIds]

\* null is no id, slug, address, role or set of claims.
ASSUME NullAssumption ==
  /\ NoTenant \notin Tenants
  /\ None \notin Tenants \cup Slugs \cup Emails \cup Roles
  /\ None \notin Token

\* A password is genuine when it is the one its account was registered with.
Sent == [route : Routes, slug : Slugs \cup {None}, id : Tenants \cup {None},
         email : Emails \cup {None}, genuine : BOOLEAN, token : Token \cup {None}]

Blank == [route |-> "health", slug |-> None, id |-> None, email |-> None,
          genuine |-> FALSE, token |-> None]
Idle  == [stage |-> "idle", sent |-> Blank, known |-> {}, user |-> None,
          status |-> 0, data |-> {}]

Handler == [stage : Stages, sent : Sent, known : SUBSET Fact, user : Token \cup {None},
            status : Statuses, data : SUBSET (TenantRow \cup NoteRow)]

\* The slug under which the client knows the tenant it means.
SlugOf(sent) == IF sent.token = None THEN sent.slug ELSE sent.token.via

At(h, stage)         == req[h].stage = stage
Serving(h, at, route) == req[h].stage = at /\ req[h].sent.route = route
Goto(h, stage)       == req' = [req EXCEPT ![h].stage = stage]
Answer(h, status)    == req' = [req EXCEPT ![h].stage = "reply", ![h].status = status]
AnswerWith(h, status, data) ==
  req' = [req EXCEPT ![h].stage = "reply", ![h].status = status, ![h].data = data]

\* An exception: AllExceptionsFilter answers, and what the request held is gone.
Thrown(status) == [Idle EXCEPT !.stage = "reply", !.status = status]
Throw(h, status) ==
  /\ req' = [req EXCEPT ![h] = Thrown(status)]
  /\ Store!Leave(h)

\* A write is acknowledged, or carried out and its COMMIT's answer lost: a QueryFailedError
\* whose 400 the client cannot tell from a refusal.
Written(h, data) ==
  \/ AnswerWith(h, 201, data)
  \/ req' = [req EXCEPT ![h] = Thrown(Invalid)]

Taken(slug) == \E row \in tenants : row.slug = slug

Init ==
  /\ Store!Init
  /\ tenants = {} /\ role = [u \in UserRow |-> None]
  /\ issued = {} /\ watched \in Slugs /\ told = {} /\ written = {}
  /\ req = [h \in Requests |-> Idle]

----------------------------------------------------------------------------
(* The middleware: a slug before login, the verified token after. *)

FirstStage(route) ==
  CASE route \in {"register", "login"} -> "slug"
    [] route \in {"createNote", "listNotes"} -> "bearer"
    [] OTHER -> "guards"

\* The facts the answer to a request is held against.
Concerning(sent) ==
  CASE sent.route = "listTenants" -> TenantRow
    [] sent.route = "getTenant" -> [id : {sent.id}, slug : Slugs]
    [] sent.route = "login" -> [id : Tenants, slug : {sent.slug}]
                               \cup [slug : {sent.slug}, email : {sent.email}]
    [] sent.route = "listNotes" -> [slug : {SlugOf(sent)}, note : NoteIds]
    [] OTHER -> {}

Arrive(h, sent) ==
  /\ At(h, "idle")
  /\ req' = [req EXCEPT ![h] = [Idle EXCEPT !.stage = FirstStage(sent.route),
               !.sent = sent, !.known = told \cap Concerning(sent)]]
  /\ UNCHANGED <<directory, clients, written, tables>>

SlugRefused(h) ==
  /\ At(h, "slug") /\ ~Taken(req[h].sent.slug)
  /\ Answer(h, IF req[h].sent.slug = None THEN Invalid ELSE 404)
  /\ UNCHANGED <<directory, clients, written, tables>>

\* Mutant: the header's name is wrong, and findOne with an undefined slug finds any row.
ResolveSlugAny(h) ==
  /\ At(h, "slug")
  /\ \E row \in tenants : Store!Enter(h, row.id)
  /\ Goto(h, "guards")
  /\ UNCHANGED <<directory, clients, written>>

\* Mutant: the context is given the slug, not the id.
ResolveSlugOnly(h) ==
  /\ At(h, "slug")
  /\ \E row \in tenants : row.slug = req[h].sent.slug /\ Store!Enter(h, row.slug)
  /\ Goto(h, "guards")
  /\ UNCHANGED <<directory, clients, written>>

ResolveSlug(h) ==
  /\ At(h, "slug")
  /\ \E row \in tenants : row.slug = req[h].sent.slug /\ Store!Enter(h, row.id)
  /\ Goto(h, "guards")
  /\ UNCHANGED <<directory, clients, written>>

\* There is no token, or it is not, or no longer, valid.
BearerRefused(h) ==
  /\ At(h, "bearer")
  /\ Throw(h, 401)
  /\ UNCHANGED <<directory, clients, written>>

\* Mutant: the tenant is kept in a field of the singleton middleware.
VerifyBearerShared(h) ==
  /\ At(h, "bearer") /\ req[h].sent.token # None
  /\ \E token \in issued : Store!Enter(h, token.tenant)
  /\ req' = [req EXCEPT ![h].stage = "guards", ![h].user = req[h].sent.token]
  /\ UNCHANGED <<directory, clients, written>>

\* The claims are trusted: neither the user nor the tenant is looked up.
VerifyBearer(h) ==
  /\ At(h, "bearer") /\ req[h].sent.token # None
  /\ Store!Enter(h, req[h].sent.token.tenant)
  /\ req' = [req EXCEPT ![h].stage = "guards", ![h].user = req[h].sent.token]
  /\ UNCHANGED <<directory, clients, written>>

----------------------------------------------------------------------------
(* The guards, and the pipes that check what the handler is given. *)

\* RateLimitGuard, modelled in RateLimit: over the limit, or no answer to its ttl.
RateLimited(h) ==
  /\ At(h, "guards")
  /\ \E status \in {429, Failed} : Throw(h, status)
  /\ UNCHANGED <<directory, clients, written>>

\* Mutant: a request without req.user, or whose role is not in the list, passes.
HasRoleAny(h) == TRUE

\* RolesGuard and @Roles('admin', 'member') on the creation of notes.
HasRole(h) ==
  req[h].sent.route = "createNote" =>
    req[h].user # None /\ req[h].user.role \in {"admin", "member"}

RolesRefuse(h) ==
  /\ At(h, "guards") /\ ~HasRole(h)
  /\ Throw(h, 403)
  /\ UNCHANGED <<directory, clients, written>>

PassGuards(h) ==
  /\ At(h, "guards") /\ HasRole(h)
  /\ Goto(h, IF req[h].sent.route = "login" THEN "auth" ELSE "handle")
  /\ UNCHANGED <<directory, clients, written, tables>>

\* LocalStrategy: the user of that address in the request's tenant, and bcrypt.compare.
\* The role is the one the row has now.
LocalAuth(h) ==
  LET tenant == tenantOf[h]
      email  == req[h].sent.email IN
  /\ At(h, "auth")
  /\ Store!FindUser(h, email)
  /\ IF view'[h] # {} /\ req[h].sent.genuine
       THEN req' = [req EXCEPT ![h].stage = "handle",
                      ![h].user = [tenant |-> tenant, email |-> email, via |-> req[h].sent.slug,
                                   role |-> role[[tenant |-> tenant, email |-> email]]]]
       ELSE Answer(h, 401)
  /\ UNCHANGED <<directory, clients, written>>

\* ValidationPipe on a body, ParseUUIDPipe on an id.
PipeRefuses(h) ==
  /\ At(h, "handle")
  /\ req[h].sent.route \in {"createTenant", "getTenant", "register", "login", "createNote"}
  /\ Throw(h, Invalid)
  /\ UNCHANGED <<directory, clients, written>>

----------------------------------------------------------------------------
(* The handlers *)

CheckSlug(h) ==
  /\ Serving(h, "handle", "createTenant")
  /\ IF Taken(req[h].sent.slug) THEN Answer(h, 409) ELSE Goto(h, "insert")
  /\ UNCHANGED <<directory, clients, written, tables>>

\* Mutant: no UNIQUE on the slug; the check before the INSERT has to do.
InsertTenantUnchecked(h, id) ==
  LET row == [id |-> id, slug |-> req[h].sent.slug] IN
  /\ Serving(h, "insert", "createTenant") /\ \A other \in tenants : other.id # id
  /\ tenants' = tenants \cup {row}
  /\ Written(h, {row})
  /\ UNCHANGED <<role, clients, written, tables>>

InsertTenant(h, id) ==
  LET row == [id |-> id, slug |-> req[h].sent.slug] IN
  /\ Serving(h, "insert", "createTenant")
  /\ \A other \in tenants : other.id # id /\ other.slug # row.slug
  /\ tenants' = tenants \cup {row}
  /\ Written(h, {row})
  /\ UNCHANGED <<role, clients, written, tables>>

\* The loser of the race: create has no catch, the QueryFailedError is a 400.
SlugTaken(h) ==
  /\ Serving(h, "insert", "createTenant") /\ Taken(req[h].sent.slug)
  /\ Throw(h, Invalid)
  /\ UNCHANGED <<directory, clients, written>>

ListTenants(h) ==
  /\ Serving(h, "handle", "listTenants")
  /\ AnswerWith(h, 200, tenants)
  /\ UNCHANGED <<directory, clients, written, tables>>

GetTenant(h) ==
  LET found == {row \in tenants : row.id = req[h].sent.id} IN
  /\ Serving(h, "handle", "getTenant")
  /\ AnswerWith(h, IF found = {} THEN 404 ELSE 200, found)
  /\ UNCHANGED <<directory, clients, written, tables>>

CheckEmail(h) ==
  /\ Serving(h, "handle", "register")
  /\ Store!FindUser(h, req[h].sent.email)
  /\ IF view'[h] # {} THEN Answer(h, 409) ELSE Goto(h, "insert")
  /\ UNCHANGED <<directory, clients, written>>

\* The role is register's default: RegisterDto has none.
InsertUser(h) ==
  /\ Serving(h, "insert", "register")
  /\ Store!AddUser(h, req[h].sent.email)
  /\ role' = [role EXCEPT ![[tenant |-> tenantOf[h], email |-> req[h].sent.email]] = "member"]
  /\ Written(h, {})
  /\ UNCHANGED <<tenants, clients, written>>

\* Mutant: register answers every error of the INSERT with the conflict.
EmailTakenAny(h) ==
  /\ Serving(h, "insert", "register")
  /\ Answer(h, 409)
  /\ UNCHANGED <<directory, clients, written, tables>>

\* The catch in register: 23505 becomes the conflict, any other error is rethrown (DbFails).
EmailTaken(h) ==
  /\ Serving(h, "insert", "register")
  /\ [tenant |-> tenantOf[h], email |-> req[h].sent.email] \in users
  /\ Answer(h, 409)
  /\ UNCHANGED <<directory, clients, written, tables>>

\* login hands out tokens for req.user.
IssueTokens(h) ==
  /\ Serving(h, "handle", "login")
  /\ Answer(h, 200)
  /\ UNCHANGED <<directory, clients, written, tables>>

\* JwtAuthGuard verifies a token, or not, and me answers its claims.
Me(h) ==
  /\ Serving(h, "handle", "me")
  /\ \/ Answer(h, 200) /\ UNCHANGED tables
     \/ Throw(h, 401)
  /\ UNCHANGED <<directory, clients, written>>

CreateNote(h, id) ==
  /\ Serving(h, "handle", "createNote")
  /\ Store!AddNote(h, id)
  /\ written' = written \cup {[id |-> id, token |-> req[h].user]}
  /\ Written(h, {[tenant |-> tenantOf[h], id |-> id]})
  /\ UNCHANGED <<directory, clients>>

ListNotes(h) ==
  /\ Serving(h, "handle", "listNotes")
  /\ Store!FindNotes(h)
  /\ AnswerWith(h, 200, view'[h])
  /\ UNCHANGED <<directory, clients, written>>

Health(h) ==
  /\ Serving(h, "handle", "health")
  /\ Answer(h, 200)
  /\ UNCHANGED <<directory, clients, written, tables>>

\* An awaited statement fails, as a QueryFailedError (400), at the pool's timeout, or with
\* another error; health catches each and answers 503.
DbFails(h) ==
  /\ req[h].stage \in {"slug", "auth", "handle", "insert"}
  /\ req[h].sent.route # "me" /\ ~(At(h, "slug") /\ req[h].sent.slug = None)
  /\ \E status \in {Invalid, Failed} :
       (req[h].sent.route = "health" => status = Failed) /\ Throw(h, status)
  /\ UNCHANGED <<directory, clients, written>>

----------------------------------------------------------------------------
(* Answers, and what runs outside the service. *)

\* What a client learns from a 201.
Facts(h) ==
  LET sent == req[h].sent IN
  IF req[h].status # 201 \/ SlugOf(sent) # watched THEN {}
  ELSE CASE sent.route = "createTenant" -> req[h].data
         [] sent.route = "register" -> {[slug |-> watched, email |-> sent.email]}
         [] sent.route = "createNote" -> {[slug |-> watched, note |-> row.id] : row \in req[h].data}

Reply(h) ==
  /\ At(h, "reply")
  /\ told' = told \cup Facts(h)
  /\ issued' = IF req[h].sent.route = "login" /\ req[h].status = 200
                 THEN issued \cup {req[h].user} ELSE issued
  /\ Store!Leave(h)
  /\ req' = [req EXCEPT ![h] = Idle]
  /\ UNCHANGED <<directory, watched, written>>

\* The answer is lost on its way, or the process stops before it is sent.
Lost(h) ==
  /\ At(h, "reply")
  /\ Store!Leave(h)
  /\ req' = [req EXCEPT ![h] = Idle]
  /\ UNCHANGED <<directory, clients, written>>

\* SQL run by an operator; one change of one user's role, a bound.
ChangeRole(u, r) ==
  /\ role[u] # None /\ r # "member"
  /\ \A v \in UserRow : role[v] \in {None, "member"}
  /\ role' = [role EXCEPT ![u] = r]
  /\ UNCHANGED <<tenants, clients, written, req, tables>>

----------------------------------------------------------------------------

Stage(h) ==
  \/ SlugRefused(h) \/ ResolveSlug(h) \/ BearerRefused(h) \/ VerifyBearer(h)
  \/ RateLimited(h) \/ RolesRefuse(h) \/ PassGuards(h) \/ LocalAuth(h) \/ PipeRefuses(h)

Handle(h) ==
  \/ CheckSlug(h) \/ SlugTaken(h) \/ \E id \in Tenants : InsertTenant(h, id)
  \/ ListTenants(h) \/ GetTenant(h)
  \/ CheckEmail(h) \/ InsertUser(h) \/ EmailTaken(h) \/ IssueTokens(h) \/ Me(h)
  \/ \E id \in NoteIds : CreateNote(h, id)
  \/ ListNotes(h) \/ Health(h) \/ DbFails(h)

\* A login is only sent while the clients hold fewer tokens than their bound.
TokensLeft ==
  Cardinality(issued) + Cardinality({h \in Requests : req[h].sent.route = "login"}) < MaxTokens

Asked(route) == [Blank EXCEPT !.route = route]

Request(h) ==
  \/ \E route \in {"listTenants", "me", "health"} : Arrive(h, Asked(route))
  \/ \E slug \in Slugs : Arrive(h, [Asked("createTenant") EXCEPT !.slug = slug])
  \/ \E id \in Tenants : Arrive(h, [Asked("getTenant") EXCEPT !.id = id])
  \/ \E slug \in Slugs \cup {None}, email \in Emails :
       Arrive(h, [Asked("register") EXCEPT !.slug = slug, !.email = email])
  \/ \E slug \in Slugs, email \in Emails, genuine \in BOOLEAN : TokensLeft /\
       Arrive(h, [Asked("login") EXCEPT !.slug = slug, !.email = email, !.genuine = genuine])
  \/ \E route \in {"createNote", "listNotes"}, token \in issued :
       Arrive(h, [Asked(route) EXCEPT !.token = token])

Next ==
  \/ \E h \in Requests : Request(h) \/ Stage(h) \/ Handle(h) \/ Reply(h) \/ Lost(h)
  \/ \E u \in UserRow, r \in Roles : ChangeRole(u, r)

Spec == Init /\ [][Next]_vars

----------------------------------------------------------------------------
(* Properties *)

\* Every variable keeps to its domain, and a request without tenant context has
\* never touched the tenants' tables.
TypeOK ==
  /\ tenants \subseteq TenantRow /\ role \in [UserRow -> Roles \cup {None}]
  /\ users = {u \in UserRow : role[u] # None} /\ notes \subseteq NoteRow
  /\ issued \subseteq Token /\ told \subseteq Fact
  /\ written \subseteq [id : NoteIds, token : Token]
  /\ req \in [Requests -> Handler]
  /\ \A h \in Requests : tenantOf[h] = NoTenant => view[h] = {}

\* "Postgres RLS proven end-to-end" (README.md:24), from the slug of a login to the
\* notes of a list: a client sees exactly the notes written by clients that logged in
\* with the same slug, none of theirs missing that it could know of.
EndToEndIsolation ==
  \A h \in Requests : Serving(h, "reply", "listNotes") /\ req[h].status = 200 =>
    LET via == req[h].sent.token.via
        ids == {row.id : row \in req[h].data} IN
    /\ \A id \in ids : \E w \in written : w.id = id /\ w.token.via = via
    /\ \A fact \in req[h].known : fact.note \in ids

\* Who was told of a registration can log in to that tenant with that password at any
\* later time: the answer is never that the tenant, the address or the password is wrong.
RegisteredCanLogIn ==
  \A h \in Requests : Serving(h, "reply", "login") /\ req[h].sent.genuine =>
    LET account == [slug |-> req[h].sent.slug, email |-> req[h].sent.email] IN
    account \in req[h].known => req[h].status \notin {401, 404}

\* The directory tells the truth: a 409 means the slug is taken, one slug never names
\* two tenants, and a tenant whose creation was answered is in every later list and
\* is found by its id and by its slug.
DirectoryTruthful ==
  \A h \in Requests : At(h, "reply") =>
    LET sent  == req[h].sent
        known == req[h].known \cap TenantRow IN
    /\ sent.route = "createTenant" /\ req[h].status = 409 => Taken(sent.slug)
    /\ sent.route = "createTenant" /\ req[h].status = 201 =>
         \A row \in told \cap TenantRow : row.slug # sent.slug
    /\ sent.route = "listTenants" /\ req[h].status = 200 => known \subseteq req[h].data
    /\ req[h].status = 404 => \A row \in known : sent.id # row.id /\ sent.slug # row.slug

\* A registration is answered truly about the tenant its slug names: after a 201, and after
\* a 409, that tenant holds the address.  A 409 may be about the client's own lost attempt,
\* but never about another tenant, nor about an INSERT that failed for another reason.
RegistrationTruthful ==
  \A h \in Requests : Serving(h, "reply", "register") /\ req[h].status \in {201, 409} =>
    \E row \in tenants : /\ row.slug = req[h].sent.slug
                        /\ [tenant |-> row.id, email |-> req[h].sent.email] \in users

\* "viewer is read-only" (tenant-note.controller.ts:29): every note in the table was
\* written with a token handed out at a login as admin or member of that very tenant.
AuthorsMayWrite ==
  \A row \in notes : \E w \in written :
    /\ w.id = row.id /\ w.token \in issued
    /\ w.token.tenant = row.tenant /\ w.token.role \in {"admin", "member"}

=============================================================================
