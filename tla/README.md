# Formal model of the multi-tenant management backend

TLA+ modules, TLC configurations and TLAPS proofs for the NestJS backend in
`src/backend` (paths below are relative to `src/backend/src` unless they start
with another directory). Every definition that stands for code is listed with
its lines in `PROJECT.json` under `map`.

## The system

The backend is one Node.js process. An HTTP request goes through middleware
(which may establish a tenant in `AsyncLocalStorage`), the global
`RateLimitGuard`, the global `RolesGuard`, route guards, a controller, a use
case and repositories. Everything that lasts is in PostgreSQL, in the counters
of Redis, or in the cookies and tokens that clients hold. JavaScript runs one
request at a time but switches at every `await`, so the unit of interleaving is
the code between two awaits, and the unit of atomicity in the database is a
statement or a transaction.

| Component | State | Operations | Talks to | Hard part | Correct means |
|---|---|---|---|---|---|
| Refresh tokens: `use-cases/auth`, `refresh-token.repository`, `auth.controller` | `refresh_tokens` rows; the cookie a client holds | login, refresh with rotation, replay detection, logout | PostgreSQL, `UserUsecase` | several awaits between the check and the write; a two-statement transaction; replays racing rotations; lost answers | rotation is all or nothing; only a live token is exchanged; revocation is final; a replay signs the family out; nobody else is touched |
| Tenant transactions: `infrastructure/context/tenant-transaction` and the pool of `database-orm-config` | connections, their transaction and `app.current_tenant_id` | `run` | PostgreSQL, every tenant-scoped repository | a pool smaller than the load, acquire timeouts, a lost connection at any statement, `finally` | a connection comes back once and clean; nobody waits for one while holding one |
| Users: `use-cases/user`, `user.repository` | `users` rows | register, credential check | `TenantTransaction`, bcrypt | check, slow hash, insert, in two transactions | one winner per address and tenant; the answer is true |
| Notes: `use-cases/tenant-note`, `tenant-note.repository` | `tenant_notes` rows | create, list | `TenantTransaction`, row-level security | the query names no tenant | a tenant sees its own rows, all that were answered |
| Rate limiting: `rate-limit.guard`, `redis.module` | Redis counters with an expiry | `canActivate` | Redis, tenant middleware | the window's end, two Redis calls, Redis failing or answering twice | the quota per caller; no refusal on another's account; refusals end |
| Tenant context: two middlewares, `tenant-context.storage` | the tenant of each request | resolve from a slug header or a verified JWT | tenants table, `AsyncLocalStorage` | contexts of interleaved requests | a request runs under its own tenant, from login to the last row |
| Tenant directory: `use-cases/tenant`, `tenant.repository` | `tenants` rows | create, find, list | PostgreSQL, no tenant | check-then-insert of a slug; a lost answer | one tenant per slug; a 409 and a 404 are true |
| Roles guard, strategies, pipeline order | none | compare a claim with `@Roles` | access token | it runs before route guards and sees what middleware left; the claim's age | only who may write has written |
| Durations: `resolveExpiryDate`, `getRefreshTokenMaxAgeMs`, jsonwebtoken | the claim, the row's date, the cookie | sign, record, set the cookie | `jwt.config` | two parsers, whole seconds, three instants | the three ends are nested and close |
| Error filter, response envelope, DTOs, presenters | none | map errors and results to responses | everything | which failure gets which status | layout, apart from the status |
| Health check, configuration, wiring, migrations | none after start-up | | | | |

The hazards in this code that tests hardly reach are listed line by line in
`PROJECT.json` under `hazards`, each with the properties that watch for it.

## Modules

`RefreshTokens.tla` is the core. Its variables are the users table reduced to a
role (`accounts`), the committed `refresh_tokens` rows (`rows`), the cookies
that reached clients (`delivered`), the clock, and one handler record per
request in flight (`req`): the await it is at (`pc`) and its local variables
under their source names (`presented`, `record`, `claims`, `minted`). `origin`
remembers for which token each jti was signed and is read by properties and by
the choice of a fresh jti only. Each action is the code from one await to the
next, the statement it awaits included:

| Code | Actions |
|---|---|
| `issueTokens` | `StartLogin`, `Sign`, `Create`, `Reply` |
| `refresh` | `StartRefresh`, `FindUnknown` / `FindSpent` / `FindLive`, `Sign`, `TxInsert`, `TxUpdate`, `TxCommit`, `Reply` |
| the replay branches of `refresh` | `FindSpent`, `Sweep`, `SweepDone` |
| `logout` | `StartLogout`, `LogoutRevoke` |
| foreign key, failed statement, process restart | `ForeignKeyViolation`, `DbFailure`, `Restart` |
| operator's SQL, time | `ChangeRole`, `DeleteUser`, `Tick` |

The rotation is the only transaction of several statements. Its new row stays
private in `req[h].minted` and the old row is locked from `TxUpdate` to the end
(`Locked`); the sweep is split in its snapshot and its effect, because
PostgreSQL decides which rows an UPDATE visits when it starts and then waits
for row locks. A handler that fails gives everything up; failing at `reply`
means the write was carried out and only the answer was lost.

* `TokenLedger.tla` is the abstract specification: tokens are absent, live or
  retired; to exchange one a request must have been admitted while it was live;
  an exchange is one step; retirement is final. `RefreshTokens` implements it
  under the mapping at its end (`ImplementsLedger`). The ledger deliberately
  lets several admitted requests exchange one token: so does the code.
* `RefreshTokenFamilies.tla` and `StaleSessions.tla` add history variables to
  `RefreshTokens` for promises about families, exchanges, logouts and the age of claims.
  They constrain nothing (`StaleSessions` only keeps ticks long against
  requests).
* `RefreshTokens_proofs.tla` holds the theorems about `RefreshTokens`.
  `TokenLedger_proofs.tla` (the refinement) and `RefreshTokenFamilies_proofs.tla`
  extend it.

`TokenLifetimes.tla` takes apart what `RefreshTokens` calls the expiry: one
client's cookie with the `exp` claim jsonwebtoken signs (`Signed`, in whole
seconds), the `expires_at` of its row (`Resolved`) and the cookie's `maxAge`
(`MaxAge`), which are computed at three instants (`Sign`, `Record`, `Respond`)
with time passing between them, and restarts that change the duration. Its
theorems are in `TokenLifetimes_proofs.tla`.

`TenantTransaction.tla` models `run` statement by statement (`Connect`, `Begin`,
`Configure`, the work, `Commit` or `Rollback`, `Release`) with pg's queue of
waiters, and the requests built from it: registration (two runs around bcrypt),
login (a run for the credential check, bcrypt, and the repository's own transaction
for the refresh token, `StoresToken`), creating and listing notes, and requests
without a tenant. Registration and login queue for a connection twice and must not
keep the first one while they wait for the second. The row-level security policies
are `Visible` and `PolicyAdmits`: what a statement sees and may write depends on the
connection's setting, not on the request, so a setting that leaks or is mixed up
shows. `TenantStore.tla` is what it promises, without connections: a request enters
a tenant, adds rows to it, sees its rows at one instant, and leaves.
`TenantTransaction` implements it (`ImplementsStore`): what a request has read is
its view and rows count from the COMMIT on. The theorems about both are in
`TenantTransaction_proofs.tla` and `TenantStore_proofs.tla`.

`Outcome` is what the use case does with the result of a run. `told` remembers
what was answered with 201, and `known` which notes of the tenant had been
answered when a request arrived; only properties read them.

`RateLimit.tla` models the guard with its two Redis calls. `Increment` is the
Lua script, atomic in Redis; `resolveKey` and `Limit` choose the key and the
quota; time passes in seconds (`Tick`) and removes keys. `EvalResent` is
ioredis sending an unanswered script again after a reconnect; `EvalFails` is
the fail-open path. The two histories (`charged`, `passed`) are kept for one
caller chosen at the start: how many of its INCRs, and of its requests let through,
are of at most each age. Its theorems are in `RateLimit_proofs.tla`.

`RequestPipeline.tla` composes the parts as a client meets them. A request of any
route but refresh and logout goes through the stages of Nest's pipeline, one
action from await to await, in `req[h].stage`:

| Stage | Code | Actions |
|---|---|---|
| `slug`, `bearer` | the two middlewares | `SlugRefused`, `ResolveSlug`, `BearerRefused`, `VerifyBearer` |
| `guards` | `RateLimitGuard`, `RolesGuard` | `RateLimited`, `RolesRefuse`, `PassGuards` |
| `auth` | `LocalAuthGuard`, `LocalStrategy` | `LocalAuth` |
| `handle`, `insert` | pipes, controllers, use cases | `PipeRefuses`, `CheckSlug`, `InsertTenant`, `SlugTaken`, `ListTenants`, `GetTenant`, `CheckEmail`, `InsertUser`, `EmailTaken`, `IssueTokens`, `Me`, `CreateNote`, `ListNotes`, `Health`, `DbFails` |
| `reply` | interceptor, filter | `Reply`, `Lost` |

It uses `TenantStore` for the users and notes tables (`Store!FindUser` and the
others), which `TenantTransaction` implements, and adds the tenants table and the
role column. What the rate limiter decides is left open (`RateLimited`);
`RateLimit` says when it may. A client is told a fact by a 201 (`told`, kept for
one slug chosen at the start, `watched`); `known` is what had been told when a
request arrived, `via` the slug a token's login named, and `written` the token
each note was written with. Only properties read them. Its theorems are in
`RequestPipeline_proofs.tla`.

`MCRefreshTokens.tla`, `MCTenantTransaction.tla`, `MCRateLimit.tla`,
`MCRequestPipeline.tla` and `MCTokenLifetimes.tla` carry definitions for TLC.
Operators marked `Mutant:` are not part of the specifications: each is a
plausible bug in the definition after it, and a property of a run must find it.

## Runs

| Run | Shows |
|---|---|
| `tokens_concurrent` | 2 users, 2 roles, 3 jtis, 2 requests, a clock of 2 instants: type, `RotationAtomic`, `DeliveredAuthentic`, `OwnSessionsOnly`, `ExchangesOverlap`, and the refinement of `TokenLedger` |
| `tokens_families` | 1 user, 3 jtis, 2 requests, no clock, fair: `CalmReplayRevokesFamily`, `SingleUseUnlessRaced`, and every request is answered |
| `tokens_replay_race` | violated: the replay promise with 2 requests |
| `tokens_logout` | violated: a logout answered 200 that revoked nothing |
| `tokens_roles` | violated: claims older than a token lifetime |
| `tenants_parallel` | 2 tenants, 1 address, 1 note, 2 requests, 2 connections: isolation, truthful answers, one winner, reads see answered writes, and the refinement of `TenantStore` |
| `tenants_pool` | 2 tenants, 2 requests, 1 connection, fair: nothing leaks, connections are accounted for, no hold-and-wait, every request is answered |
| `rates_quota` | a tenant, an address and an overridden route, 2 requests, limits 2 and 1, window of 2 seconds: quota, no false refusals, refusals that end, a Retry-After that is long enough |
| `rates_headers` | violated: fail-open responses carry no headers |
| `pipeline` | 2 tenants, 2 slugs, 1 address, 1 note, 2 roles, 2 requests, 2 tokens, every route but refresh and logout: isolation from slug to notes, registrations answered truly, registered accounts can log in, a truthful directory, notes by those who may write |
| `lifetimes` | durations with and without a unit around whole seconds, delays between the steps, restarts: the three ends of a token are nested, and close if the duration has a unit |
| `lifetimes_bare` | violated: with a bare number the row outlives the claim signed with the same string |

Bounds. Three jtis are enough for a login, a rotation, and a second rotation of the
old or the new token, or for the sessions of two users side by side; a race in the
code is between two handlers, so two requests suffice for it; behind the one
connection of `tenants_pool` each of the two waits for the other, twice in a
registration or a login. Two connections let two transactions be open together. A
window of two seconds has a request at its start, one at its end and the boundary
between; limits 2 and 1 distinguish the first, the last and the one refused. Counts
above a limit, and passes above twice the limit, are capped: nothing tells them
apart. `MaxClock` bounds the clock; it is 0 in `tokens_families`, where nothing
depends on time, 1 in `tokens_concurrent`, where a token expires one instant after
it was signed, and large enough in `tokens_roles` for the claims to outlive their
bound. `tokens_concurrent` and `tenants_parallel` use the symmetry of users, roles,
jtis, requests, tenants and connections: no definition tells two of them apart. A
request that needs a jti or a note id starts only while the bounded pool of them has
one left (`JtisLeft`, `IdsLeft`): `randomUUID` never runs out. The token runs switch
deadlock checking off because with the pool used up, all users deleted or the clock
at its bound nothing may be left to do; the tenant and rate runs check it. In
`pipeline` two slugs and two ids make every confusion of tenants possible, and one
address and one note id serve both; requests for more notes wait for nothing.
Clients hold at most `MaxTokens` tokens (`TokensLeft`), enough for one of each
tenant or for one before and one after the one role change that is allowed of one
user (`ChangeRole`). A failed statement is a 400 there (`Invalid`), also when it was
a COMMIT that was carried out; 500 and 503 are one status (`Failed`), and a process
stop is a failed request or a lost answer. In `lifetimes` the clock runs to three
seconds in steps of 300 and 900 ms (`MaxClock`, `Delays`): issues begin and end on
both sides of a whole second, and tokens of one second expire. `SYMMETRY` is used in
safety runs only, over sets no definition distinguishes.

Fairness. The event loop runs a handler whose await has completed and
PostgreSQL completes statements, so each handler's `Step` is weakly fair.
PostgreSQL grants row locks and index-entry waits in order of arrival, so the
steps that wait for one (`LockStep`, `InsertLock`) are strongly fair. Nothing
is assumed of clients, failures, restarts, deletions or the clock. `RateLimit`,
`RequestPipeline` and `TokenLifetimes` state safety only: that a refusal ends is
`WindowsOnlyRunDown`, the time a counter has left only runs down.

## What is proved

TLAPS checks, for any sets of users, roles, tokens and requests and any clock
bound, that every behaviour of `RefreshTokens!Spec` satisfies `TypeOK`
(`TypeCorrect`), `RotationAtomic` (`RotationIsAtomic`) and `DeliveredAuthentic`
(`DeliveredIsAuthentic`). All follow from `IInv` (`InductiveInvariant`).

`RotationAtomic` is not inductive alone: at `TxCommit` the new row must be new,
its owner must be the owner of the row it replaces, and the old row must still
be there. So `IInv` adds, for every handler, that the locals its await needs
are set (`LocalsOK`), that a handler past the check serves a token whose row, if
it still exists, belongs to the claims' user (`ServesOwner`), that the jti it
signed is not a row yet, was signed by no other handler and was signed for the
token presented (`Fresh`, `CreateOrigin`), and that at `reply` the row of the
minted token is stored with its hash unless the owner is gone (`Stored`), which
then carries over to `delivered`. `RowsOwned` ties rows to existing accounts:
the foreign key with its cascade and the lock an INSERT takes on the user
(`Referenced`) make it invariant. The preservation proof has one lemma per
action.

`SessionsAreOwn` is the action property `OwnSessionsOnly`. A sweep writes the rows
its statement chose earlier, so the proof needs a second invariant, `Snaps`: the
tokens of a waiting sweep's snapshot were signed, no handler is about to store one
of them, and those still stored belong to the user of the token presented.
`OwnRowsNext` then goes through the steps that change a stored row.

Four lemmas say what a step can do, one case per action: where it can leave a
handler (`HandlerMoves`), which token it can give an origin (`OriginMoves`), which
row it can store or make usable (`RowMoves`), and that a request's arrival touches
no table (`ArriveFrame`). The theorems about exchanges and families only argue from
those.

`ExchangesDoOverlap` proves `ExchangesOverlap`: only `FindLive` takes a rotation
past the check (`OnlyFindLiveChecks`), it needs the row of
the presented token unrevoked, and by `RotationAtomic` nothing stored was then
signed in exchange for it.

`RefreshTokenFamilies_proofs` proves `CalmReplayRevokesFamily`
(`CalmReplayEndsFamily`). A sweep is calm if no rotation of the replayed token's
family committed after its snapshot (`overtaken`) and none is past the check when it
ends (`InFlight`). Both are needed: the row of a rotation that committed in between is
in no snapshot, and a rotation past the check stores its row later. Beside `IInv` the
invariant `FInv` says that roots follow origins (`Rooted`), that a login whose row is
not stored yet is alone in its family (`Alone`), that the rows of a family a client
holds a token of are its user's (`Owned`, so the sweep of that user reaches all of
them), that the snapshot of a sweep not overtaken holds whatever is usable of the
family (`Covered`), and that a family whose replay ended calmly is `Settled`: nothing
of it usable, no rotation of it past the check. `SweepSettles` takes `Covered` to
`Settled` when the sweep ends. A settled family stays so (`SettledStep`): a usable row
of it could only come from a COMMIT, whose handler would be past the check, or from a
login, which would be alone; and a rotation of it could only pass the check by finding
a usable row. TLC checked `FInv` on the instance of `tokens_families` first.

There too, `UsedOnceUnlessRaced` proves `SingleUseUnlessRaced`. A token is `raced` if a
second request was past the check with it when an exchange of it committed
(`Contested`). The inductive part is `Unspent`: nothing is stored in exchange for the
token a handler is exchanging, unless the token is raced. `FindLive` establishes it as
in `ExchangesDoOverlap`, and only the COMMIT of another exchange of that token
could break it, which makes the token raced. So overlap is the only way to exchange a
token twice; failures, lost answers, restarts, logouts and replays are not.

`TokenLedger_proofs` proves the refinement `ImplementsLedger` (`LedgerImplemented`),
one lemma per kind of step. Three of them need the invariants: the row a login or
a COMMIT stores must be absent in the ledger (`Fresh`), the token exchanged must
still have its row when the COMMIT comes, however long ago it was checked
(`PresentedRow`), and the rows a sweep revokes must have one holder
although they were chosen some steps earlier (`Snaps`). Every other step changes no
row and at most gives up the tickets of handlers that stop (`Forfeits`).

`TenantTransaction_proofs` proves the eight safety invariants of
`TenantTransaction` for any number of tenants, addresses, notes, requests and
connections. None is inductive alone. `TenantIsolation` is about a statement, so
`Connected` says what the session of a request's connection is at each step:
clean when it is checked out, set to the request's own tenant at the work, clean or
broken when it is given back. That every connection nobody holds is clean
(`NothingLeaks`) and that each is held once (`ConnectionsAccounted`) close the
circle. For the answers, `Writes` keeps the key of a pending row out of the tables
until its COMMIT, and `KeysApart` keeps the keys of two pending rows different, which
is what the unique indexes do; `AnswersTrue`, `OneWinner` and `ReadsAnsweredWrites`
follow with `told` inside the tables. `Waiting` ties pg's queue to the requests that
wait: without it `TypeOK`, which bounds the queue's length, is not inductive.

`TenantStore_proofs` proves the refinement `ImplementsStore` (`StoreImplemented`):
requests read at `FindByEmail` and `FindNotes`, rows are added at `Commit` or at a
`ConnectionLost` that the COMMIT survived, and every other step leaves the store as it
is. That a statement that names no tenant reads and writes one tenant's rows is
`Connected`; that an added row's key is free is `Writes`.

`RateLimit_proofs` proves `TypeOK`, `RetryAfterSuffices`, `SharedQuota` and the action
properties `WindowsOnlyRunDown` and `NoFalseBlock` for any limits, callers and length
of the window.
Between `eval` and `ttl` other requests count, keys expire and new windows open. The
inductive part is that a request over its limit was counted in a window that is the
key's or is over (`closes` is at most what the key has left), which `Tick` preserves
because it takes a second from both. The quota needs to know what the open window
says of the last `WindowSeconds`: its INCRs are all in `charged` at its age
(`WindowCharged`), which is why a refusal is never false (`NobodyIsBlockedForOthers`);
and of the requests let through in that time, those of this window are at most what
its count allows and those of the one before at most the limit less one, because the
first INCR of a window is as old as the window (`WindowPassed`, `QuotaIsShared`).

`RequestPipeline_proofs` proves all six invariants of `RequestPipeline` for any
number of requests in flight. Its `IInv` follows a request through the stages:
`Asks` (which routes reach which stage with what), `InTenant` (past the middleware
the context, the slug or the token, and the directory agree) and `Replies` (what each
answer is worth, and stays worth while it is on its way: a 409 of a registration, say,
that the account is `Held`). `Tables` says the same of what outlives a request: ids and
slugs name at most one tenant, tokens agree with the directory (`Granted`), and all
that clients were told is still so (`Holds`); it carries because tenants, users and
notes only grow (`Grows`). `Created` is the one part about two requests: no two
unsent 201s of `createTenant` name one slug, so that the second one to be told is
never wrong.

`TokenLifetimes_proofs` proves `TypeOK`, `LifetimesNested` and `CookieGap` of
`TokenLifetimes` for every set of durations in `Duration`, every set of delays and
every clock bound (`DurationAssumption`). The properties only speak of an issue
at its end, so the inductive invariant adds what holds half-way: `InFlight` bounds
the claim by the instant it was signed at, and `Recorded` the row's date by the
clock and the duration. `Parsers` relates the two readings of a duration, which
agree with a unit, and of which jsonwebtoken's is never the longer; `WholeSeconds`
bounds what the division to whole seconds drops.

Assumptions. The `NullAssumption` of each module says that null is none of the
values it stands beside. `ClockAssumption`, `DurationAssumption` and
`LimitAssumption` say that the configured numbers are numbers and that lifetimes,
limits and windows are not empty; `RoleAssumption`, that register's default role is
a role; `ClientAssumption`, that callers have a tenant or none, an address and a
route. `FiniteAssumption` of `TenantTransaction` says that finitely many requests
are in flight, without which "no longer than the requests" says nothing of a queue.
Beyond these the proofs rest on the modelled semantics of PostgreSQL (atomic
statements, a transaction whose writes appear at COMMIT, row locks, foreign keys,
unique indexes, row policies) and of Redis (a script is atomic, keys expire).

Only model-checked:

* Liveness, `EveryRequestAnswered` of `tokens_families` and `tenants_pool`: fairness and
  ENABLED are beyond the prover. What it rests on, that nobody waits for a connection
  while holding one, is proved (`NoHoldAndWait`).
* The five promises that the code does not keep: their runs show a counterexample.

Every other property of a run is a theorem.

## Where the code and its documentation differ

1. `README.md:27` and `test/auth.e2e-spec.ts:154`: a replay revokes the whole
   family. With a rotation of the family in flight it does not
   (`tokens_replay_race`); if none commits between the sweep's snapshot and its end
   and none is past the check when it ends, it does (`CalmReplayRevokesFamily`). The
   same window lets two requests exchange one token, which is why single use is
   claimed only of tokens that were not raced (`SingleUseUnlessRaced`).
2. `auth.usecase.ts:119-120`: what logout swallows has nothing left to revoke.
   It also swallows a failed UPDATE (`tokens_logout`).
3. `auth.usecase.ts:50-55`: claims are stale for at most a token's lifetime.
   Rotation renews them without end (`tokens_roles`).
4. `README.md:31`: rate-limit headers on every response. Not when Redis fails
   (`rates_headers`).

5. `auth.usecase.ts:37-38`: `resolveExpiryDate` turns the strings jsonwebtoken takes,
   `"3600"` among them, into the row's date. Without a unit it reads seconds and
   jsonwebtoken milliseconds: the row and the cookie last an hour, the token less than
   four seconds (`lifetimes_bare`). With a unit they agree (`CookieGap`).

Not contradicted by a run, but seen while modelling. A duration only jsonwebtoken
knows (`"1w"`) is refused after the signing, and every login fails with a 500
(`Unsupported`). The loser of two creations of a slug gets a 400 (`SlugTaken`) where
the loser of two registrations gets a 409. `/auth/me` is counted by address:
`JwtAuthGuard` runs after `RateLimitGuard`.

## Not modelled

* What the DTOs demand of a body, the presenters, the envelope, decorators,
  wiring, configuration and start-up: no state, or state that never changes. A
  body is refused or not (`PipeRefuses`).
* The expiry of access tokens: a token clients hold may be refused at any time
  (`BearerRefused`, `Me`).
* The content of passwords, hashes, notes, and error messages. A login's
  password matches or not (`ComparePassword`, `genuine`).
* A Redis that restarts empty (`infra/docker-compose.yml` gives it no volume):
  every counter then starts over.
* Refresh and logout in `RequestPipeline`: they have no middleware, no role and no
  body, and `RefreshTokens` is about them. The token rows a login writes are there
  too; in the pipeline a login is answered or fails.
* In `TenantTransaction` the slug lookup before a registration or login is an
  `untenanted` use of the pool by any request, and so are a refresh and a logout; it
  keeps no connection, and the chain is `RequestPipeline`'s. The token row a login
  stores there has no content: `RefreshTokens` is about it.
* Deletion of tenants, which no route and no test performs.
* The row locks a sweep takes one after the other while it still waits: the
  orders they exclude are possible without them, and two sweeps that the
  database breaks up as deadlocked are a failed statement (`DbFailure`).

## Plan

Written in this order, the most important behaviour first: `RefreshTokens` with
its abstract `TokenLedger` and its proofs; `TenantTransaction`, which every
tenant-scoped request goes through; `RateLimit`; `TenantStore`, which
`TenantTransaction` implements; `RequestPipeline` on top of it; `TokenLifetimes`
and its proofs. Then the proofs of the other modules: the two refinements, the
invariants of `TenantTransaction`, `RateLimit` and `RequestPipeline`, and last the
rate limiter's quota, single use and replayed families. The plan is carried out.
What could follow: the content of DTOs, and refresh and logout as routes of
`RequestPipeline`.
