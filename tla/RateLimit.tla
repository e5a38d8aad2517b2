----------------------------- MODULE RateLimit -----------------------------
(***************************************************************************)
(* RateLimitGuard, the global guard that counts requests in Redis before   *)
(* any other guard runs, with the middleware in front of it that decides   *)
(* whether a request has a tenant.  A key lives for WindowSeconds from its *)
(* first INCR.  A request awaits Redis once (eval) or twice (eval, ttl),   *)
(* so time passes and other requests are counted between its steps.        *)
(***************************************************************************)
EXTENDS Integers

CONSTANTS
  Tenants, Addresses,
  Overridden,       \* the routes with @RateLimit
  Clients,          \* the requests sent: [tenant, ip, route]
  Requests,         \* handlers that may be in flight at the same time
  DefaultLimit, OverrideLimit, WindowSeconds,
  NoTenant, NoRoute, NoClient

ASSUME LimitAssumption ==
  /\ DefaultLimit \in Nat \ {0} /\ OverrideLimit \in Nat \ {0}
  /\ WindowSeconds \in Nat \ {0}

\* route is NoRoute when it has no override: the default key does not name it.
Client == [tenant : Tenants \cup {NoTenant}, ip : Addresses, route : Overridden \cup {NoRoute}]

ASSUME ClientAssumption == Clients \subseteq Client /\ NoClient \notin Client

Key == [scope : Tenants \cup Addresses, route : Overridden \cup {NoRoute}]

\* Mutant: an override counts on the scope's shared key.
resolveKeyShared(client) ==
  [scope |-> IF client.tenant # NoTenant THEN client.tenant ELSE client.ip, route |-> NoRoute]

resolveKey(client) ==
  [scope |-> IF client.tenant # NoTenant THEN client.tenant ELSE client.ip,
   route |-> client.route]

Limit(route) == IF route = NoRoute THEN DefaultLimit ELSE OverrideLimit

VARIABLES
  counter,   \* Redis: the count and the seconds left of each key; [0, 0] is no key
  req,       \* the handlers; closes is a history, the seconds left of the window
             \* that a request over the limit was counted in
  watched,   \* the caller the two histories are kept for
  charged,   \* history: the INCRs for the watched caller of at most each age, in seconds
  passed     \* history: the same of its requests let through on the counter's word

vars == <<counter, req, watched, charged, passed>>

Pcs      == {"idle", "eval", "ttl", "reply"}
Statuses == {0, 200, 401, 429, 500}
Handler  == [pc : Pcs, client : Client \cup {NoClient}, status : Statuses, headers : BOOLEAN,
             retryAfter : 0..WindowSeconds, closes : 0..WindowSeconds]
Idle     == [pc |-> "idle", client |-> NoClient, status |-> 0, headers |-> FALSE,
             retryAfter |-> 0, closes |-> 0]

Ages == 0..WindowSeconds - 1
NoKey == [count |-> 0, left |-> 0]
None  == [a \in Ages |-> 0]

\* Counts beyond a cap are not told apart.
CountCap(route) == Limit(route) + 1
PassCap(route)  == 2 * Limit(route)
Add(n, cap)     == IF n < cap THEN n + 1 ELSE cap

At(h, label) == req[h].pc = label

\* Whose quota a request uses, by README.md:31: the tenant's if it has one, else the
\* address's, and each route with an override has one of its own.
Caller(client) ==
  IF client.tenant # NoTenant THEN <<client.tenant, client.route>> ELSE <<client.ip, client.route>>

\* One more event, of age 0, in a history: it is at most as old as every age.
Noted(history, cap) == [a \in Ages |-> Add(history[a], cap)]

Init ==
  /\ counter = [k \in Key |-> NoKey]
  /\ req = [h \in Requests |-> Idle]
  /\ watched \in {Caller(client) : client \in Clients}
  /\ charged = None /\ passed = None

----------------------------------------------------------------------------
(* The guard *)

Arrive(h, client) ==
  /\ At(h, "idle")
  /\ req' = [req EXCEPT ![h] = [Idle EXCEPT !.pc = "eval", !.client = client]]
  /\ UNCHANGED <<counter, watched, charged, passed>>

\* The request is answered, or let through to its handler (200); the guard's locals are gone.
Answer(h, status, headers) ==
  [req EXCEPT ![h] = [Idle EXCEPT !.pc = "reply", !.status = status, !.headers = headers,
                                  !.closes = req[h].closes]]

\* The tenant middleware answers 400, 401 or 404 and the guard never runs.
MiddlewareRejects(h) ==
  /\ At(h, "idle")
  /\ req' = Answer(h, 401, FALSE)
  /\ UNCHANGED <<counter, watched, charged, passed>>

\* Mutant: EXPIRE on every INCR.
IncrementRenew(key) ==
  [count |-> Add(counter[key].count, CountCap(key.route)), left |-> WindowSeconds]

\* Mutant: INCR and EXPIRE are two commands, and the second is lost.
IncrementOnly(key) ==
  [count |-> Add(counter[key].count, CountCap(key.route)), left |-> counter[key].left]

\* INCREMENT_SCRIPT: what it leaves at the key.
Increment(key) ==
  [count |-> Add(counter[key].count, CountCap(key.route)),
   left  |-> IF counter[key].count = 0 THEN WindowSeconds ELSE counter[key].left]

Counted(h) ==
  LET key == resolveKey(req[h].client) IN
  /\ counter' = [counter EXCEPT ![key] = Increment(key)]
  /\ charged' = IF Caller(req[h].client) = watched
                  THEN Noted(charged, CountCap(watched[2])) ELSE charged

\* Mutant: off by one.
AllowedOne(h, current) == current <= Limit(req[h].client.route) + 1
Allowed(h, current) == current <= Limit(req[h].client.route)

Eval(h) ==
  /\ At(h, "eval")
  /\ Counted(h)
  /\ IF Allowed(h, counter'[resolveKey(req[h].client)].count)
       THEN /\ req' = Answer(h, 200, TRUE)
            /\ passed' = IF Caller(req[h].client) = watched
                           THEN Noted(passed, PassCap(watched[2])) ELSE passed
       ELSE /\ req' = [req EXCEPT ![h].pc = "ttl",
                         ![h].closes = counter'[resolveKey(req[h].client)].left]
            /\ UNCHANGED passed
  /\ UNCHANGED watched

\* The connection drops before the answer: ioredis reconnects and sends the script again.
EvalResent(h) ==
  /\ At(h, "eval") /\ Counted(h)
  /\ UNCHANGED <<req, watched, passed>>

\* Redis is down, or ioredis has given up on an answer: the request is let through.
EvalFails(h) ==
  /\ At(h, "eval")
  /\ UNCHANGED <<counter, charged>> \/ Counted(h)
  /\ req' = Answer(h, 200, FALSE)
  /\ UNCHANGED <<watched, passed>>

\* What TTL answers: the seconds left, rounded to the nearest, or -2 for no key.
TtlOf(key) == IF counter[key] = NoKey THEN {-2} ELSE {counter[key].left - 1, counter[key].left}

\* Mutant: a window that has just ended is not expected.
retryAfterWhole(ttl) == IF ttl < 0 THEN 0 ELSE ttl
retryAfter(ttl) == IF ttl < 1 THEN 1 ELSE ttl

\* Retry-After is set from the key as it is now, and 429 thrown.
Ttl(h) ==
  /\ At(h, "ttl")
  /\ \E ttl \in TtlOf(resolveKey(req[h].client)) :
       req' = [Answer(h, 429, TRUE) EXCEPT ![h].retryAfter = retryAfter(ttl)]
  /\ UNCHANGED <<counter, watched, charged, passed>>

\* Mutant: the ttl call stands inside the try, too.
TtlFailsOpen(h) ==
  /\ At(h, "ttl")
  /\ req' = Answer(h, 200, TRUE)
  /\ UNCHANGED <<counter, watched, charged, passed>>

\* redis.ttl stands outside the try: the ExceptionsHandler's 500.
TtlFails(h) ==
  /\ At(h, "ttl")
  /\ req' = Answer(h, 500, TRUE)
  /\ UNCHANGED <<counter, watched, charged, passed>>

Reply(h) ==
  /\ At(h, "reply")
  /\ req' = [req EXCEPT ![h] = Idle]
  /\ UNCHANGED <<counter, watched, charged, passed>>

\* A second passes; Redis removes the keys whose time is up.
Older(history) == [a \in Ages |-> IF a = 0 THEN 0 ELSE history[a - 1]]

Tick ==
  /\ counter' = [k \in Key |-> IF counter[k].left = 1 THEN NoKey
                               ELSE IF counter[k].left = 0 THEN counter[k]
                               ELSE [counter[k] EXCEPT !.left = @ - 1]]
  /\ charged' = Older(charged) /\ passed' = Older(passed)
  /\ req' = [h \in Requests |-> [req[h] EXCEPT !.closes = IF @ = 0 THEN 0 ELSE @ - 1]]
  /\ UNCHANGED watched

Step(h) == Eval(h) \/ EvalResent(h) \/ EvalFails(h) \/ Ttl(h) \/ TtlFails(h) \/ Reply(h)

Next ==
  \/ \E h \in Requests : \/ \E client \in Clients : Arrive(h, client)
                         \/ MiddlewareRejects(h) \/ Step(h)
  \/ Tick

Spec == Init /\ [][Next]_vars

----------------------------------------------------------------------------
(* Properties *)

\* Every variable keeps to its domain, and a key that exists will expire.
TypeOK ==
  /\ counter \in [Key -> [count : Nat, left : 0..WindowSeconds]]
  /\ \A k \in Key : /\ counter[k].count <= CountCap(k.route)
                    /\ counter[k].count = 0 <=> counter[k].left = 0
  /\ req \in [Requests -> Handler]
  /\ watched \in {Caller(client) : client \in Clients}
  /\ charged \in [Ages -> 0..CountCap(watched[2])]
  /\ passed \in [Ages -> 0..PassCap(watched[2])]

\* "Every tenant [has] its own shared quota" (README.md:31): over any WindowSeconds,
\* wherever a fixed window ends in it and whichever addresses the requests come from,
\* the counter lets fewer than twice the limit through.
SharedQuota == passed[WindowSeconds - 1] < 2 * Limit(watched[2])

\* "One noisy tenant can't starve another's" (README.md:31): a request is only refused
\* once its own tenant, or its own address on that route, was counted more often than
\* the limit within the last WindowSeconds; nobody else's requests, and none of an
\* earlier window, are held against it.
NoFalseBlock ==
  [][\A h \in Requests :
       At(h, "eval") /\ req'[h].pc = "ttl" /\ Caller(req[h].client) = watched
         => charged'[WindowSeconds - 1] > Limit(watched[2])]_vars

\* A refusal ends: however many requests keep coming, fail or are sent again, the time a
\* key has left only runs down until the key is gone, so nobody is refused for longer
\* than one window at a time.
WindowsOnlyRunDown ==
  [][\A k \in Key : counter[k] # NoKey /\ counter'[k] # NoKey =>
                     counter'[k].left <= counter[k].left]_vars

\* A 429 "reports Retry-After" (rate-limit.e2e-spec.ts:305): a request counted above the
\* limit is never let through, and whoever waits as told, at least a second, comes back
\* less than a second before the end of the window it was refused in or after it,
\* although the header is read from a key that may have expired or started again.
RetryAfterSuffices ==
  \A h \in Requests : At(h, "reply") =>
    /\ req[h].closes > 0 => req[h].status \in {429, 500}
    /\ req[h].status = 429 => req[h].retryAfter >= 1 /\ req[h].retryAfter + 1 >= req[h].closes

\* "X-RateLimit-*/Retry-After headers on every response" (README.md:31), read as every
\* response to a request that the guard has seen.
HeadersOnEveryResponse ==
  \A h \in Requests : At(h, "reply") /\ req[h].status # 401 => req[h].headers

=============================================================================
