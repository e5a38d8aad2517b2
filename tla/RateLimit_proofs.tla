-------------------------- MODULE RateLimit_proofs --------------------------
(***************************************************************************)
(* Proofs, for any tenants, addresses, routes, requests, limits and length *)
(* of the window, that RateLimit keeps its types, that Retry-After is long *)
(* enough, that a key's time only runs down, that a caller gets less than  *)
(* two quotas in any window, and is refused for its own requests only.     *)
(***************************************************************************)
EXTENDS RateLimit, TLAPS

----------------------------------------------------------------------------
(* The inductive invariant *)

CounterOK ==
  /\ counter \in [Key -> [count : Nat, left : 0..WindowSeconds]]
  /\ \A k \in Key : /\ counter[k].count <= CountCap(k.route)
                    /\ counter[k].count = 0 <=> counter[k].left = 0

\* A request over the limit was counted in a window that is the key's, or is over.
HandlerInv(h) ==
  /\ req[h].pc \in {"eval", "ttl"} => req[h].client \in Client
  /\ req[h].pc \in {"idle", "eval"} => req[h].closes = 0
  /\ At(h, "ttl") => req[h].closes <= counter[resolveKey(req[h].client)].left
  /\ At(h, "reply") =>
       /\ req[h].closes > 0 => req[h].status \in {429, 500}
       /\ req[h].status = 429 => req[h].retryAfter >= 1 /\ req[h].retryAfter + 1 >= req[h].closes

IInv == TypeOK /\ \A h \in Requests : HandlerInv(h)

----------------------------------------------------------------------------
(* Facts about the operators *)

LEMMA Caps ==
  \A route : /\ Limit(route) \in Nat \ {0}
             /\ CountCap(route) \in Nat \ {0} /\ PassCap(route) \in Nat \ {0}
BY LimitAssumption DEF Limit, CountCap, PassCap

LEMMA Adding ==
  \A n, cap \in Nat : n <= cap /\ cap > 0 =>
    /\ Add(n, cap) \in 1..cap /\ Add(n, cap) >= n
    /\ n < cap => Add(n, cap) = n + 1
BY DEF Add

LEMMA NotedTyped ==
  ASSUME NEW cap \in Nat \ {0}, NEW history \in [Ages -> 0..cap]
  PROVE  Noted(history, cap) \in [Ages -> 0..cap]
<1>1. \A a \in Ages : history[a] \in Nat /\ history[a] <= cap
  OBVIOUS
<1>2. \A a \in Ages : Add(history[a], cap) \in 0..cap
  BY <1>1, Adding
<1>3. QED
  BY <1>2 DEF Noted

LEMMA KeyOfClient == \A client \in Client : resolveKey(client) \in Key
BY DEF resolveKey, Client, Key

LEMMA IdleFields ==
  /\ Idle \in Handler
  /\ Idle.pc = "idle" /\ Idle.client = NoClient /\ Idle.status = 0
  /\ Idle.retryAfter = 0 /\ Idle.closes = 0
BY LimitAssumption DEF Idle, Handler, Pcs, Statuses

LEMMA NoKeyFields == NoKey.count = 0 /\ NoKey.left = 0
BY DEF NoKey

\* One more request is counted, in the key's window or, if it has none, in a new one.
LEMMA Incremented ==
  ASSUME CounterOK, NEW key \in Key
  PROVE  /\ Increment(key).count \in 1..CountCap(key.route)
         /\ Increment(key).left \in 1..WindowSeconds
         /\ Increment(key) \in [count : Nat, left : 0..WindowSeconds]
         /\ Increment(key).left >= counter[key].left
         /\ counter[key].left # 0 => Increment(key).left = counter[key].left
<1>1. /\ counter[key] \in [count : Nat, left : 0..WindowSeconds]
      /\ counter[key].count <= CountCap(key.route)
      /\ counter[key].count = 0 <=> counter[key].left = 0
  BY DEF CounterOK
<1>2. counter[key].count \in Nat /\ counter[key].left \in 0..WindowSeconds
  BY <1>1
<1>3. CountCap(key.route) \in Nat \ {0}
  BY Caps
<1>4. Add(counter[key].count, CountCap(key.route)) \in 1..CountCap(key.route)
  BY <1>1, <1>2, <1>3, Adding
<1>5. (IF counter[key].count = 0 THEN WindowSeconds ELSE counter[key].left) \in 1..WindowSeconds
  BY <1>1, <1>2, LimitAssumption
<1>6. /\ Increment(key).count = Add(counter[key].count, CountCap(key.route))
      /\ Increment(key).left = IF counter[key].count = 0 THEN WindowSeconds ELSE counter[key].left
      /\ Increment(key) = [count |-> Increment(key).count, left |-> Increment(key).left]
  BY DEF Increment
<1>7. Increment(key) \in [count : Nat, left : 0..WindowSeconds]
  BY <1>3, <1>4, <1>5, <1>6
<1>8. QED
  BY <1>1, <1>2, <1>4, <1>5, <1>6, <1>7, LimitAssumption

LEMMA CountedKeeps ==
  ASSUME IInv, NEW h \in Requests, req[h].client \in Client, Counted(h), UNCHANGED watched
  PROVE  /\ CounterOK'
         /\ \A k \in Key : counter'[k].left >= counter[k].left
         /\ \A k \in Key : counter[k].left # 0 => counter'[k].left = counter[k].left
         /\ charged' \in [Ages -> 0..CountCap(watched'[2])]
<1> DEFINE key == resolveKey(req[h].client)
<1>1. key \in Key /\ CounterOK
  BY KeyOfClient DEF IInv, TypeOK, CounterOK
<1>2. counter' = [counter EXCEPT ![key] = Increment(key)]
  BY DEF Counted
<1>3. /\ charged' = charged
         \/ charged' = Noted(charged, CountCap(watched[2]))
      /\ charged \in [Ages -> 0..CountCap(watched[2])]
  BY DEF Counted, IInv, TypeOK
<1> HIDE DEF key
<1>4. /\ Increment(key).count \in 1..CountCap(key.route)
      /\ Increment(key).left \in 1..WindowSeconds
      /\ Increment(key) \in [count : Nat, left : 0..WindowSeconds]
      /\ Increment(key).left >= counter[key].left
      /\ counter[key].left # 0 => Increment(key).left = counter[key].left
  BY <1>1, Incremented
<1>5. /\ counter' \in [Key -> [count : Nat, left : 0..WindowSeconds]]
      /\ counter'[key] = Increment(key)
      /\ \A k \in Key : k # key => counter'[k] = counter[k]
  BY <1>1, <1>2, <1>4 DEF CounterOK
<1>6. \A k \in Key : counter[k].left \in 0..WindowSeconds
  BY <1>1 DEF CounterOK
<1>7. Increment(key).count <= CountCap(key.route) /\ Increment(key).count # 0 /\ Increment(key).left # 0
  BY <1>4, Caps
<1>8. CounterOK'
  BY <1>1, <1>5, <1>7 DEF CounterOK
<1>9. \A k \in Key : /\ counter'[k].left >= counter[k].left
                     /\ counter[k].left # 0 => counter'[k].left = counter[k].left
  BY <1>4, <1>5, <1>6
<1>10. charged' \in [Ages -> 0..CountCap(watched[2])]
  BY <1>3, Caps, NotedTyped
<1>11. QED
  BY <1>8, <1>9, <1>10

----------------------------------------------------------------------------
(* The steps of one request *)

\* A step of h while no time passes: windows are only opened.
LEMMA HandlerStep ==
  ASSUME IInv, NEW h \in Requests, NEW s \in Handler, req' = [req EXCEPT ![h] = s],
         CounterOK', \A k \in Key : counter'[k].left >= counter[k].left,
         UNCHANGED watched,
         charged' \in [Ages -> 0..CountCap(watched'[2])],
         passed' \in [Ages -> 0..PassCap(watched'[2])],
         HandlerInv(h)'
  PROVE  IInv'
<1>1. /\ req' \in [Requests -> Handler]
      /\ \A k \in Requests \ {h} : req'[k] = req[k]
  BY DEF IInv, TypeOK
<1>2. TypeOK'
  BY <1>1 DEF IInv, TypeOK, CounterOK
<1>3. ASSUME NEW k \in Requests \ {h} PROVE HandlerInv(k)'
  <2>1. HandlerInv(k) /\ req'[k] = req[k] /\ req[k] \in Handler
    BY <1>1 DEF IInv, TypeOK
  <2>2. ASSUME At(k, "ttl")
        PROVE  req[k].closes <= counter'[resolveKey(req[k].client)].left
    <3>1. resolveKey(req[k].client) \in Key /\ req[k].closes <= counter[resolveKey(req[k].client)].left
      BY <2>1, <2>2, KeyOfClient DEF HandlerInv, At
    <3> DEFINE key == resolveKey(req[k].client)
    <3>2. counter[key].left \in Nat /\ counter'[key].left \in Nat /\ req[k].closes \in Nat
      BY <2>1, <3>1 DEF IInv, TypeOK, CounterOK, Handler
    <3>3. counter'[key].left >= counter[key].left
      BY <3>1
    <3> HIDE DEF key
    <3>4. req[k].closes <= counter[key].left
      BY <3>1 DEF key
    <3>5. QED
      BY <3>2, <3>3, <3>4 DEF key
  <2>3. QED
    BY <2>1, <2>2 DEF HandlerInv, At
<1>4. QED
  BY <1>2, <1>3 DEF IInv

\* A step of h that leaves Redis and the histories alone.
LEMMA LocalStep ==
  ASSUME IInv, NEW h \in Requests, NEW s \in Handler, req' = [req EXCEPT ![h] = s],
         UNCHANGED <<counter, watched, charged, passed>>, HandlerInv(h)'
  PROVE  IInv'
<1>1. CounterOK'
  BY DEF IInv, TypeOK, CounterOK
<1>2. \A k \in Key : counter'[k].left >= counter[k].left
  <2>1. \A k \in Key : counter[k].left \in 0..WindowSeconds
    BY DEF IInv, TypeOK
  <2>2. QED
    BY <2>1
<1>3. /\ charged' \in [Ages -> 0..CountCap(watched'[2])]
      /\ passed' \in [Ages -> 0..PassCap(watched'[2])]
  BY DEF IInv, TypeOK
<1>4. QED
  BY <1>1, <1>2, <1>3, HandlerStep

\* The record of a request that Answer answers.
Answered(closes, status, headers) ==
  [Idle EXCEPT !.pc = "reply", !.status = status, !.headers = headers, !.closes = closes]

LEMMA AnsweredFields ==
  ASSUME NEW closes \in 0..WindowSeconds, NEW st \in Statuses, NEW hd \in BOOLEAN
  PROVE  LET s == Answered(closes, st, hd) IN
         /\ s \in Handler
         /\ s.pc = "reply" /\ s.status = st /\ s.closes = closes /\ s.retryAfter = 0
<1>1. PICK pc \in Pcs : pc = "reply"
  BY DEF Pcs
<1> DEFINE s == [Idle EXCEPT !.pc = pc, !.status = st, !.headers = hd, !.closes = closes]
<1>2. Answered(closes, st, hd) = s
  BY <1>1 DEF Answered
<1>3. s \in Handler /\ s.pc = pc /\ s.status = st /\ s.closes = closes /\ s.retryAfter = Idle.retryAfter
  <2>1. Idle \in Handler
    BY IdleFields
  <2>2. QED
    BY <2>1 DEF Handler
<1> HIDE DEF s
<1>4. QED
  BY <1>1, <1>2, <1>3, IdleFields

LEMMA Typed ==
  ASSUME IInv, NEW h \in Requests
  PROVE  req[h] \in Handler /\ HandlerInv(h) /\ req[h].closes \in 0..WindowSeconds
BY DEF IInv, TypeOK, Handler

LEMMA Labels ==
  /\ 0 \in Statuses /\ 200 \in Statuses /\ 401 \in Statuses
  /\ 429 \in Statuses /\ 500 \in Statuses
BY DEF Statuses

LEMMA ArriveInv ==
  ASSUME IInv, NEW h \in Requests, NEW client \in Clients, Arrive(h, client)
  PROVE  IInv'
<1> DEFINE s == [Idle EXCEPT !.pc = "eval", !.client = client]
<1>1. client \in Client
  BY ClientAssumption
<1>2. s \in Handler /\ s.pc = "eval" /\ s.client = client /\ s.closes = 0
  BY <1>1, IdleFields DEF Handler, Pcs
<1>3. req' = [req EXCEPT ![h] = s] /\ req'[h] = s /\ UNCHANGED <<counter, watched, charged, passed>>
  BY DEF Arrive, IInv, TypeOK
<1> HIDE DEF s
<1>4. HandlerInv(h)'
  BY <1>1, <1>2, <1>3 DEF HandlerInv, At
<1>5. QED
  BY <1>2, <1>3, <1>4, LocalStep

\* A request without a window to wait for is answered with anything but a 429.
LEMMA AnswerInv ==
  ASSUME IInv, NEW h \in Requests, NEW st \in Statuses, NEW hd \in BOOLEAN,
         st # 429, req[h].closes > 0 => st = 500,
         req' = Answer(h, st, hd)
  PROVE  Answered(req[h].closes, st, hd) \in Handler
         /\ req' = [req EXCEPT ![h] = Answered(req[h].closes, st, hd)]
         /\ HandlerInv(h)'
<1> DEFINE s == Answered(req[h].closes, st, hd)
<1>1. req[h].closes \in 0..WindowSeconds
  BY Typed
<1>2. s \in Handler /\ s.pc = "reply" /\ s.status = st /\ s.closes = req[h].closes
  BY <1>1, AnsweredFields
<1>3. req' = [req EXCEPT ![h] = s]
  BY Zenon DEF Answer, Answered
<1> HIDE DEF s
<1>4. req'[h] = s
  BY <1>3 DEF IInv, TypeOK
<1>5. HandlerInv(h)'
  BY <1>2, <1>4 DEF HandlerInv, At
<1>6. QED
  BY <1>2, <1>3, <1>5 DEF s

LEMMA MiddlewareRejectsInv ==
  ASSUME IInv, NEW h \in Requests, MiddlewareRejects(h)
  PROVE  IInv'
<1> DEFINE st == 401
           hd == FALSE
<1>1. req[h].closes = 0
  BY Typed DEF MiddlewareRejects, At, HandlerInv
<1>2. st \in Statuses /\ hd \in BOOLEAN /\ st # 429
  BY Labels
<1>3. req' = Answer(h, st, hd) /\ UNCHANGED <<counter, watched, charged, passed>>
  BY DEF MiddlewareRejects
<1> HIDE DEF st, hd
<1>4. QED
  BY <1>1, <1>2, <1>3, AnswerInv, LocalStep

LEMMA TtlFailsInv ==
  ASSUME IInv, NEW h \in Requests, TtlFails(h)
  PROVE  IInv'
<1> DEFINE st == 500
           hd == TRUE
<1>1. st \in Statuses /\ hd \in BOOLEAN /\ st # 429 /\ st = 500
  BY Labels
<1>2. req' = Answer(h, st, hd) /\ UNCHANGED <<counter, watched, charged, passed>>
  BY DEF TtlFails
<1> HIDE DEF st, hd
<1>3. QED
  BY <1>1, <1>2, AnswerInv, LocalStep

LEMMA ReplyInv ==
  ASSUME IInv, NEW h \in Requests, Reply(h)
  PROVE  IInv'
<1>1. /\ req' = [req EXCEPT ![h] = Idle] /\ req'[h] = Idle
      /\ UNCHANGED <<counter, watched, charged, passed>>
  BY DEF Reply, IInv, TypeOK
<1>2. HandlerInv(h)'
  BY <1>1, IdleFields DEF HandlerInv, At
<1>3. QED
  BY <1>1, <1>2, IdleFields, LocalStep

LEMMA EvalResentInv ==
  ASSUME IInv, NEW h \in Requests, EvalResent(h)
  PROVE  IInv'
<1>1. /\ req[h] \in Handler /\ HandlerInv(h) /\ req[h].pc = "eval" /\ req[h].client \in Client
      /\ Counted(h) /\ UNCHANGED <<req, watched, passed>>
  BY Typed DEF EvalResent, At, HandlerInv
<1>2. /\ CounterOK' /\ \A k \in Key : counter'[k].left >= counter[k].left
      /\ charged' \in [Ages -> 0..CountCap(watched'[2])]
  BY <1>1, CountedKeeps
<1>3. req' = [req EXCEPT ![h] = req[h]]
  BY <1>1 DEF IInv, TypeOK
<1>4. passed' \in [Ages -> 0..PassCap(watched'[2])]
  BY <1>1 DEF IInv, TypeOK
<1>5. HandlerInv(h)'
  BY <1>1 DEF HandlerInv, At
<1>6. QED
  BY <1>1, <1>2, <1>3, <1>4, <1>5, HandlerStep

LEMMA EvalFailsInv ==
  ASSUME IInv, NEW h \in Requests, EvalFails(h)
  PROVE  IInv'
<1>1. /\ req[h] \in Handler /\ HandlerInv(h) /\ req[h].client \in Client /\ req[h].closes = 0
      /\ UNCHANGED <<counter, charged>> \/ Counted(h)
      /\ UNCHANGED <<watched, passed>>
  BY Typed DEF EvalFails, At, HandlerInv
<1> DEFINE st == 200
           hd == FALSE
<1>2. st \in Statuses /\ hd \in BOOLEAN /\ st # 429 /\ req' = Answer(h, st, hd)
  BY Labels DEF EvalFails
<1> HIDE DEF st, hd
<1>3. /\ Answered(req[h].closes, st, hd) \in Handler
      /\ req' = [req EXCEPT ![h] = Answered(req[h].closes, st, hd)]
      /\ HandlerInv(h)'
  BY <1>1, <1>2, AnswerInv
<1>4. passed' \in [Ages -> 0..PassCap(watched'[2])]
  BY <1>1 DEF IInv, TypeOK
<1>5. CASE Counted(h)
  <2>1. /\ CounterOK' /\ \A k \in Key : counter'[k].left >= counter[k].left
        /\ charged' \in [Ages -> 0..CountCap(watched'[2])]
    BY <1>1, <1>5, CountedKeeps
  <2>2. QED
    BY <1>1, <1>3, <1>4, <2>1, HandlerStep
<1>6. CASE UNCHANGED <<counter, charged>>
  BY <1>1, <1>3, <1>6, LocalStep
<1>7. QED
  BY <1>1, <1>5, <1>6

LEMMA EvalInv ==
  ASSUME IInv, NEW h \in Requests, Eval(h)
  PROVE  IInv'
<1> DEFINE key == resolveKey(req[h].client)
<1>1. /\ req[h] \in Handler /\ HandlerInv(h) /\ req[h].client \in Client /\ req[h].closes = 0
      /\ Counted(h) /\ UNCHANGED watched
  BY Typed DEF Eval, At, HandlerInv
<1>2. /\ CounterOK' /\ \A k \in Key : counter'[k].left >= counter[k].left
      /\ charged' \in [Ages -> 0..CountCap(watched'[2])]
  BY <1>1, CountedKeeps
<1>3. key \in Key /\ passed \in [Ages -> 0..PassCap(watched[2])]
  BY <1>1, KeyOfClient DEF IInv, TypeOK
<1>4. counter'[key].left \in 0..WindowSeconds
  BY <1>2, <1>3 DEF CounterOK
<1>5. CASE Allowed(h, counter'[key].count)
  <2> DEFINE st == 200
             hd == TRUE
  <2>1. st \in Statuses /\ hd \in BOOLEAN /\ st # 429 /\ req' = Answer(h, st, hd)
    BY <1>5, Labels DEF Eval
  <2> HIDE DEF st, hd
  <2>2. /\ Answered(req[h].closes, st, hd) \in Handler
        /\ req' = [req EXCEPT ![h] = Answered(req[h].closes, st, hd)]
        /\ HandlerInv(h)'
    BY <1>1, <2>1, AnswerInv
  <2>3. passed' = passed \/ passed' = Noted(passed, PassCap(watched[2]))
    BY <1>5 DEF Eval
  <2>4. passed' \in [Ages -> 0..PassCap(watched[2])]
    BY <1>3, <2>3, Caps, NotedTyped
  <2>5. QED
    BY <1>1, <1>2, <2>2, <2>4, HandlerStep
<1>6. CASE ~Allowed(h, counter'[key].count)
  <2> DEFINE s == [req[h] EXCEPT !.pc = "ttl", !.closes = counter'[key].left]
  <2>1. req' = [req EXCEPT ![h] = s] /\ req'[h] = s /\ UNCHANGED passed
    BY <1>6 DEF Eval, IInv, TypeOK
  <2> HIDE DEF key
  <2>2. s \in Handler /\ s.pc = "ttl" /\ s.client = req[h].client /\ s.closes = counter'[key].left
    BY <1>1, <1>4 DEF Handler, Pcs
  <2> HIDE DEF s
  <2>3. HandlerInv(h)'
    BY <1>1, <1>4, <2>1, <2>2 DEF HandlerInv, At, key
  <2>4. passed' \in [Ages -> 0..PassCap(watched'[2])]
    BY <1>1, <1>3, <2>1
  <2>5. QED
    BY <1>1, <1>2, <2>1, <2>2, <2>3, <2>4, HandlerStep
<1>7. QED
  BY <1>5, <1>6

\* The answer to TTL is about the key as it is now: at least what is left of the window
\* the request was counted in, less the rounding.
LEMMA TtlInv ==
  ASSUME IInv, NEW h \in Requests, Ttl(h)
  PROVE  IInv'
<1> DEFINE key == resolveKey(req[h].client)
<1>1. /\ req[h] \in Handler /\ HandlerInv(h) /\ req[h].pc = "ttl" /\ req[h].client \in Client
      /\ req[h].closes \in 0..WindowSeconds /\ req[h].closes <= counter[key].left
      /\ UNCHANGED <<counter, watched, charged, passed>>
  BY Typed DEF Ttl, At, HandlerInv
<1>2. key \in Key /\ counter[key].left \in 0..WindowSeconds
  BY <1>1, KeyOfClient DEF IInv, TypeOK
<1>3. PICK ttl \in TtlOf(key) :
        req' = [Answer(h, 429, TRUE) EXCEPT ![h].retryAfter = retryAfter(ttl)]
  BY DEF Ttl
<1> DEFINE wait == retryAfter(ttl)
<1>4. wait \in 1..WindowSeconds /\ wait + 1 >= counter[key].left
  <2>1. counter[key] = NoKey => counter[key].left = 0
    BY NoKeyFields
  <2> HIDE DEF key
  <2>2. ttl \in {-2, counter[key].left - 1, counter[key].left} /\ (ttl = -2 => counter[key].left = 0)
    BY <1>2, <2>1 DEF TtlOf
  <2>3. QED
    BY <1>2, <2>2, LimitAssumption DEF retryAfter
<1> DEFINE Refuses(st, hd) == req' = [Answer(h, st, hd) EXCEPT ![h].retryAfter = wait]
<1>5. PICK st \in Statuses, hd \in BOOLEAN : st = 429 /\ Refuses(st, hd)
  <2>1. 429 \in Statuses /\ TRUE \in BOOLEAN
    BY Labels
  <2>2. Refuses(429, TRUE)
    BY <1>3
  <2> HIDE DEF Refuses
  <2>3. QED
    BY <2>1, <2>2
<1> HIDE DEF wait
<1> DEFINE r == Answered(req[h].closes, st, hd)
           s == [r EXCEPT !.retryAfter = wait]
<1>6. req' = [req EXCEPT ![h] = s]
  <2>1. Answer(h, st, hd) = [req EXCEPT ![h] = r]
    BY Zenon DEF Answer, Answered
  <2> HIDE DEF r
  <2>2. req' = [[req EXCEPT ![h] = r] EXCEPT ![h].retryAfter = wait]
    BY <1>5, <2>1
  <2>3. QED
    BY <2>2 DEF IInv, TypeOK
<1>7. /\ s \in Handler /\ s.pc = "reply" /\ s.status = 429 /\ s.closes = req[h].closes
      /\ s.retryAfter = wait
  <2>1. r \in Handler /\ r.pc = "reply" /\ r.status = 429 /\ r.closes = req[h].closes
    BY <1>1, <1>5, AnsweredFields
  <2> HIDE DEF r
  <2>2. wait \in 0..WindowSeconds
    BY <1>4
  <2>3. QED
    BY <2>1, <2>2 DEF Handler
<1> HIDE DEF s, key
<1>8. req'[h] = s
  BY <1>6 DEF IInv, TypeOK
<1>9. HandlerInv(h)'
  <2>1. wait >= 1 /\ wait + 1 >= req[h].closes
    BY <1>1, <1>2, <1>4
  <2>2. QED
    BY <1>7, <1>8, <2>1 DEF HandlerInv, At
<1>10. QED
  BY <1>1, <1>6, <1>7, <1>9, LocalStep

----------------------------------------------------------------------------
(* Time *)

\* One second later, a key has a second less, or is gone.
LEMMA Aged ==
  ASSUME CounterOK, Tick
  PROVE  /\ CounterOK'
         /\ \A k \in Key : /\ counter[k].left \in 0..WindowSeconds
                           /\ counter'[k].left = IF counter[k].left = 0 THEN 0 ELSE counter[k].left - 1
<1>1. \A k \in Key :
        /\ counter[k] \in [count : Nat, left : 0..WindowSeconds]
        /\ counter[k].count \in Nat /\ counter[k].left \in 0..WindowSeconds
        /\ counter[k].count <= CountCap(k.route)
        /\ counter[k].count = 0 <=> counter[k].left = 0
  BY DEF CounterOK
<1>2. \A k \in Key : CountCap(k.route) \in Nat
  BY Caps
<1> DEFINE older(k) == IF counter[k].left = 1 THEN NoKey
                       ELSE IF counter[k].left = 0 THEN counter[k]
                       ELSE [counter[k] EXCEPT !.left = @ - 1]
<1>3. counter' = [k \in Key |-> older(k)]
  BY DEF Tick
<1>4. NoKey \in [count : Nat, left : 0..WindowSeconds]
  BY LimitAssumption DEF NoKey
<1>5. ASSUME NEW k \in Key
      PROVE  /\ older(k) \in [count : Nat, left : 0..WindowSeconds]
             /\ older(k).count <= CountCap(k.route)
             /\ older(k).count = 0 <=> older(k).left = 0
             /\ older(k).left = IF counter[k].left = 0 THEN 0 ELSE counter[k].left - 1
  <2>1. CASE counter[k].left = 1
    BY <1>2, <1>4, <2>1, NoKeyFields
  <2>2. CASE counter[k].left = 0
    BY <1>1, <2>2
  <2>3. CASE counter[k].left \notin {0, 1}
    <3> DEFINE c == [counter[k] EXCEPT !.left = counter[k].left - 1]
    <3>1. counter[k].left - 1 \in 1..WindowSeconds /\ older(k) = c
      BY <1>1, <2>3, LimitAssumption
    <3>2. /\ c.count = counter[k].count /\ c.left = counter[k].left - 1
          /\ c \in [count : Nat, left : 0..WindowSeconds]
      BY <1>1, <3>1
    <3> HIDE DEF older, c
    <3>3. QED
      BY <1>1, <2>3, <3>1, <3>2
  <2>4. QED
    BY <2>1, <2>2, <2>3
<1> HIDE DEF older
<1>6. \A k \in Key : counter'[k] = older(k)
  BY <1>3
<1>7. CounterOK'
  BY <1>3, <1>5, <1>6 DEF CounterOK
<1>8. QED
  BY <1>1, <1>5, <1>6, <1>7

LEMMA OlderTyped ==
  ASSUME NEW cap \in Nat, NEW history \in [Ages -> 0..cap]
  PROVE  Older(history) \in [Ages -> 0..cap]
<1>1. \A a \in Ages : a # 0 => a - 1 \in Ages
  BY LimitAssumption DEF Ages
<1>2. QED
  BY <1>1 DEF Older

LEMMA TickInv ==
  ASSUME IInv, Tick
  PROVE  IInv'
<1> DEFINE less(n) == IF n = 0 THEN 0 ELSE n - 1
           s(h)    == [req[h] EXCEPT !.closes = less(req[h].closes)]
<1>1. CounterOK
  BY DEF IInv, TypeOK, CounterOK
<1>2. /\ CounterOK'
      /\ \A k \in Key : counter[k].left \in 0..WindowSeconds /\ counter'[k].left = less(counter[k].left)
  BY <1>1, Aged
<1>3. /\ req' = [h \in Requests |-> s(h)]
      /\ charged' = Older(charged) /\ passed' = Older(passed) /\ UNCHANGED watched
  BY DEF Tick
<1>4. \A h \in Requests : req[h] \in Handler /\ HandlerInv(h) /\ req[h].closes \in 0..WindowSeconds
  BY Typed
<1>5. \A n \in 0..WindowSeconds : /\ less(n) \in 0..WindowSeconds /\ less(n) <= n
                                  /\ \A m \in 0..WindowSeconds : n <= m => less(n) <= less(m)
                                  /\ n = 0 => less(n) = 0
  BY LimitAssumption
<1> HIDE DEF less
<1>6. \A h \in Requests :
        /\ s(h) \in Handler
        /\ s(h).pc = req[h].pc /\ s(h).client = req[h].client /\ s(h).status = req[h].status
        /\ s(h).retryAfter = req[h].retryAfter /\ s(h).closes = less(req[h].closes)
  BY <1>4, <1>5 DEF Handler
<1> HIDE DEF s
<1>7. TypeOK'
  <2>1. charged \in [Ages -> 0..CountCap(watched[2])] /\ passed \in [Ages -> 0..PassCap(watched[2])]
    BY DEF IInv, TypeOK
  <2>2. CountCap(watched[2]) \in Nat /\ PassCap(watched[2]) \in Nat
    BY Caps
  <2>3. /\ charged' \in [Ages -> 0..CountCap(watched'[2])]
        /\ passed' \in [Ages -> 0..PassCap(watched'[2])]
    BY <1>3, <2>1, <2>2, OlderTyped
  <2>4. req' \in [Requests -> Handler]
    BY <1>3, <1>6
  <2>5. watched' \in {Caller(client) : client \in Clients}
    BY <1>3 DEF IInv, TypeOK
  <2>6. QED
    BY <1>2, <2>3, <2>4, <2>5 DEF TypeOK, CounterOK
<1>8. ASSUME NEW h \in Requests PROVE HandlerInv(h)'
  <2>1. req'[h] = s(h)
    BY <1>3
  <2>2. ASSUME At(h, "ttl") PROVE less(req[h].closes) <= counter'[resolveKey(req[h].client)].left
    <3> DEFINE key == resolveKey(req[h].client)
    <3>1. key \in Key /\ req[h].closes <= counter[key].left
      BY <1>4, <2>2, KeyOfClient DEF HandlerInv, At
    <3> HIDE DEF key
    <3>2. less(req[h].closes) <= counter'[key].left
      BY <1>2, <1>4, <1>5, <3>1
    <3>3. QED
      BY <3>2 DEF key
  <2>3. ASSUME At(h, "reply")
        PROVE  /\ less(req[h].closes) > 0 => req[h].status \in {429, 500}
               /\ req[h].status = 429 => /\ req[h].retryAfter >= 1
                                         /\ req[h].retryAfter + 1 >= less(req[h].closes)
    <3>1. /\ req[h].closes > 0 => req[h].status \in {429, 500}
          /\ req[h].status = 429 => req[h].retryAfter >= 1 /\ req[h].retryAfter + 1 >= req[h].closes
          /\ req[h].retryAfter \in 0..WindowSeconds
      BY <1>4, <2>3 DEF HandlerInv, At, Handler
    <3>2. less(req[h].closes) \in 0..WindowSeconds /\ less(req[h].closes) <= req[h].closes
      BY <1>4, <1>5
    <3>3. QED
      BY <1>4, <3>1, <3>2
  <2>4. QED
    BY <1>4, <1>5, <1>6, <2>1, <2>2, <2>3 DEF HandlerInv, At
<1>9. QED
  BY <1>7, <1>8 DEF IInv

----------------------------------------------------------------------------
(* The invariant *)

LEMMA InitInv == Init => IInv
<1> SUFFICES ASSUME Init PROVE IInv
  OBVIOUS
<1>1. /\ counter = [k \in Key |-> NoKey] /\ req = [h \in Requests |-> Idle]
      /\ watched \in {Caller(client) : client \in Clients}
      /\ charged = [a \in Ages |-> 0] /\ passed = [a \in Ages |-> 0]
  BY DEF Init, None
<1>2. NoKey \in [count : Nat, left : 0..WindowSeconds]
  BY LimitAssumption DEF NoKey
<1>3. /\ counter \in [Key -> [count : Nat, left : 0..WindowSeconds]]
      /\ \A k \in Key : /\ counter[k].count <= CountCap(k.route)
                        /\ counter[k].count = 0 <=> counter[k].left = 0
  BY <1>1, <1>2, NoKeyFields, Caps
<1>4. charged \in [Ages -> 0..CountCap(watched[2])] /\ passed \in [Ages -> 0..PassCap(watched[2])]
  BY <1>1, Caps
<1>5. TypeOK
  BY <1>1, <1>3, <1>4, IdleFields DEF TypeOK
<1>6. \A h \in Requests : HandlerInv(h)
  BY <1>1, IdleFields DEF HandlerInv, At
<1>7. QED
  BY <1>5, <1>6 DEF IInv

LEMMA FrameInv == IInv /\ UNCHANGED vars => IInv'
BY DEF vars, IInv, TypeOK, HandlerInv, At

LEMMA NextInv == IInv /\ Next => IInv'
BY ArriveInv, MiddlewareRejectsInv, EvalInv, EvalResentInv, EvalFailsInv, TtlInv, TtlFailsInv,
   ReplyInv, TickInv DEF Next, Step

\* Every reachable state satisfies the inductive invariant.
THEOREM InductiveInvariant == Spec => []IInv
<1>1. IInv /\ [Next]_vars => IInv'
  BY NextInv, FrameInv
<1>2. QED
  BY InitInv, <1>1, PTL DEF Spec

----------------------------------------------------------------------------
(* What the counter of the watched caller says of its two histories *)

WatchedKey == [scope |-> watched[1], route |-> watched[2]]

\* The INCRs of the window that is open are as many as the key counts, and at most as
\* old as the window.
WindowCharged ==
  LET window == counter[WatchedKey] IN
  \A a \in Ages : window.left # 0 /\ a >= WindowSeconds - window.left => window.count <= charged[a]

\* The requests the counter lets through in a window: each is an INCR within the limit.
LetThrough(window, limit) == IF window.count < limit THEN window.count ELSE limit

\* A window's first INCR is as old as the window.  So of the requests let through less than
\* WindowSeconds ago, those of the window before were not that window's first, and since
\* the second in which the open window began at most one less than it has let through.
WindowPassed ==
  LET window == counter[WatchedKey]
      limit  == Limit(watched[2]) IN
  \A a \in Ages :
    /\ passed[a] <= LetThrough(window, limit) + limit - 1
    /\ window.left # 0 /\ a < WindowSeconds - window.left => passed[a] <= LetThrough(window, limit) - 1

Histories == WindowCharged /\ WindowPassed

LEMMA WatchedIsKey ==
  ASSUME IInv
  PROVE  /\ WatchedKey \in Key
         /\ \A client \in Client : Caller(client) = watched <=> resolveKey(client) = WatchedKey
<1>1. PICK c \in Client : watched = Caller(c)
  BY ClientAssumption DEF IInv, TypeOK
<1>2. \A client : Caller(client) = <<resolveKey(client).scope, resolveKey(client).route>>
  BY DEF Caller, resolveKey
<1>3. \A client \in Client :
        /\ resolveKey(client) \in Key
        /\ resolveKey(client) = [scope |-> resolveKey(client).scope, route |-> resolveKey(client).route]
  BY DEF resolveKey, Client, Key
<1>4. WatchedKey = resolveKey(c)
  BY <1>1, <1>2, <1>3 DEF WatchedKey
<1>5. \A client \in Client : resolveKey(client) = resolveKey(c) => Caller(client) = Caller(c)
  BY <1>2
<1>6. \A client \in Client : Caller(client) = Caller(c) => resolveKey(client) = resolveKey(c)
  BY <1>2, <1>3
<1>7. QED
  BY <1>1, <1>3, <1>4, <1>5, <1>6

\* The numbers the two invariants are about.
LEMMA WindowTypes ==
  ASSUME IInv
  PROVE  /\ counter[WatchedKey].count \in Nat /\ counter[WatchedKey].left \in 0..WindowSeconds
         /\ counter[WatchedKey].count = 0 <=> counter[WatchedKey].left = 0
         /\ counter[WatchedKey].count <= CountCap(watched[2])
         /\ \A a \in Ages : /\ charged[a] \in Nat /\ charged[a] <= CountCap(watched[2])
                            /\ passed[a] \in Nat /\ passed[a] <= PassCap(watched[2])
<1>1. WatchedKey \in Key /\ WatchedKey.route = watched[2]
  BY WatchedIsKey DEF WatchedKey
<1>2. counter[WatchedKey] \in [count : Nat, left : 0..WindowSeconds]
  BY <1>1 DEF IInv, TypeOK
<1>3. /\ counter[WatchedKey].count = 0 <=> counter[WatchedKey].left = 0
      /\ counter[WatchedKey].count <= CountCap(watched[2])
  BY <1>1 DEF IInv, TypeOK
<1>4. \A a \in Ages : charged[a] \in 0..CountCap(watched[2]) /\ passed[a] \in 0..PassCap(watched[2])
  BY DEF IInv, TypeOK
<1>5. CountCap(watched[2]) \in Nat /\ PassCap(watched[2]) \in Nat
  BY Caps
<1>6. QED
  BY <1>2, <1>3, <1>4, <1>5

\* A request is counted, and if the counter is still within the limit, maybe let through.
LEMMA CountedHistories ==
  ASSUME IInv, Histories, NEW h \in Requests, req[h].client \in Client, Counted(h),
         UNCHANGED watched,
         LET limit == Limit(watched[2]) IN
         \/ passed' = passed
         \/ /\ Caller(req[h].client) = watched /\ counter'[WatchedKey].count <= limit
            /\ passed' = Noted(passed, PassCap(watched[2]))
  PROVE  Histories'
<1> DEFINE key == resolveKey(req[h].client)
           limit == Limit(watched[2])
           old == counter[WatchedKey]
           new == counter'[WatchedKey]
<1>1. key \in Key /\ counter' = [counter EXCEPT ![key] = Increment(key)]
  BY KeyOfClient DEF Counted
<1>2. /\ WatchedKey \in Key /\ WatchedKey' = WatchedKey /\ WatchedKey.route = watched[2]
      /\ Caller(req[h].client) = watched <=> key = WatchedKey
  BY WatchedIsKey DEF WatchedKey
<1>3. CASE key # WatchedKey
  <2>1. new = old
    BY <1>1, <1>2, <1>3 DEF IInv, TypeOK
  <2>2. charged' = charged /\ passed' = passed
    BY <1>2, <1>3 DEF Counted
  <2>3. QED
    BY <1>2, <2>1, <2>2 DEF Histories, WindowCharged, WindowPassed
<1>4. CASE key = WatchedKey
  <2>1. new = Increment(WatchedKey)
    BY <1>1, <1>2, <1>4 DEF IInv, TypeOK
  <2>2. charged' = Noted(charged, CountCap(watched[2]))
    BY <1>2, <1>4 DEF Counted
  <2>3. /\ old.count \in Nat /\ old.left \in 0..WindowSeconds /\ old.count <= CountCap(watched[2])
        /\ old.count = 0 <=> old.left = 0
    BY WindowTypes
  <2>4. /\ limit \in Nat \ {0} /\ CountCap(watched[2]) = limit + 1 /\ PassCap(watched[2]) = 2 * limit
    BY Caps DEF CountCap, PassCap
  <2>5. /\ new.count = Add(old.count, CountCap(watched[2]))
        /\ new.left = IF old.count = 0 THEN WindowSeconds ELSE old.left
    BY <1>2, <2>1 DEF Increment
  <2> HIDE DEF old, new, key, limit
  <2>6. /\ new.count = IF old.count < limit + 1 THEN old.count + 1 ELSE limit + 1
        /\ new.count >= 1
    BY <2>3, <2>4, <2>5 DEF Add
  <2>7. ASSUME NEW a \in Ages
        PROVE  new.left # 0 /\ a >= WindowSeconds - new.left => new.count <= charged'[a]
    <3>1. charged[a] \in Nat /\ charged[a] <= limit + 1
      BY <2>4, WindowTypes
    <3>2. charged'[a] = IF charged[a] < limit + 1 THEN charged[a] + 1 ELSE limit + 1
      BY <2>2, <2>4 DEF Noted, Add
    <3>3. old.left # 0 /\ a >= WindowSeconds - old.left => old.count <= charged[a]
      BY DEF Histories, WindowCharged, old
    <3>4. CASE old.count = 0
      BY <2>4, <2>6, <3>1, <3>2, <3>4
    <3>5. CASE old.count # 0
      BY <2>3, <2>4, <2>5, <2>6, <3>1, <3>2, <3>3, <3>5
    <3>6. QED
      BY <3>4, <3>5
  <2> DEFINE through(w) == IF w.count < limit THEN w.count ELSE limit
  <2>8. ASSUME NEW a \in Ages
        PROVE  /\ passed'[a] <= through(new) + limit - 1
               /\ new.left # 0 /\ a < WindowSeconds - new.left => passed'[a] <= through(new) - 1
    <3>1. passed[a] \in Nat /\ a \in Nat
      BY WindowTypes DEF Ages
    <3>2. /\ passed[a] <= through(old) + limit - 1
          /\ old.left # 0 /\ a < WindowSeconds - old.left => passed[a] <= through(old) - 1
      BY DEF Histories, WindowPassed, LetThrough, old, limit
    <3>3. \/ passed'[a] = passed[a]
          \/ new.count <= limit /\ passed'[a] <= passed[a] + 1 /\ passed'[a] \in Nat
      <4>1. CASE passed' = passed
        BY <4>1
      <4>2. CASE new.count <= limit /\ passed' = Noted(passed, PassCap(watched[2]))
        <5>1. passed'[a] = Add(passed[a], 2 * limit)
          BY <2>4, <4>2 DEF Noted
        <5>2. passed[a] <= 2 * limit
          BY <2>4, WindowTypes
        <5>3. QED
          BY <2>4, <3>1, <4>2, <5>1, <5>2 DEF Add
      <4>3. QED
        BY <4>1, <4>2 DEF new, limit
    <3>4. through(old) \in Nat /\ through(new) \in Nat /\ through(old) <= through(new)
          /\ (new.count <= limit => through(new) = through(old) + 1)
      BY <2>3, <2>4, <2>6
    <3>5. new.left # 0 /\ a < WindowSeconds - new.left =>
            old.left # 0 /\ a < WindowSeconds - old.left
      BY <2>3, <2>5, <3>1, LimitAssumption
    <3> HIDE DEF through
    <3>6. QED
      BY <2>4, <3>1, <3>2, <3>3, <3>4, <3>5
  <2>9. WindowCharged'
    BY <1>2, <2>7 DEF WindowCharged, new
  <2>10. WindowPassed'
    <3>1. limit' = limit
      BY DEF limit, Limit
    <3>2. QED
      BY <1>2, <2>8, <3>1 DEF WindowPassed, LetThrough, new, limit
  <2>11. QED
    BY <2>9, <2>10 DEF Histories
<1>5. QED
  BY <1>3, <1>4

\* A second passes: the histories are as much older as the window.
LEMMA TickHistories ==
  ASSUME IInv, Histories, Tick
  PROVE  Histories'
<1> DEFINE limit == Limit(watched[2])
           old == counter[WatchedKey]
           new == counter'[WatchedKey]
<1>1. WatchedKey \in Key /\ WatchedKey' = WatchedKey /\ UNCHANGED watched
  BY WatchedIsKey DEF WatchedKey, Tick
<1>2. /\ old.count \in Nat /\ old.left \in 0..WindowSeconds
      /\ old.count = 0 <=> old.left = 0
  BY WindowTypes
<1>3. new = IF old.left = 1 THEN NoKey ELSE IF old.left = 0 THEN old ELSE [old EXCEPT !.left = @ - 1]
  BY <1>1 DEF Tick
<1>4. old \in [count : Nat, left : 0..WindowSeconds]
  BY <1>1 DEF IInv, TypeOK
<1>5. limit \in Nat \ {0} /\ limit' = limit
  BY <1>1, Caps DEF Limit
<1> HIDE DEF old, new, limit
<1>6. /\ new.left = IF old.left = 0 THEN 0 ELSE old.left - 1
      /\ new.count = IF old.left \in {0, 1} THEN 0 ELSE old.count
  <2>1. CASE old.left = 1
    BY <1>3, <2>1, NoKeyFields
  <2>2. CASE old.left = 0
    BY <1>2, <1>3, <2>2
  <2>3. CASE old.left \notin {0, 1}
    BY <1>2, <1>3, <1>4, <2>3
  <2>4. QED
    BY <2>1, <2>2, <2>3
<1>7. ASSUME NEW a \in Ages
      PROVE  /\ a = 0 => charged'[a] = 0 /\ passed'[a] = 0
             /\ a # 0 => a - 1 \in Ages /\ charged'[a] = charged[a - 1] /\ passed'[a] = passed[a - 1]
  BY LimitAssumption DEF Tick, Older, Ages
<1>8. ASSUME NEW a \in Ages
      PROVE  new.left # 0 /\ a >= WindowSeconds - new.left => new.count <= charged'[a]
  <2> SUFFICES ASSUME new.left # 0, a >= WindowSeconds - new.left PROVE new.count <= charged'[a]
    OBVIOUS
  <2>1. /\ a # 0 /\ a \in Nat /\ old.left \notin {0, 1}
        /\ a - 1 >= WindowSeconds - old.left /\ new.count = old.count
    BY <1>2, <1>6, LimitAssumption DEF Ages
  <2>2. old.count <= charged[a - 1]
    BY <1>7, <2>1 DEF Histories, WindowCharged, old
  <2>3. QED
    BY <1>7, <2>1, <2>2
<1> DEFINE through(w) == IF w.count < limit THEN w.count ELSE limit
<1>9. ASSUME NEW a \in Ages
      PROVE  /\ passed'[a] <= through(new) + limit - 1
             /\ new.left # 0 /\ a < WindowSeconds - new.left => passed'[a] <= through(new) - 1
  <2>1. \A b \in Ages :
          /\ b \in Nat /\ b < WindowSeconds /\ passed[b] \in Nat
          /\ passed[b] <= through(old) + limit - 1
          /\ old.left # 0 /\ b < WindowSeconds - old.left => passed[b] <= through(old) - 1
    BY WindowTypes, LimitAssumption DEF Ages, Histories, WindowPassed, LetThrough, old, limit
  <2>2. /\ through(new) \in Nat /\ through(old) \in Nat /\ through(old) <= limit
        /\ new.left # 0 => through(new) = through(old) /\ through(new) >= 1
        /\ old.left = 0 => through(old) = 0 /\ through(new) = 0
        /\ old.left = 1 => through(new) = 0
    BY <1>2, <1>5, <1>6
  <2> HIDE DEF through
  <2>3. CASE a = 0
    BY <1>5, <1>7, <2>2, <2>3
  <2>4. CASE a # 0
    <3>1. /\ a - 1 \in Ages /\ passed'[a] = passed[a - 1] /\ a \in Nat /\ a < WindowSeconds
          /\ passed[a - 1] \in Nat
      BY <1>7, <2>1, <2>4
    <3>2. /\ passed'[a] <= through(old) + limit - 1
          /\ old.left # 0 /\ a - 1 < WindowSeconds - old.left => passed'[a] <= through(old) - 1
      BY <2>1, <3>1
    <3>3. CASE old.left = 1
      BY <1>2, <1>5, <1>6, <2>2, <3>1, <3>2, <3>3, LimitAssumption
    <3>4. CASE old.left # 1
      BY <1>2, <1>5, <1>6, <2>2, <3>1, <3>2, <3>4, LimitAssumption
    <3>5. QED
      BY <3>3, <3>4
  <2>5. QED
    BY <2>3, <2>4
<1>10. WindowCharged'
  BY <1>1, <1>8 DEF WindowCharged, new
<1>11. WindowPassed'
  BY <1>1, <1>5, <1>9 DEF WindowPassed, LetThrough, new, limit
<1>12. QED
  BY <1>10, <1>11 DEF Histories

LEMMA HistoriesFrame ==
  Histories /\ UNCHANGED <<counter, watched, charged, passed>> => Histories'
BY DEF Histories, WindowCharged, WindowPassed, WatchedKey

LEMMA EvalHistories ==
  ASSUME IInv, Histories, NEW h \in Requests, Eval(h) \/ EvalResent(h) \/ EvalFails(h)
  PROVE  Histories'
<1>1. req[h].client \in Client /\ UNCHANGED watched
  <2>1. At(h, "eval") /\ UNCHANGED watched
    BY DEF Eval, EvalResent, EvalFails
  <2>2. QED
    BY <2>1, Typed DEF HandlerInv, At
<1>2. CASE Eval(h)
  <2>1. Counted(h)
    BY <1>2 DEF Eval
  <2>2. CASE passed' = passed
    BY <1>1, <2>1, <2>2, CountedHistories
  <2>3. CASE passed' # passed
    <3>1. /\ Caller(req[h].client) = watched /\ passed' = Noted(passed, PassCap(watched[2]))
          /\ counter'[resolveKey(req[h].client)].count <= Limit(req[h].client.route)
      BY <1>2, <2>3 DEF Eval, Allowed
    <3>2. resolveKey(req[h].client) = WatchedKey /\ req[h].client.route = watched[2]
      BY <1>1, <3>1, WatchedIsKey DEF Caller
    <3>3. QED
      BY <1>1, <2>1, <3>1, <3>2, CountedHistories
  <2>4. QED
    BY <2>2, <2>3
<1>3. CASE EvalResent(h) \/ EvalFails(h)
  <2>1. (Counted(h) \/ UNCHANGED <<counter, charged>>) /\ UNCHANGED passed
    BY <1>3 DEF EvalResent, EvalFails
  <2>2. QED
    BY <1>1, <2>1, CountedHistories, HistoriesFrame
<1>4. QED
  BY <1>2, <1>3

LEMMA InitHistories == Init => Histories
<1> SUFFICES ASSUME Init PROVE Histories
  OBVIOUS
<1>1. IInv
  BY InitInv
<1>2. counter[WatchedKey].count = 0 /\ counter[WatchedKey].left = 0
  BY <1>1, WatchedIsKey, NoKeyFields DEF Init
<1>3. Limit(watched[2]) \in Nat \ {0} /\ \A a \in Ages : passed[a] = 0
  BY Caps DEF Init, None
<1>4. QED
  BY <1>2, <1>3 DEF Histories, WindowCharged, WindowPassed, LetThrough

LEMMA NextHistories == IInv /\ Histories /\ [Next]_vars => Histories'
<1> SUFFICES ASSUME IInv, Histories, [Next]_vars PROVE Histories'
  OBVIOUS
<1>1. ASSUME NEW h \in Requests, NEW client \in Clients, Arrive(h, client) PROVE Histories'
  BY <1>1, HistoriesFrame DEF Arrive
<1>2. ASSUME NEW h \in Requests, MiddlewareRejects(h) PROVE Histories'
  BY <1>2, HistoriesFrame DEF MiddlewareRejects
<1>3. ASSUME NEW h \in Requests, Ttl(h) PROVE Histories'
  BY <1>3, HistoriesFrame DEF Ttl
<1>4. ASSUME NEW h \in Requests, TtlFails(h) \/ Reply(h) PROVE Histories'
  BY <1>4, HistoriesFrame DEF TtlFails, Reply
<1>5. UNCHANGED vars => Histories'
  BY HistoriesFrame DEF vars
<1>6. QED
  BY <1>1, <1>2, <1>3, <1>4, <1>5, EvalHistories, TickHistories DEF Next, Step

LEMMA HistoriesHold == Spec => []Histories
<1>1. IInv /\ Histories /\ [Next]_vars => Histories'
  BY NextHistories
<1>2. QED
  BY InitHistories, <1>1, InductiveInvariant, PTL DEF Spec

----------------------------------------------------------------------------
(* The properties *)

\* Every variable stays in its domain, and a key that exists will expire.
THEOREM TypeCorrect == Spec => []TypeOK
<1>1. IInv => TypeOK
  BY DEF IInv
<1>2. QED
  BY <1>1, InductiveInvariant, PTL

\* A request counted above the limit is never let through, and whoever waits as the 429
\* says comes back at the end of the window, whatever happened to the key in between.
THEOREM RetryAfterIsLongEnough == Spec => []RetryAfterSuffices
<1>1. IInv => RetryAfterSuffices
  BY DEF IInv, HandlerInv, RetryAfterSuffices
<1>2. QED
  BY <1>1, InductiveInvariant, PTL

\* No request, resent script or failure gives a key more time than it had.
THEOREM NoWindowIsExtended == Spec => WindowsOnlyRunDown
<1> DEFINE RunsDown == \A k \in Key : counter[k] # NoKey /\ counter'[k] # NoKey =>
                                        counter'[k].left <= counter[k].left
<1>1. ASSUME IInv, [Next]_vars PROVE RunsDown \/ UNCHANGED vars
  <2>1. CounterOK
    BY <1>1 DEF IInv, TypeOK, CounterOK
  <2>2. \A k \in Key : /\ counter[k].left \in 0..WindowSeconds
                       /\ counter[k].left = 0 => counter[k] = NoKey
    <3>1. \A k \in Key : /\ counter[k] \in [count : Nat, left : 0..WindowSeconds]
                         /\ counter[k].count = 0 <=> counter[k].left = 0
      BY <2>1 DEF CounterOK
    <3>2. \A c \in [count : Nat, left : 0..WindowSeconds] : c.count = 0 /\ c.left = 0 => c = NoKey
      BY DEF NoKey
    <3>3. QED
      BY <3>1, <3>2
  <2>3. ASSUME UNCHANGED counter PROVE RunsDown
    BY <2>2, <2>3
  <2>4. ASSUME NEW h \in Requests, req[h].client \in Client, Counted(h), UNCHANGED watched
        PROVE  RunsDown
    BY <1>1, <2>2, <2>4, CountedKeeps
  <2>5. CASE Tick
    BY <2>1, <2>5, Aged
  <2>6. ASSUME NEW h \in Requests, Eval(h) \/ EvalResent(h) \/ EvalFails(h)
        PROVE  RunsDown
    <3>1. req[h].client \in Client
      <4>1. At(h, "eval")
        BY <2>6 DEF Eval, EvalResent, EvalFails
      <4>2. QED
        BY <1>1, <4>1, Typed DEF HandlerInv, At
    <3>2. UNCHANGED counter \/ Counted(h)
      BY <2>6 DEF Eval, EvalResent, EvalFails
    <3>3. UNCHANGED watched
      BY <2>6 DEF Eval, EvalResent, EvalFails
    <3> HIDE DEF RunsDown
    <3>4. CASE Counted(h)
      BY <2>4, <3>1, <3>3, <3>4
    <3>5. QED
      BY <2>3, <3>2, <3>4
  <2> HIDE DEF RunsDown
  <2>7. ASSUME NEW h \in Requests, NEW client \in Clients, Arrive(h, client) PROVE RunsDown
    BY <2>3, <2>7 DEF Arrive
  <2>8. ASSUME NEW h \in Requests, MiddlewareRejects(h) \/ TtlFails(h) \/ Reply(h) PROVE RunsDown
    BY <2>3, <2>8 DEF MiddlewareRejects, TtlFails, Reply
  <2>9. ASSUME NEW h \in Requests, Ttl(h) PROVE RunsDown
    BY <2>3, <2>9 DEF Ttl
  <2>10. QED
    BY <1>1, <2>5, <2>6, <2>7, <2>8, <2>9 DEF Next, Step
<1>2. IInv /\ [Next]_vars => [RunsDown]_vars
  BY <1>1
<1>3. QED
  BY <1>2, InductiveInvariant, PTL DEF Spec, WindowsOnlyRunDown

\* Only the answer to the script sends a request on to ask for the TTL.
LEMMA OnlyEvalRefuses ==
  ASSUME IInv, [Next]_vars, NEW h \in Requests, At(h, "eval"), req'[h].pc = "ttl"
  PROVE  Eval(h)
<1>1. req \in [Requests -> Handler]
  BY DEF IInv, TypeOK
<1>2. ASSUME NEW k \in Requests, NEW s, req' = [req EXCEPT ![k] = s], s.pc # "ttl" PROVE FALSE
  BY <1>1, <1>2 DEF At
<1>3. ASSUME NEW k \in Requests, NEW client \in Clients, Arrive(k, client) PROVE FALSE
  <2> DEFINE s == [Idle EXCEPT !.pc = "eval", !.client = client]
  <2>1. s.pc = "eval"
    BY IdleFields DEF Handler
  <2>2. req' = [req EXCEPT ![k] = s]
    BY <1>3 DEF Arrive
  <2> HIDE DEF s
  <2>3. QED
    BY <1>2, <2>1, <2>2
<1>4. ASSUME NEW k \in Requests, NEW st, NEW hd, req' = Answer(k, st, hd) PROVE FALSE
  <2> DEFINE s == [Idle EXCEPT !.pc = "reply", !.status = st, !.headers = hd,
                               !.closes = req[k].closes]
  <2>1. s.pc = "reply"
    BY DEF Idle
  <2>2. req' = [req EXCEPT ![k] = s]
    BY <1>4, Zenon DEF Answer
  <2> HIDE DEF s
  <2>3. QED
    BY <1>2, <2>1, <2>2
<1>5. ASSUME NEW k \in Requests, MiddlewareRejects(k) \/ EvalFails(k) \/ TtlFails(k) PROVE FALSE
  <2>1. req' = Answer(k, 401, FALSE) \/ req' = Answer(k, 200, FALSE) \/ req' = Answer(k, 500, TRUE)
    BY <1>5, Zenon DEF MiddlewareRejects, EvalFails, TtlFails
  <2>2. CASE req' = Answer(k, 401, FALSE)
    <3> DEFINE st == 401
               hd == FALSE
    <3>1. req' = Answer(k, st, hd)
      BY <2>2
    <3> HIDE DEF st, hd
    <3>2. QED
      BY <1>4, <3>1
  <2>3. CASE req' = Answer(k, 200, FALSE)
    <3> DEFINE st == 200
               hd == FALSE
    <3>1. req' = Answer(k, st, hd)
      BY <2>3
    <3> HIDE DEF st, hd
    <3>2. QED
      BY <1>4, <3>1
  <2>4. CASE req' = Answer(k, 500, TRUE)
    <3> DEFINE st == 500
               hd == TRUE
    <3>1. req' = Answer(k, st, hd)
      BY <2>4
    <3> HIDE DEF st, hd
    <3>2. QED
      BY <1>4, <3>1
  <2>5. QED
    BY <2>1, <2>2, <2>3, <2>4
<1>6. ASSUME NEW k \in Requests, Ttl(k) PROVE FALSE
  <2>1. k # h
    BY <1>6 DEF Ttl, At
  <2>2. req'[h] = req[h]
    BY <1>1, <1>6, <2>1 DEF Ttl, Answer
  <2>3. QED
    BY <2>2 DEF At
<1>7. ASSUME NEW k \in Requests, Reply(k) PROVE FALSE
  BY <1>2, <1>7, IdleFields DEF Reply
<1>8. ASSUME NEW k \in Requests, Eval(k) PROVE Eval(h)
  <2>1. k # h => req'[h] = req[h]
    BY <1>1, <1>8 DEF Eval, Answer
  <2>2. QED
    BY <1>8, <2>1 DEF At
<1>9. ASSUME Tick PROVE FALSE
  <2>1. req'[h].pc = req[h].pc
    BY <1>1, <1>9 DEF Tick, Handler
  <2>2. QED
    BY <2>1 DEF At
<1>10. ASSUME UNCHANGED req PROVE FALSE
  BY <1>10 DEF At
<1>11. QED
  BY <1>3, <1>5, <1>6, <1>7, <1>8, <1>9, <1>10 DEF Next, Step, EvalResent, vars

\* Wherever the windows end, the counter lets fewer than twice the limit of the watched
\* caller's requests through in any WindowSeconds.
THEOREM QuotaIsShared == Spec => []SharedQuota
<1>1. ASSUME IInv, Histories PROVE SharedQuota
  <2>1. WindowSeconds - 1 \in Ages
    BY LimitAssumption DEF Ages
  <2>2. Limit(watched[2]) \in Nat \ {0} /\ passed[WindowSeconds - 1] \in Nat
    BY <1>1, <2>1, Caps, WindowTypes
  <2>3. /\ LetThrough(counter[WatchedKey], Limit(watched[2])) <= Limit(watched[2])
        /\ LetThrough(counter[WatchedKey], Limit(watched[2])) \in Nat
    BY <1>1, <2>2, WindowTypes DEF LetThrough
  <2>4. passed[WindowSeconds - 1]
          <= LetThrough(counter[WatchedKey], Limit(watched[2])) + Limit(watched[2]) - 1
    BY <1>1, <2>1 DEF Histories, WindowPassed
  <2>5. QED
    BY <2>2, <2>3, <2>4 DEF SharedQuota
<1>2. QED
  BY <1>1, InductiveInvariant, HistoriesHold, PTL

\* A caller is only refused for what was counted for itself, in the last WindowSeconds.
THEOREM NobodyIsBlockedForOthers == Spec => NoFalseBlock
<1> DEFINE Blocked == \A h \in Requests :
             At(h, "eval") /\ req'[h].pc = "ttl" /\ Caller(req[h].client) = watched
               => charged'[WindowSeconds - 1] > Limit(watched[2])
<1>1. ASSUME IInv, IInv', Histories', [Next]_vars PROVE Blocked
  <2> SUFFICES ASSUME NEW h \in Requests, At(h, "eval"), req'[h].pc = "ttl",
                      Caller(req[h].client) = watched
               PROVE  charged'[WindowSeconds - 1] > Limit(watched[2])
    OBVIOUS
  <2>1. Eval(h) /\ req[h].client \in Client /\ UNCHANGED watched
    <3>1. Eval(h)
      BY <1>1, OnlyEvalRefuses
    <3>2. UNCHANGED watched
      BY <3>1 DEF Eval
    <3>3. QED
      BY <1>1, <3>1, <3>2, Typed DEF HandlerInv, At
  <2>2. resolveKey(req[h].client) = WatchedKey /\ req[h].client.route = watched[2]
    BY <1>1, <2>1, WatchedIsKey DEF Caller
  <2>3. ~(counter'[WatchedKey].count <= Limit(watched[2]))
    <3>1. CASE Allowed(h, counter'[WatchedKey].count)
      <4> DEFINE st == 200
                 hd == TRUE
      <4>1. st \in Statuses /\ hd \in BOOLEAN /\ req' = Answer(h, st, hd)
        BY <2>1, <2>2, <3>1, Labels DEF Eval
      <4> HIDE DEF st, hd
      <4>2. req'[h] = Answered(req[h].closes, st, hd)
        BY <1>1, <4>1 DEF Answer, Answered, IInv, TypeOK
      <4>3. QED
        BY <1>1, <4>1, <4>2, Typed, AnsweredFields
    <3>2. QED
      BY <2>2, <3>1 DEF Allowed
  <2>4. /\ WatchedKey' = WatchedKey /\ watched' = watched
        /\ counter'[WatchedKey].count \in Nat /\ counter'[WatchedKey].left \in 0..WindowSeconds
        /\ counter'[WatchedKey].count = 0 <=> counter'[WatchedKey].left = 0
    <3>1. WatchedKey' = WatchedKey /\ WatchedKey \in Key
      BY <1>1, <2>1, WatchedIsKey DEF WatchedKey
    <3>2. counter'[WatchedKey] \in [count : Nat, left : 0..WindowSeconds]
      BY <1>1, <3>1 DEF IInv, TypeOK
    <3>3. counter'[WatchedKey].count = 0 <=> counter'[WatchedKey].left = 0
      BY <1>1, <3>1 DEF IInv, TypeOK
    <3>4. QED
      BY <2>1, <3>1, <3>2, <3>3
  <2>5. WindowSeconds - 1 \in Ages /\ charged'[WindowSeconds - 1] \in Nat
    <3>1. charged' \in [Ages -> 0..CountCap(watched'[2])] /\ CountCap(watched'[2]) \in Nat
      BY <1>1, Caps DEF IInv, TypeOK
    <3>2. QED
      BY <3>1, LimitAssumption DEF Ages
  <2>6. Limit(watched[2]) \in Nat \ {0}
    BY Caps
  <2>7. counter'[WatchedKey].left # 0 /\ WindowSeconds - 1 >= WindowSeconds - counter'[WatchedKey].left
    BY <2>3, <2>4, <2>6, LimitAssumption
  <2>8. counter'[WatchedKey].count <= charged'[WindowSeconds - 1]
    BY <1>1, <2>4, <2>5, <2>7 DEF Histories, WindowCharged
  <2>9. QED
    BY <2>3, <2>4, <2>5, <2>6, <2>8
<1>2. IInv /\ IInv' /\ Histories' /\ [Next]_vars => [Blocked]_vars
  BY <1>1
<1>3. Spec => [][Blocked]_vars
  BY <1>2, InductiveInvariant, HistoriesHold, PTL DEF Spec
<1>4. QED
  BY <1>3 DEF NoFalseBlock

=============================================================================
