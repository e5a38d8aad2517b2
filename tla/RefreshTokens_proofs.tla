------------------------ MODULE RefreshTokens_proofs ------------------------
(***************************************************************************)
(* Proofs, for every value of the constants, of type correctness and of    *)
(* the safety invariants and action properties of RefreshTokens.           *)
(***************************************************************************)
EXTENDS RefreshTokens, TLAPS

Issuing == {"create", "insert", "update", "commit"}

\* The local variables a handler has assigned by the time it reaches each await.
LocalsOK(h) ==
  /\ req[h].pc \in {"find", "sweep", "sweeping", "revoke", "insert", "update", "commit"}
       => req[h].presented \in Jwt
  /\ req[h].pc = "create" => req[h].presented = NoJwt
  /\ req[h].pc = "sign" => req[h].claims \in Claims
  /\ req[h].pc \in {"sweep", "sweeping"} => req[h].record \in Row
  /\ req[h].pc \in Issuing \cup {"reply"} => req[h].minted \in Jwt

\* A refresh token is presented by a client that was sent it, and what is exchanged
\* for it is signed for the same user; an open transaction keeps that user's row.
ServesOwner(h) ==
  /\ req[h].presented # NoJwt => req[h].presented \in delivered
  /\ req[h].pc \in {"sweep", "sweeping"} => req[h].record.userId = req[h].presented.sub
  /\ req[h].pc = "sign" /\ Rotating(h) => req[h].claims.sub = req[h].presented.sub
  /\ req[h].pc \in {"insert", "update", "commit"} =>
       /\ req[h].minted.sub = req[h].presented.sub
       /\ origin[req[h].minted.jti] = req[h].presented.jti
  /\ req[h].pc \in {"update", "commit"} => accounts[req[h].minted.sub] # Gone

\* A jti is used once: until its row is stored, nobody else holds a token with it.
Fresh(h) ==
  req[h].pc \in Issuing =>
    /\ origin[req[h].minted.jti] # Unsigned
    /\ rows[req[h].minted.jti] = NoRow
    /\ \A jwt \in delivered : jwt.jti # req[h].minted.jti
    /\ \A k \in Requests \ {h} :
         req[k].pc \in Issuing \cup {"reply"} => req[k].minted.jti # req[h].minted.jti

Stored(jwt) ==
  /\ origin[jwt.jti] # Unsigned
  /\ accounts[jwt.sub] # Gone => rows[jwt.jti] # NoRow
  /\ rows[jwt.jti] # NoRow =>
       rows[jwt.jti].userId = jwt.sub /\ rows[jwt.jti].tokenHash = HashToken(jwt)

\* A login's row replaces nothing.
CreateOrigin(h) == req[h].pc = "create" => origin[req[h].minted.jti] = NoToken

RowsOwned == \A t \in Tokens : rows[t] # NoRow =>
               origin[t] # Unsigned /\ accounts[rows[t].userId] # Gone

HandlerInv(h) ==
  /\ LocalsOK(h)
  /\ ServesOwner(h)
  /\ Fresh(h)
  /\ CreateOrigin(h)
  /\ req[h].pc = "reply" => Stored(req[h].minted)

IInv ==
  /\ TypeOK
  /\ \A h \in Requests : HandlerInv(h)
  /\ \A jwt \in delivered : Stored(jwt)
  /\ RowsOwned
  /\ RotationAtomic

----------------------------------------------------------------------------
(* A step that only moves one handler along preserves what holds of all the *)
(* others: they neither see its locals nor share its jti.                   *)

LEMMA LocalStep ==
  ASSUME IInv, NEW h \in Requests, NEW s \in Handler,
         req' = [req EXCEPT ![h] = s],
         UNCHANGED <<accounts, rows, origin, delivered, clock>>,
         s.pc \in Issuing \cup {"reply"} =>
           req[h].pc \in Issuing \cup {"reply"} /\ s.minted = req[h].minted,
         HandlerInv(h)'
  PROVE  IInv'
<1>1. /\ req' \in [Requests -> Handler]
      /\ req'[h] = s
      /\ \A k \in Requests \ {h} : req'[k] = req[k]
  BY DEF IInv, TypeOK
<1>2. TypeOK'
  BY <1>1 DEF IInv, TypeOK
<1>3. ASSUME NEW k \in Requests \ {h} PROVE HandlerInv(k)'
  <2>1. HandlerInv(k) /\ req'[k] = req[k]
    BY <1>1 DEF IInv
  <2>2. LocalsOK(k)' /\ ServesOwner(k)' /\ CreateOrigin(k)'
    BY <2>1 DEF HandlerInv, LocalsOK, ServesOwner, CreateOrigin, Rotating
  <2>3. Fresh(k)'
    <3>1. ASSUME NEW j \in Requests \ {k}, req'[j].pc \in Issuing \cup {"reply"}
          PROVE  req[j].pc \in Issuing \cup {"reply"} /\ req'[j].minted = req[j].minted
      BY <1>1, <3>1
    <3>2. QED
      BY <2>1, <3>1 DEF HandlerInv, Fresh
  <2>4. (req[k].pc = "reply" => Stored(req[k].minted))'
    BY <2>1 DEF HandlerInv, Stored
  <2>5. QED
    BY <2>2, <2>3, <2>4 DEF HandlerInv
<1>4. \A k \in Requests : HandlerInv(k)'
  BY <1>3
<1>5. (\A jwt \in delivered : Stored(jwt))' /\ RowsOwned' /\ RotationAtomic'
  BY DEF IInv, Stored, RowsOwned, RotationAtomic
<1>6. QED
  BY <1>2, <1>4, <1>5 DEF IInv

LEMMA IdleHandler ==
  /\ Idle \in Handler
  /\ Idle.pc = "idle" /\ Idle.presented = NoJwt
  /\ Idle.claims = NoClaims /\ Idle.minted = NoJwt /\ Idle.snap = {}
BY DEF Idle, Handler, Pcs

\* An idle handler holds nothing the invariant speaks of.
LEMMA IdleInv ==
  ASSUME NEW h \in Requests, req'[h] = Idle
  PROVE  HandlerInv(h)'
BY IdleHandler DEF HandlerInv, LocalsOK, ServesOwner, Fresh, CreateOrigin, Issuing, Rotating

LEMMA IdleStep ==
  ASSUME IInv, NEW h \in Requests, req' = [req EXCEPT ![h] = Idle],
         UNCHANGED <<accounts, rows, origin, delivered, clock>>
  PROVE  IInv'
<1>1. req'[h] = Idle
  BY DEF IInv, TypeOK
<1>2. HandlerInv(h)'
  BY <1>1, IdleInv
<1>3. Idle.pc \notin Issuing \cup {"reply"}
  BY IdleHandler DEF Issuing
<1>4. QED
  BY <1>2, <1>3, LocalStep, IdleHandler

LEMMA InitInv == Init => IInv
<1> SUFFICES ASSUME Init PROVE IInv
  OBVIOUS
<1>1. TypeOK
  BY IdleHandler, ClockAssumption DEF Init, TypeOK
<1>2. \A h \in Requests : HandlerInv(h)
  BY IdleHandler DEF Init, HandlerInv, LocalsOK, ServesOwner, Fresh, CreateOrigin, Issuing, Rotating
<1>3. (\A jwt \in delivered : Stored(jwt)) /\ RowsOwned /\ RotationAtomic
  BY DEF Init, RowsOwned, RotationAtomic
<1>4. QED
  BY <1>1, <1>2, <1>3 DEF IInv

----------------------------------------------------------------------------
(* The steps that only change the handler that takes them *)

LEMMA StartLoginInv ==
  ASSUME IInv, NEW h \in Requests, NEW u \in Users, StartLogin(h, u)
  PROVE  IInv'
<1> DEFINE s == [Idle EXCEPT !.pc = "sign", !.claims = [sub |-> u, role |-> accounts[u]]]
<1>1. accounts[u] \in Roles
  BY DEF IInv, TypeOK, StartLogin
<1>2. s \in Handler /\ s.pc = "sign" /\ s.presented = NoJwt /\ s.claims \in Claims
  BY <1>1 DEF Idle, Handler, Pcs, Claims
<1>3. req' = [req EXCEPT ![h] = s] /\ req'[h] = s
  BY DEF StartLogin, IInv, TypeOK
<1> HIDE DEF s
<1>4. HandlerInv(h)'
  BY <1>2, <1>3 DEF HandlerInv, LocalsOK, ServesOwner, Fresh, CreateOrigin, Issuing, Rotating
<1>5. QED
  BY <1>2, <1>3, <1>4, LocalStep DEF StartLogin, Issuing

\* A request that arrives with a token it was sent, for a refresh or a logout.
LEMMA PresentInv ==
  ASSUME IInv, NEW h \in Requests, NEW jwt \in delivered, NEW label \in {"find", "revoke"},
         req' = [req EXCEPT ![h] = [Idle EXCEPT !.pc = label, !.presented = jwt]],
         UNCHANGED <<accounts, rows, origin, delivered, clock>>
  PROVE  IInv'
<1> DEFINE s == [Idle EXCEPT !.pc = label, !.presented = jwt]
<1>1. jwt \in Jwt
  BY DEF IInv, TypeOK
<1>2. s \in Handler /\ s.pc = label /\ s.presented = jwt
  BY <1>1 DEF Idle, Handler, Pcs
<1>3. req' = [req EXCEPT ![h] = s] /\ req'[h] = s
  BY DEF IInv, TypeOK
<1> HIDE DEF s
<1>4. HandlerInv(h)'
  BY <1>1, <1>2, <1>3 DEF HandlerInv, LocalsOK, ServesOwner, Fresh, CreateOrigin, Issuing, Rotating
<1>5. QED
  BY <1>2, <1>3, <1>4, LocalStep DEF Issuing

\* What a delivered token's row looks like when it is there.
LEMMA PresentedRow ==
  ASSUME IInv, NEW h \in Requests, req[h].presented # NoJwt
  PROVE  LET jwt == req[h].presented IN
         /\ jwt \in Jwt /\ jwt \in delivered /\ Stored(jwt)
         /\ rows[jwt.jti] # NoRow => rows[jwt.jti] \in Row /\ rows[jwt.jti].userId = jwt.sub
<1>1. req[h].presented \in delivered
  BY DEF IInv, HandlerInv, ServesOwner
<1>2. req[h].presented \in Jwt /\ Stored(req[h].presented)
  BY <1>1 DEF IInv, TypeOK
<1>3. rows[req[h].presented.jti] \in Row \cup {NoRow}
  BY <1>2 DEF IInv, TypeOK, Jwt
<1>4. QED
  BY <1>1, <1>2, <1>3 DEF Stored

LEMMA FindSpentInv ==
  ASSUME IInv, NEW h \in Requests, FindSpent(h)
  PROVE  IInv'
<1> DEFINE record == rows[req[h].presented.jti]
           s == [req[h] EXCEPT !.pc = "sweep", !.record = record]
<1>1. req[h] \in Handler /\ req[h].presented \in Jwt
  BY DEF IInv, TypeOK, FindSpent, At, HandlerInv, LocalsOK
<1>2. record \in Row /\ record.userId = req[h].presented.sub
  BY <1>1, PresentedRow, NullAssumption DEF FindSpent
<1>3. s \in Handler /\ s.pc = "sweep" /\ s.record = record /\ s.presented = req[h].presented
  BY <1>1, <1>2 DEF Handler, Pcs
<1>4. req' = [req EXCEPT ![h] = s] /\ req'[h] = s
  BY DEF FindSpent, IInv, TypeOK
<1>5. req[h].presented \in delivered
  BY <1>1, PresentedRow, NullAssumption
<1> HIDE DEF s, record
<1>6. HandlerInv(h)'
  BY <1>1, <1>2, <1>3, <1>4, <1>5
     DEF HandlerInv, LocalsOK, ServesOwner, Fresh, CreateOrigin, Issuing, Rotating, FindSpent
<1>7. QED
  BY <1>3, <1>4, <1>6, LocalStep DEF FindSpent, Issuing

LEMMA FindLiveInv ==
  ASSUME IInv, NEW h \in Requests, FindLive(h)
  PROVE  IInv'
<1> DEFINE jwt == req[h].presented
           c == [sub |-> jwt.sub, role |-> jwt.role]
           s == [req[h] EXCEPT !.pc = "sign", !.claims = c]
<1>1. req[h] \in Handler /\ jwt \in Jwt
  BY DEF IInv, TypeOK, FindLive, At, HandlerInv, LocalsOK
<1>2. c \in Claims /\ c.sub = jwt.sub
  BY <1>1 DEF Jwt, Claims
<1>3. jwt \in delivered
  BY <1>1, PresentedRow, NullAssumption
<1> HIDE DEF c
<1>4. s \in Handler /\ s.pc = "sign" /\ s.claims = c /\ s.presented = jwt
  BY <1>1, <1>2 DEF Handler, Pcs
<1>5. req' = [req EXCEPT ![h] = s] /\ req'[h] = s
  BY DEF FindLive, IInv, TypeOK, c
<1> HIDE DEF s, jwt
<1>6. HandlerInv(h)'
  BY <1>1, <1>2, <1>3, <1>4, <1>5
     DEF HandlerInv, LocalsOK, ServesOwner, Fresh, CreateOrigin, Issuing, Rotating, FindLive
<1>7. QED
  BY <1>4, <1>5, <1>6, LocalStep DEF FindLive, Issuing

LEMMA SweepInv ==
  ASSUME IInv, NEW h \in Requests, Sweep(h)
  PROVE  IInv'
<1> DEFINE snap == {t \in Tokens : Live(t) /\ rows[t].userId = req[h].record.userId}
           s == [req[h] EXCEPT !.pc = "sweeping", !.snap = snap]
<1>1. req[h] \in Handler /\ HandlerInv(h)
  BY DEF IInv, TypeOK
<1>2. snap \in SUBSET Tokens
  OBVIOUS
<1>3. req' = [req EXCEPT ![h] = s] /\ req'[h] = s
  BY DEF Sweep, IInv, TypeOK
<1> HIDE DEF snap
<1>4. /\ s \in Handler /\ s.pc = "sweeping"
      /\ s.presented = req[h].presented /\ s.record = req[h].record
  BY <1>1, <1>2 DEF Handler, Pcs
<1> HIDE DEF s
<1>5. HandlerInv(h)'
  BY <1>1, <1>3, <1>4
     DEF HandlerInv, LocalsOK, ServesOwner, Fresh, CreateOrigin, Issuing, Rotating, Sweep, At
<1>6. QED
  BY <1>3, <1>4, <1>5, LocalStep DEF Sweep, Issuing

LEMMA TxInsertInv ==
  ASSUME IInv, NEW h \in Requests, TxInsert(h)
  PROVE  IInv'
<1> DEFINE s == [req[h] EXCEPT !.pc = "update"]
<1>1. req[h] \in Handler /\ HandlerInv(h)
  BY DEF IInv, TypeOK
<1>2. req' = [req EXCEPT ![h] = s] /\ req'[h] = s
  BY DEF TxInsert, IInv, TypeOK
<1>3. /\ s \in Handler /\ s.pc = "update"
      /\ s.presented = req[h].presented /\ s.minted = req[h].minted
  BY <1>1 DEF Handler, Pcs
<1>4. \A k \in Requests \ {h} : req'[k] = req[k]
  BY <1>2 DEF IInv, TypeOK
<1> HIDE DEF s
<1>5. HandlerInv(h)'
  BY <1>1, <1>2, <1>3, <1>4
     DEF HandlerInv, LocalsOK, ServesOwner, Fresh, CreateOrigin, Issuing, Rotating, TxInsert, At
<1>6. QED
  BY <1>2, <1>3, <1>5, LocalStep DEF TxInsert, At, Issuing

LEMMA TxUpdateInv ==
  ASSUME IInv, NEW h \in Requests, TxUpdate(h)
  PROVE  IInv'
<1> DEFINE s == [req[h] EXCEPT !.pc = "commit"]
<1>1. req[h] \in Handler /\ HandlerInv(h)
  BY DEF IInv, TypeOK
<1>2. req' = [req EXCEPT ![h] = s] /\ req'[h] = s
  BY DEF TxUpdate, IInv, TypeOK
<1>3. /\ s \in Handler /\ s.pc = "commit"
      /\ s.presented = req[h].presented /\ s.minted = req[h].minted
  BY <1>1 DEF Handler, Pcs
<1>4. \A k \in Requests \ {h} : req'[k] = req[k]
  BY <1>2 DEF IInv, TypeOK
<1> HIDE DEF s
<1>5. HandlerInv(h)'
  BY <1>1, <1>2, <1>3, <1>4
     DEF HandlerInv, LocalsOK, ServesOwner, Fresh, CreateOrigin, Issuing, Rotating, TxUpdate, At
<1>6. QED
  BY <1>2, <1>3, <1>5, LocalStep DEF TxUpdate, At, Issuing

----------------------------------------------------------------------------
(* The steps that write refresh_tokens *)

LEMMA RevokeRows ==
  ASSUME IInv, NEW S \in SUBSET Tokens
  PROVE  /\ Revoke(S) \in [Tokens -> Row \cup {NoRow}]
         /\ \A t \in Tokens :
              /\ Revoke(S)[t] = NoRow <=> rows[t] = NoRow
              /\ rows[t] # NoRow => /\ Revoke(S)[t].userId = rows[t].userId
                                   /\ Revoke(S)[t].tokenHash = rows[t].tokenHash
                                   /\ Revoke(S)[t].replacedBy = rows[t].replacedBy
<1>1. ASSUME NEW t \in Tokens, rows[t] # NoRow
      PROVE  LET r == [rows[t] EXCEPT !.revoked = TRUE] IN
             /\ r \in Row /\ r # NoRow /\ r.revoked
             /\ r.userId = rows[t].userId /\ r.tokenHash = rows[t].tokenHash
             /\ r.replacedBy = rows[t].replacedBy
  <2>1. rows[t] \in Row
    BY <1>1 DEF IInv, TypeOK
  <2>2. [rows[t] EXCEPT !.revoked = TRUE] \in Row
    BY <2>1 DEF Row
  <2>3. QED
    BY <2>1, <2>2, NullAssumption DEF Row
<1>2. \A t \in Tokens : rows[t] \in Row \cup {NoRow}
  BY DEF IInv, TypeOK
<1>3. QED
  BY <1>1, <1>2 DEF Revoke

LEMMA RevokeKeeps ==
  ASSUME IInv, NEW S \in SUBSET Tokens, NEW t \in Tokens, rows[t] # NoRow, rows[t].revoked
  PROVE  Revoke(S)[t].revoked
<1>1. CASE t \in S
  <2>1. rows[t] \in Row
    BY DEF IInv, TypeOK
  <2>2. Revoke(S)[t] = [rows[t] EXCEPT !.revoked = TRUE]
    BY <1>1 DEF Revoke
  <2>3. QED
    BY <2>1, <2>2 DEF Row
<1>2. CASE t \notin S
  BY <1>2 DEF Revoke
<1>3. QED
  BY <1>1, <1>2

LEMMA RevokeStep ==
  ASSUME IInv, NEW h \in Requests, NEW S \in SUBSET Tokens, rows' = Revoke(S),
         req' = [req EXCEPT ![h] = Idle], UNCHANGED <<accounts, origin, delivered, clock>>
  PROVE  IInv'
<1>0. /\ rows' \in [Tokens -> Row \cup {NoRow}]
      /\ \A t \in Tokens :
           /\ rows'[t] = NoRow <=> rows[t] = NoRow
           /\ rows[t] # NoRow => /\ rows'[t].userId = rows[t].userId
                                /\ rows'[t].tokenHash = rows[t].tokenHash
                                /\ rows'[t].replacedBy = rows[t].replacedBy
  BY RevokeRows
<1>r. ASSUME NEW t \in Tokens, rows[t] # NoRow, rows[t].revoked PROVE rows'[t].revoked
  BY <1>r, RevokeKeeps
<1>1. /\ req' \in [Requests -> Handler]
      /\ req'[h] = Idle
      /\ \A k \in Requests \ {h} : req'[k] = req[k]
  BY IdleHandler DEF IInv, TypeOK
<1>2. TypeOK'
  BY <1>0, <1>1 DEF IInv, TypeOK
<1>3. ASSUME NEW jwt \in Jwt, Stored(jwt) PROVE Stored(jwt)'
  BY <1>0, <1>3 DEF Stored, Jwt
<1>4. ASSUME NEW k \in Requests \ {h} PROVE HandlerInv(k)'
  <2>1. HandlerInv(k) /\ req'[k] = req[k]
    BY <1>1 DEF IInv
  <2>2. LocalsOK(k)' /\ ServesOwner(k)' /\ CreateOrigin(k)'
    BY <2>1 DEF HandlerInv, LocalsOK, ServesOwner, CreateOrigin, Rotating
  <2>3. Fresh(k)'
    <3>1. req'[h].pc \notin Issuing \cup {"reply"}
      BY <1>1, IdleHandler DEF Issuing
    <3>2. req[k].pc \in Issuing => req[k].minted.jti \in Tokens
      BY <2>1 DEF HandlerInv, LocalsOK, Jwt
    <3>3. QED
      BY <1>1, <2>1, <3>1, <3>2, <1>0 DEF HandlerInv, Fresh
  <2>4. (req[k].pc = "reply" => Stored(req[k].minted))'
    BY <1>3, <2>1 DEF HandlerInv, LocalsOK
  <2>5. QED
    BY <2>2, <2>3, <2>4 DEF HandlerInv
<1>5. \A k \in Requests : HandlerInv(k)'
  BY <1>1, <1>4, IdleInv
<1>6. (\A jwt \in delivered : Stored(jwt))'
  BY <1>3 DEF IInv, TypeOK
<1>7. RowsOwned'
  BY <1>0 DEF IInv, RowsOwned
<1>8. RotationAtomic'
  <2>1. \A t \in Tokens : rows[t] # NoRow /\ rows[t].replacedBy # NoToken =>
          rows[t].replacedBy \in Tokens
    BY DEF IInv, TypeOK, Row
  <2>2. ASSUME NEW t \in Tokens, rows'[t] # NoRow, origin'[t] \in Tokens
        PROVE  LET old == rows'[origin'[t]] IN
               old # NoRow /\ old.revoked /\ old.replacedBy # NoToken /\ old.userId = rows'[t].userId
    <3> DEFINE p == origin[t]
    <3>1. p \in Tokens /\ rows[t] # NoRow /\ origin' = origin
      BY <1>0, <2>2
    <3>2. rows[p] # NoRow /\ rows[p].revoked /\ rows[p].replacedBy # NoToken
          /\ rows[p].userId = rows[t].userId
      BY <3>1 DEF IInv, RotationAtomic
    <3>3. rows'[p] # NoRow /\ rows'[p].replacedBy # NoToken /\ rows'[p].userId = rows'[t].userId
      BY <1>0, <3>1, <3>2
    <3>4. rows'[p].revoked
      BY <1>r, <3>1, <3>2
    <3>5. QED
      BY <3>1, <3>3, <3>4
  <2>3. ASSUME NEW t \in Tokens, rows'[t] # NoRow, rows'[t].replacedBy # NoToken
        PROVE  LET new == rows'[t].replacedBy IN
               rows'[t].revoked /\ rows'[new] # NoRow /\ origin'[new] = t
    <3> DEFINE n == rows[t].replacedBy
    <3>1. rows[t] # NoRow /\ rows'[t].replacedBy = n /\ n # NoToken /\ origin' = origin
      BY <1>0, <2>3
    <3>2. rows[t].revoked /\ rows[n] # NoRow /\ origin[n] = t /\ n \in Tokens
      BY <2>1, <3>1 DEF IInv, RotationAtomic
    <3>3. rows'[t].revoked /\ rows'[n] # NoRow
      BY <1>0, <1>r, <3>1, <3>2
    <3>4. QED
      BY <3>1, <3>2, <3>3
  <2>4. QED
    BY <2>2, <2>3 DEF RotationAtomic
<1>9. QED
  BY <1>2, <1>5, <1>6, <1>7, <1>8 DEF IInv

LEMMA SignInv ==
  ASSUME IInv, NEW h \in Requests, NEW t \in Tokens, Sign(h, t)
  PROVE  IInv'
<1> DEFINE c == req[h].claims
           new == [jti |-> t, sub |-> c.sub, role |-> c.role, exp |-> clock + RefreshTtl]
           label == IF Rotating(h) THEN "insert" ELSE "create"
           from == IF Rotating(h) THEN req[h].presented.jti ELSE NoToken
           s == [req[h] EXCEPT !.pc = label, !.minted = new]
<1>1. /\ req[h] \in Handler /\ HandlerInv(h) /\ req[h].pc = "sign" /\ c \in Claims
      /\ origin[t] = Unsigned
  BY DEF IInv, TypeOK, Sign, At, HandlerInv, LocalsOK
<1>2. new \in Jwt /\ new.jti = t /\ new.sub = c.sub
  BY <1>1, ClockAssumption DEF Claims, Jwt, IInv, TypeOK
<1>3. Rotating(h) => req[h].presented \in Jwt /\ req[h].presented.jti \in Tokens
  BY <1>1 DEF Rotating, Handler, Jwt
<1>4. from \in Tokens \cup {NoToken} /\ from # Unsigned
  BY <1>3, NullAssumption
<1>5. /\ req' = [req EXCEPT ![h] = s]
      /\ origin' = [origin EXCEPT ![t] = from]
      /\ UNCHANGED <<accounts, rows, delivered, clock>>
  BY DEF Sign, IInv, TypeOK
<1>6. label \in {"insert", "create"} /\ (label = "insert" <=> Rotating(h))
  OBVIOUS
<1>7. Rotating(h) => from = req[h].presented.jti
  OBVIOUS
<1>8. ~Rotating(h) => from = NoToken
  OBVIOUS
<1> HIDE DEF new, c, label, from
<1>9. s \in Handler /\ s.pc = label /\ s.minted = new /\ s.presented = req[h].presented
  BY <1>1, <1>2, <1>6 DEF Handler, Pcs
<1> HIDE DEF s
<1>10. /\ req' \in [Requests -> Handler]
       /\ req'[h] = s
       /\ \A k \in Requests \ {h} : req'[k] = req[k]
       /\ origin' \in [Tokens -> Tokens \cup {NoToken, Unsigned}]
       /\ origin'[t] = from
       /\ \A x \in Tokens \ {t} : origin'[x] = origin[x]
  BY <1>4, <1>5, <1>9 DEF IInv, TypeOK
<1>11. TypeOK'
  BY <1>5, <1>10 DEF IInv, TypeOK
<1>12. rows[t] = NoRow
  BY <1>1 DEF IInv, RowsOwned
<1>13. ASSUME NEW jwt \in Jwt, Stored(jwt) PROVE Stored(jwt)' /\ jwt.jti # t
  BY <1>1, <1>5, <1>10, <1>13 DEF Stored, Jwt
<1>14. (\A jwt \in delivered : Stored(jwt))' /\ (\A jwt \in delivered : jwt.jti # t)
  BY <1>5, <1>13 DEF IInv, TypeOK
<1>15. ASSUME NEW k \in Requests \ {h}, req[k].pc \in Issuing \cup {"reply"}
       PROVE  req[k].minted \in Jwt /\ req[k].minted.jti # t
  <2>1. HandlerInv(k) /\ req[k].minted \in Jwt
    BY <1>15 DEF IInv, HandlerInv, LocalsOK
  <2>2. CASE req[k].pc \in Issuing
    BY <1>1, <2>1, <2>2 DEF HandlerInv, Fresh
  <2>3. CASE req[k].pc = "reply"
    BY <1>13, <2>1, <2>3 DEF HandlerInv
  <2>4. QED
    BY <1>15, <2>1, <2>2, <2>3
<1>16. HandlerInv(h)'
  <2>1. LocalsOK(h)'
    BY <1>1, <1>2, <1>3, <1>6, <1>9, <1>10 DEF LocalsOK, Rotating, Issuing
  <2>2. ServesOwner(h)'
    BY <1>1, <1>2, <1>5, <1>6, <1>7, <1>9, <1>10 DEF HandlerInv, ServesOwner, Rotating, c
  <2>3. Fresh(h)'
    BY <1>2, <1>4, <1>5, <1>9, <1>10, <1>12, <1>14, <1>15 DEF Fresh
  <2>4. CreateOrigin(h)'
    BY <1>2, <1>6, <1>8, <1>9, <1>10 DEF CreateOrigin
  <2>5. QED
    BY <1>6, <1>9, <1>10, <2>1, <2>2, <2>3, <2>4 DEF HandlerInv
<1>17. ASSUME NEW k \in Requests \ {h} PROVE HandlerInv(k)'
  <2>1. HandlerInv(k) /\ req'[k] = req[k]
    BY <1>10 DEF IInv
  <2>2. LocalsOK(k)'
    BY <2>1 DEF HandlerInv, LocalsOK
  <2>3. req[k].pc \in Issuing \cup {"reply"} =>
          req[k].minted \in Jwt /\ origin'[req[k].minted.jti] = origin[req[k].minted.jti]
    BY <1>10, <1>15 DEF Jwt
  <2>4. ServesOwner(k)' /\ CreateOrigin(k)'
    BY <1>5, <2>1, <2>3 DEF HandlerInv, ServesOwner, CreateOrigin, Rotating, Issuing
  <2>5. Fresh(k)'
    BY <1>2, <1>5, <1>9, <1>10, <1>15, <2>1, <2>3 DEF HandlerInv, Fresh
  <2>6. (req[k].pc = "reply" => Stored(req[k].minted))'
    BY <1>13, <1>15, <2>1 DEF HandlerInv
  <2>7. QED
    BY <2>2, <2>4, <2>5, <2>6 DEF HandlerInv
<1>18. RowsOwned'
  BY <1>5, <1>10, <1>12 DEF IInv, RowsOwned
<1>19. RotationAtomic'
  BY <1>5, <1>10, <1>12 DEF IInv, RotationAtomic
<1>20. QED
  BY <1>11, <1>14, <1>16, <1>17, <1>18, <1>19 DEF IInv

\* Storing the row of the token a handler has signed, at a login or a rotation.
LEMMA StoreStep ==
  ASSUME IInv, NEW h \in Requests, req[h].pc \in {"create", "commit"},
         accounts[req[h].minted.sub] # Gone,
         req' = [req EXCEPT ![h] = [req[h] EXCEPT !.pc = "reply"]],
         rows' \in [Tokens -> Row \cup {NoRow}],
         rows'[req[h].minted.jti] = NewRow(req[h].minted),
         \A t \in Tokens \ {req[h].minted.jti} :
           /\ rows'[t] = NoRow <=> rows[t] = NoRow
           /\ rows[t] # NoRow => /\ rows'[t].userId = rows[t].userId
                                /\ rows'[t].tokenHash = rows[t].tokenHash,
         UNCHANGED <<accounts, origin, delivered, clock>>,
         RotationAtomic'
  PROVE  IInv'
<1> DEFINE new == req[h].minted
           s == [req[h] EXCEPT !.pc = "reply"]
<1>1. /\ req[h] \in Handler /\ HandlerInv(h) /\ req[h].pc \in Issuing
      /\ new \in Jwt /\ new.jti \in Tokens /\ new.sub \in Users
  BY DEF IInv, TypeOK, HandlerInv, LocalsOK, Issuing, Jwt
<1>2. NewRow(new) \in Row /\ NewRow(new) # NoRow
  <2>1. NewRow(new) \in Row
    BY <1>1 DEF NewRow, Row, HashToken
  <2>2. QED
    BY <2>1, NullAssumption
<1>3. NewRow(new).userId = new.sub /\ NewRow(new).tokenHash = HashToken(new)
  BY DEF NewRow
<1>4. s \in Handler /\ s.pc = "reply" /\ s.minted = new /\ s.presented = req[h].presented
  BY <1>1 DEF Handler, Pcs
<1> HIDE DEF s
<1>5. /\ req' \in [Requests -> Handler]
      /\ req'[h] = s
      /\ \A k \in Requests \ {h} : req'[k] = req[k]
  BY <1>4 DEF IInv, TypeOK, s
<1>6. TypeOK'
  BY <1>5 DEF IInv, TypeOK
<1>7. Fresh(h)
  BY <1>1 DEF HandlerInv
<1>8. Stored(new)'
  BY <1>1, <1>2, <1>3, <1>7 DEF Stored, Fresh
<1>9. ASSUME NEW jwt \in Jwt, jwt.jti # new.jti, Stored(jwt) PROVE Stored(jwt)'
  <2>1. jwt.jti \in Tokens \ {new.jti}
    BY <1>9 DEF Jwt
  <2>2. QED
    BY <1>9, <2>1 DEF Stored
<1>10. (\A jwt \in delivered : Stored(jwt))'
  BY <1>1, <1>7, <1>9 DEF Fresh, IInv, TypeOK
<1>11. HandlerInv(h)'
  BY <1>1, <1>4, <1>5, <1>8
     DEF HandlerInv, LocalsOK, ServesOwner, Fresh, CreateOrigin, Issuing, Rotating
<1>12. ASSUME NEW k \in Requests \ {h} PROVE HandlerInv(k)'
  <2>1. HandlerInv(k) /\ req'[k] = req[k]
    BY <1>5 DEF IInv
  <2>2. LocalsOK(k)' /\ ServesOwner(k)' /\ CreateOrigin(k)'
    BY <2>1 DEF HandlerInv, LocalsOK, ServesOwner, CreateOrigin, Rotating
  <2>3. req[k].pc \in Issuing \cup {"reply"} =>
          req[k].minted \in Jwt /\ req[k].minted.jti \in Tokens \ {new.jti}
    BY <1>1, <1>7, <2>1 DEF HandlerInv, LocalsOK, Fresh, Jwt
  <2>4. Fresh(k)'
    BY <1>1, <1>4, <1>5, <2>1, <2>3 DEF HandlerInv, Fresh
  <2>5. (req[k].pc = "reply" => Stored(req[k].minted))'
    BY <1>9, <2>1, <2>3 DEF HandlerInv
  <2>6. QED
    BY <2>2, <2>4, <2>5 DEF HandlerInv
<1>13. RowsOwned'
  <2>1. ASSUME NEW t \in Tokens, rows'[t] # NoRow
        PROVE  origin[t] # Unsigned /\ accounts[rows'[t].userId] # Gone
    <3>1. CASE t = new.jti
      BY <1>1, <1>3, <1>7, <3>1 DEF Fresh
    <3>2. CASE t # new.jti
      BY <2>1, <3>2 DEF IInv, RowsOwned
    <3>3. QED
      BY <3>1, <3>2
  <2>2. QED
    BY <2>1 DEF RowsOwned
<1>14. QED
  BY <1>6, <1>10, <1>11, <1>12, <1>13 DEF IInv

LEMMA CreateInv ==
  ASSUME IInv, NEW h \in Requests, Create(h)
  PROVE  IInv'
<1> DEFINE new == req[h].minted
<1>1. /\ req[h].pc = "create" /\ accounts[new.sub] # Gone
      /\ rows' = [rows EXCEPT ![new.jti] = NewRow(new)]
      /\ UNCHANGED <<accounts, origin, delivered, clock>>
      /\ req' = [req EXCEPT ![h] = [req[h] EXCEPT !.pc = "reply"]]
  BY DEF Create, At, IInv, TypeOK
<1>2. new \in Jwt /\ new.jti \in Tokens
  BY <1>1 DEF IInv, HandlerInv, LocalsOK, Issuing, Jwt
<1>3. rows[new.jti] = NoRow /\ origin[new.jti] = NoToken
  BY <1>1 DEF IInv, HandlerInv, Fresh, CreateOrigin, Issuing
<1>4. NewRow(new) \in Row /\ NewRow(new).replacedBy = NoToken
  BY <1>2 DEF NewRow, Row, HashToken, Jwt
<1>5. /\ rows' \in [Tokens -> Row \cup {NoRow}]
      /\ rows'[new.jti] = NewRow(new)
      /\ \A t \in Tokens \ {new.jti} : rows'[t] = rows[t]
  BY <1>1, <1>2, <1>4 DEF IInv, TypeOK
<1>6. RotationAtomic'
  BY <1>1, <1>2, <1>3, <1>4, <1>5, NullAssumption DEF IInv, RotationAtomic
<1>7. QED
  BY <1>1, <1>5, <1>6, StoreStep

LEMMA TxCommitInv ==
  ASSUME IInv, NEW h \in Requests, TxCommit(h)
  PROVE  IInv'
<1> DEFINE new == req[h].minted
           old == req[h].presented.jti
           spent == [rows[old] EXCEPT !.revoked = TRUE, !.replacedBy = new.jti]
<1>1. /\ req[h].pc = "commit"
      /\ rows' = [rows EXCEPT ![new.jti] = NewRow(new),
                              ![old] = [@ EXCEPT !.revoked = TRUE, !.replacedBy = new.jti]]
      /\ UNCHANGED <<accounts, origin, delivered, clock>>
      /\ req' = [req EXCEPT ![h] = [req[h] EXCEPT !.pc = "reply"]]
  BY DEF TxCommit, At, IInv, TypeOK
<1>2. /\ new \in Jwt /\ new.jti \in Tokens
      /\ req[h].presented \in Jwt /\ old \in Tokens
  BY <1>1 DEF IInv, HandlerInv, LocalsOK, Issuing, Jwt
<1>3. /\ accounts[new.sub] # Gone /\ new.sub = req[h].presented.sub
      /\ origin[new.jti] = old /\ rows[new.jti] = NoRow
  BY <1>1 DEF IInv, HandlerInv, ServesOwner, Fresh, Issuing
<1>4. rows[old] \in Row /\ rows[old] # NoRow /\ rows[old].userId = new.sub
  BY <1>2, <1>3, PresentedRow, NullAssumption DEF Stored
<1>5. old # new.jti
  BY <1>3, <1>4
<1>6. /\ spent \in Row /\ spent # NoRow /\ spent.userId = rows[old].userId
      /\ spent.tokenHash = rows[old].tokenHash /\ spent.replacedBy = new.jti
      /\ spent.revoked
  <2>1. spent \in Row
    BY <1>2, <1>4 DEF Row
  <2>2. /\ spent.userId = rows[old].userId /\ spent.tokenHash = rows[old].tokenHash
        /\ spent.replacedBy = new.jti /\ spent.revoked
    BY <1>4 DEF Row
  <2>3. QED
    BY <2>1, <2>2, NullAssumption
<1>7. NewRow(new) \in Row /\ NewRow(new).replacedBy = NoToken /\ NewRow(new).userId = new.sub
  BY <1>2 DEF NewRow, Row, HashToken, Jwt
<1> HIDE DEF spent
<1>8. /\ rows' \in [Tokens -> Row \cup {NoRow}]
      /\ rows'[new.jti] = NewRow(new)
      /\ rows'[old] = spent
      /\ \A t \in Tokens \ {new.jti, old} : rows'[t] = rows[t]
  BY <1>1, <1>2, <1>5, <1>6, <1>7 DEF IInv, TypeOK, spent
<1>9. RotationAtomic'
  <2> SUFFICES ASSUME NEW t \in Tokens, rows'[t] # NoRow
               PROVE  /\ origin[t] \in Tokens =>
                           LET p == rows'[origin[t]] IN
                           p # NoRow /\ p.revoked /\ p.replacedBy # NoToken
                             /\ p.userId = rows'[t].userId
                      /\ rows'[t].replacedBy # NoToken =>
                           LET n == rows'[t].replacedBy IN
                           rows'[t].revoked /\ rows'[n] # NoRow /\ origin[n] = t
    BY <1>1 DEF RotationAtomic
  <2>1. CASE t = new.jti
    BY <1>2, <1>3, <1>4, <1>6, <1>7, <1>8, <2>1, NullAssumption
  <2>2. CASE t = old
    <3>1. origin[old] \in Tokens =>
            /\ rows[origin[old]] # NoRow /\ rows[origin[old]].revoked
            /\ rows[origin[old]].replacedBy # NoToken
            /\ rows[origin[old]].userId = rows[old].userId
      BY <1>2, <1>4 DEF IInv, RotationAtomic
    <3>2. rows'[new.jti] # NoRow
      BY <1>7, <1>8, NullAssumption
    <3>3. QED
      BY <1>2, <1>3, <1>4, <1>6, <1>8, <2>2, <3>1, <3>2, NullAssumption
  <2>3. CASE t \notin {new.jti, old}
    <3>1. /\ rows'[t] = rows[t]
          /\ origin[t] \in Tokens =>
               /\ rows[origin[t]] # NoRow /\ rows[origin[t]].revoked
               /\ rows[origin[t]].replacedBy # NoToken
               /\ rows[origin[t]].userId = rows[t].userId
          /\ rows[t].replacedBy # NoToken =>
               /\ rows[t].revoked /\ rows[rows[t].replacedBy] # NoRow
               /\ origin[rows[t].replacedBy] = t
      BY <1>8, <2>3 DEF IInv, RotationAtomic
    <3>2. rows[t].replacedBy # NoToken => rows[t].replacedBy \in Tokens
      BY <3>1 DEF IInv, TypeOK, Row
    <3>3. QED
      BY <1>2, <1>3, <1>4, <1>6, <1>8, <3>1, <3>2, NullAssumption
  <2>4. QED
    BY <2>1, <2>2, <2>3
<1>10. \A t \in Tokens \ {new.jti} :
         /\ rows'[t] = NoRow <=> rows[t] = NoRow
         /\ rows[t] # NoRow => /\ rows'[t].userId = rows[t].userId
                              /\ rows'[t].tokenHash = rows[t].tokenHash
  BY <1>4, <1>6, <1>8
<1>11. QED
  BY <1>1, <1>3, <1>8, <1>9, <1>10, StoreStep

----------------------------------------------------------------------------
(* The reply and the environment *)

LEMMA ReplyInv ==
  ASSUME IInv, NEW h \in Requests, Reply(h)
  PROVE  IInv'
<1> DEFINE new == req[h].minted
<1>1. /\ req[h].pc = "reply" /\ delivered' = delivered \cup {new}
      /\ req' = [req EXCEPT ![h] = Idle]
      /\ UNCHANGED <<accounts, rows, origin, clock>>
  BY DEF Reply, At
<1>2. new \in Jwt /\ Stored(new)
  BY <1>1 DEF IInv, HandlerInv, LocalsOK
<1>3. /\ req' \in [Requests -> Handler]
      /\ req'[h] = Idle
      /\ \A k \in Requests \ {h} : req'[k] = req[k]
  BY <1>1, IdleHandler DEF IInv, TypeOK
<1>4. TypeOK'
  BY <1>1, <1>2, <1>3 DEF IInv, TypeOK
<1>5. ASSUME NEW jwt, Stored(jwt) PROVE Stored(jwt)'
  BY <1>1, <1>5 DEF Stored
<1>6. (\A jwt \in delivered : Stored(jwt))'
  BY <1>1, <1>2, <1>5 DEF IInv
<1>7. ASSUME NEW k \in Requests \ {h} PROVE HandlerInv(k)'
  <2>1. HandlerInv(k) /\ req'[k] = req[k]
    BY <1>3 DEF IInv
  <2>2. LocalsOK(k)' /\ ServesOwner(k)' /\ CreateOrigin(k)'
    BY <1>1, <2>1 DEF HandlerInv, LocalsOK, ServesOwner, CreateOrigin, Rotating
  <2>3. Fresh(k)'
    <3>1. req'[h].pc \notin Issuing \cup {"reply"}
      BY <1>3, IdleHandler DEF Issuing
    <3>2. req[k].pc \in Issuing => new.jti # req[k].minted.jti
      BY <1>1, <2>1 DEF HandlerInv, Fresh
    <3>3. QED
      BY <1>1, <1>3, <2>1, <3>1, <3>2 DEF HandlerInv, Fresh
  <2>4. (req[k].pc = "reply" => Stored(req[k].minted))'
    BY <1>5, <2>1 DEF HandlerInv
  <2>5. QED
    BY <2>2, <2>3, <2>4 DEF HandlerInv
<1>8. \A k \in Requests : HandlerInv(k)'
  BY <1>3, <1>7, IdleInv
<1>9. RowsOwned' /\ RotationAtomic'
  BY <1>1 DEF IInv, RowsOwned, RotationAtomic
<1>10. QED
  BY <1>4, <1>6, <1>8, <1>9 DEF IInv

LEMMA RestartInv == IInv /\ Restart => IInv'
<1> SUFFICES ASSUME IInv, Restart PROVE IInv'
  OBVIOUS
<1>1. TypeOK'
  BY IdleHandler DEF IInv, TypeOK, Restart
<1>2. \A h \in Requests : HandlerInv(h)'
  BY IdleInv DEF Restart
<1>3. (\A jwt \in delivered : Stored(jwt))' /\ RowsOwned' /\ RotationAtomic'
  BY DEF Restart, IInv, Stored, RowsOwned, RotationAtomic
<1>4. QED
  BY <1>1, <1>2, <1>3 DEF IInv

LEMMA ChangeRoleInv ==
  ASSUME IInv, NEW u \in Users, NEW r \in Roles, ChangeRole(u, r)
  PROVE  IInv'
<1>1. /\ accounts' \in [Users -> Roles \cup {Gone}]
      /\ \A v \in Users : accounts'[v] = Gone <=> accounts[v] = Gone
      /\ UNCHANGED <<rows, origin, delivered, clock, req>>
  BY NullAssumption DEF ChangeRole, IInv, TypeOK
<1>2. TypeOK'
  BY <1>1 DEF IInv, TypeOK
<1>3. ASSUME NEW jwt \in Jwt, Stored(jwt) PROVE Stored(jwt)'
  BY <1>1, <1>3 DEF Stored, Jwt
<1>4. ASSUME NEW h \in Requests PROVE HandlerInv(h)'
  <2>1. HandlerInv(h) /\ (req[h].pc \in Issuing \cup {"reply"} =>
                           req[h].minted \in Jwt /\ req[h].minted.sub \in Users)
    BY DEF IInv, HandlerInv, LocalsOK, Jwt
  <2>2. LocalsOK(h)' /\ Fresh(h)' /\ CreateOrigin(h)'
    BY <1>1, <2>1 DEF HandlerInv, LocalsOK, Fresh, CreateOrigin
  <2>3. ServesOwner(h)'
    BY <1>1, <2>1 DEF HandlerInv, ServesOwner, Rotating, Issuing
  <2>4. (req[h].pc = "reply" => Stored(req[h].minted))'
    BY <1>1, <1>3, <2>1 DEF HandlerInv
  <2>5. QED
    BY <2>2, <2>3, <2>4 DEF HandlerInv
<1>5. (\A jwt \in delivered : Stored(jwt))'
  BY <1>1, <1>3 DEF IInv, TypeOK
<1>6. RowsOwned' /\ RotationAtomic'
  <2>1. \A t \in Tokens : rows[t] # NoRow => rows[t].userId \in Users
    BY DEF IInv, TypeOK, Row
  <2>2. QED
    BY <1>1, <2>1 DEF IInv, RowsOwned, RotationAtomic
<1>7. QED
  BY <1>2, <1>4, <1>5, <1>6 DEF IInv

LEMMA DeleteUserInv ==
  ASSUME IInv, NEW u \in Users, DeleteUser(u)
  PROVE  IInv'
<1>1. /\ accounts' \in [Users -> Roles \cup {Gone}]
      /\ accounts'[u] = Gone
      /\ \A v \in Users \ {u} : accounts'[v] = accounts[v]
      /\ UNCHANGED <<origin, delivered, clock, req>>
  BY DEF DeleteUser, IInv, TypeOK
<1>2. /\ rows' \in [Tokens -> Row \cup {NoRow}]
      /\ \A t \in Tokens : rows[t] # NoRow /\ rows[t].userId # u => rows'[t] = rows[t]
      /\ \A t \in Tokens : rows'[t] # NoRow => rows'[t] = rows[t] /\ rows[t].userId # u
  BY DEF DeleteUser, IInv, TypeOK
<1>3. TypeOK'
  BY <1>1, <1>2 DEF IInv, TypeOK
<1>4. ASSUME NEW jwt \in Jwt, Stored(jwt) PROVE Stored(jwt)'
  BY <1>1, <1>2, <1>4 DEF Stored, Jwt
<1>5. ASSUME NEW h \in Requests PROVE HandlerInv(h)'
  <2>1. HandlerInv(h) /\ (req[h].pc \in Issuing \cup {"reply"} =>
           req[h].minted \in Jwt /\ req[h].minted.sub \in Users /\ req[h].minted.jti \in Tokens)
    BY DEF IInv, HandlerInv, LocalsOK, Jwt
  <2>2. req[h].pc \in {"update", "commit"} => req[h].minted.sub # u
    BY DEF DeleteUser, Referenced
  <2>3. LocalsOK(h)' /\ CreateOrigin(h)'
    BY <1>1, <2>1 DEF HandlerInv, LocalsOK, CreateOrigin
  <2>4. Fresh(h)'
    BY <1>1, <1>2, <2>1 DEF HandlerInv, Fresh
  <2>5. ServesOwner(h)'
    BY <1>1, <2>1, <2>2 DEF HandlerInv, ServesOwner, Rotating, Issuing
  <2>6. (req[h].pc = "reply" => Stored(req[h].minted))'
    BY <1>1, <1>4, <2>1 DEF HandlerInv
  <2>7. QED
    BY <2>3, <2>4, <2>5, <2>6 DEF HandlerInv
<1>6. (\A jwt \in delivered : Stored(jwt))'
  BY <1>1, <1>4 DEF IInv, TypeOK
<1>7. RowsOwned'
  <2>1. \A t \in Tokens : rows[t] # NoRow => rows[t].userId \in Users
    BY DEF IInv, TypeOK, Row
  <2>2. QED
    BY <1>1, <1>2, <2>1 DEF IInv, RowsOwned
<1>8. RotationAtomic'
  <2> SUFFICES ASSUME NEW t \in Tokens, rows'[t] # NoRow
               PROVE  /\ origin[t] \in Tokens =>
                           LET p == rows'[origin[t]] IN
                           p # NoRow /\ p.revoked /\ p.replacedBy # NoToken
                             /\ p.userId = rows'[t].userId
                      /\ rows'[t].replacedBy # NoToken =>
                           LET n == rows'[t].replacedBy IN
                           rows'[t].revoked /\ rows'[n] # NoRow /\ origin[n] = t
    BY <1>1 DEF RotationAtomic
  <2>1. rows'[t] = rows[t] /\ rows[t] # NoRow /\ rows[t].userId # u
    BY <1>2
  <2>2. origin[t] \in Tokens =>
          /\ rows[origin[t]] # NoRow /\ rows[origin[t]].revoked
          /\ rows[origin[t]].replacedBy # NoToken
          /\ rows[origin[t]].userId = rows[t].userId
    BY <2>1 DEF IInv, RotationAtomic
  <2>3. rows[t].replacedBy # NoToken =>
          LET n == rows[t].replacedBy IN
          rows[t].revoked /\ rows[n] # NoRow /\ origin[n] = t /\ n \in Tokens
    BY <2>1 DEF IInv, TypeOK, Row, RotationAtomic
  <2>4. rows[t].replacedBy # NoToken => rows[rows[t].replacedBy].userId = rows[t].userId
    BY <2>3 DEF IInv, RotationAtomic
  <2>5. QED
    BY <1>2, <2>1, <2>2, <2>3, <2>4
<1>9. QED
  BY <1>3, <1>5, <1>6, <1>7, <1>8 DEF IInv

LEMMA FrameInv ==   \* Tick, and steps that change nothing
  ASSUME IInv, clock' \in 0..MaxClock, UNCHANGED <<accounts, rows, origin, delivered, req>>
  PROVE  IInv'
BY DEF IInv, TypeOK, HandlerInv, LocalsOK, ServesOwner, Fresh, CreateOrigin, Stored,
       RowsOwned, RotationAtomic, Rotating

----------------------------------------------------------------------------
(* The theorems *)

\* Every step of the system preserves the inductive invariant.
LEMMA NextInv == IInv /\ [Next]_vars => IInv'
<1> SUFFICES ASSUME IInv, [Next]_vars PROVE IInv'
  OBVIOUS
<1>1. ASSUME NEW h \in Requests, NEW u \in Users, StartLogin(h, u) PROVE IInv'
  BY <1>1, StartLoginInv
<1>2. ASSUME NEW h \in Requests, NEW jwt \in delivered,
             StartRefresh(h, jwt) \/ StartLogout(h, jwt)
      PROVE  IInv'
  BY <1>2, PresentInv DEF StartRefresh, StartLogout
<1>3. ASSUME NEW h \in Requests, FindUnknown(h) \/ ForeignKeyViolation(h) \/ DbFailure(h)
      PROVE  IInv'
  BY <1>3, IdleStep DEF FindUnknown, ForeignKeyViolation, DbFailure
<1>4. ASSUME NEW h \in Requests, FindSpent(h) \/ FindLive(h) \/ Sweep(h)
      PROVE  IInv'
  BY <1>4, FindSpentInv, FindLiveInv, SweepInv
<1>5. ASSUME NEW h \in Requests, SweepDone(h) PROVE IInv'
  <2>1. req[h].snap \in SUBSET Tokens
    BY DEF IInv, TypeOK, Handler
  <2>2. QED
    BY <1>5, <2>1, RevokeStep DEF SweepDone
<1>6. ASSUME NEW h \in Requests, LogoutRevoke(h) PROVE IInv'
  <2>1. {req[h].presented.jti} \in SUBSET Tokens
    BY <1>6 DEF LogoutRevoke, At, IInv, HandlerInv, LocalsOK, Jwt
  <2>2. QED
    BY <1>6, <2>1, RevokeStep DEF LogoutRevoke
<1>7. ASSUME NEW h \in Requests, NEW t \in Tokens, Sign(h, t) PROVE IInv'
  BY <1>7, SignInv
<1>8. ASSUME NEW h \in Requests,
             Create(h) \/ TxInsert(h) \/ TxUpdate(h) \/ TxCommit(h) \/ Reply(h)
      PROVE  IInv'
  BY <1>8, CreateInv, TxInsertInv, TxUpdateInv, TxCommitInv, ReplyInv
<1>9. ASSUME NEW u \in Users, DeleteUser(u) PROVE IInv'
  BY <1>9, DeleteUserInv
<1>10. ASSUME NEW u \in Users, NEW r \in Roles, ChangeRole(u, r) PROVE IInv'
  BY <1>10, ChangeRoleInv
<1>11. ASSUME Restart PROVE IInv'
  BY <1>11, RestartInv
<1>12. ASSUME Tick \/ UNCHANGED vars PROVE IInv'
  <2>1. clock' \in 0..MaxClock
    BY <1>12, ClockAssumption DEF Tick, vars, IInv, TypeOK
  <2>2. QED
    BY <1>12, <2>1, FrameInv DEF Tick, vars
<1>13. QED
  BY <1>1, <1>2, <1>3, <1>4, <1>5, <1>6, <1>7, <1>8, <1>9, <1>10, <1>11, <1>12
     DEF Next, Arrive, Step, Environment

\* IInv holds in every reachable state.
THEOREM InductiveInvariant == Spec => []IInv
<1>1. Init => IInv
  BY InitInv
<1>2. IInv /\ [Next]_vars => IInv'
  BY NextInv
<1>3. QED
  BY <1>1, <1>2, PTL DEF Spec

\* Rows, tokens and handler locals keep to their domains.
THEOREM TypeCorrect == Spec => []TypeOK
<1>1. IInv => TypeOK
  BY DEF IInv
<1>2. QED
  BY <1>1, InductiveInvariant, PTL

\* The transaction of rotate leaves no orphaned replacement and no old token that
\* still looks unused, whatever runs between its statements and wherever it fails.
THEOREM RotationIsAtomic == Spec => []RotationAtomic
<1>1. IInv => RotationAtomic
  BY DEF IInv
<1>2. QED
  BY <1>1, InductiveInvariant, PTL

\* A token a client was sent keeps its row, owner and hash: the hash-mismatch branch
\* of refresh is not taken for it.
THEOREM DeliveredIsAuthentic == Spec => []DeliveredAuthentic
<1>1. IInv => DeliveredAuthentic
  BY DEF IInv, DeliveredAuthentic, Stored, RowsOwned
<1>2. QED
  BY <1>1, InductiveInvariant, PTL

----------------------------------------------------------------------------
(* What a step can do to a handler, to the origin of a token and to its row *)

\* Where a step can leave a handler: outside of a login or an exchange of a token, where
\* it was, at the start of a login, past the check, on its way from there with the token
\* it presented, or with a jti it has just taken for a login.
Moves(h) ==
  \/ req'[h].pc \notin TicketPcs \cup {"create"}
  \/ req'[h] = req[h]
  \/ req'[h].pc = "sign" /\ req'[h].presented = NoJwt
  \/ FindLive(h) /\ req'[h].pc = "sign" /\ req'[h].presented = req[h].presented
  \/ Checked(h) /\ req'[h].pc \in TicketPcs /\ req'[h].presented = req[h].presented
  \/ \E t \in Tokens : Sign(h, t) /\ ~Rotating(h) /\ req'[h].pc = "create" /\ req'[h].minted.jti = t

LEMMA HandlerMoves ==
  ASSUME IInv, [Next]_vars, NEW h \in Requests
  PROVE  Moves(h)
<1>1. req \in [Requests -> Handler] /\ req[h] \in Handler
  BY DEF IInv, TypeOK
<1>2. ASSUME NEW k \in Requests, k # h, NEW s, req' = [req EXCEPT ![k] = s] PROVE Moves(h)
  BY <1>1, <1>2 DEF Moves
<1>3. ASSUME NEW s, req' = [req EXCEPT ![h] = s], s.pc \notin TicketPcs \cup {"create"}
      PROVE  Moves(h)
  BY <1>1, <1>3 DEF Moves
<1>4. Idle.pc \notin TicketPcs \cup {"create"}
  BY IdleHandler DEF TicketPcs
<1>5. ASSUME NEW k \in Requests, NEW u \in Users, StartLogin(k, u) PROVE Moves(h)
  <2> DEFINE s == [Idle EXCEPT !.pc = "sign", !.claims = [sub |-> u, role |-> accounts[u]]]
  <2>1. req' = [req EXCEPT ![k] = s] /\ s.pc = "sign" /\ s.presented = NoJwt
    BY <1>5 DEF StartLogin, Idle
  <2> HIDE DEF s
  <2>2. QED
    BY <1>1, <1>2, <2>1 DEF Moves
<1>6. ASSUME NEW k \in Requests, NEW jwt, StartRefresh(k, jwt) \/ StartLogout(k, jwt)
      PROVE  Moves(h)
  <2>1. \A label \in {"find", "revoke"} :
          [Idle EXCEPT !.pc = label, !.presented = jwt].pc \notin TicketPcs \cup {"create"}
    BY DEF Idle, TicketPcs
  <2>2. CASE StartRefresh(k, jwt)
    BY <1>2, <1>3, <2>1, <2>2 DEF StartRefresh
  <2>3. CASE StartLogout(k, jwt)
    BY <1>2, <1>3, <2>1, <2>3 DEF StartLogout
  <2>4. QED
    BY <1>6, <2>2, <2>3
<1>7. ASSUME NEW k \in Requests,
             \/ FindUnknown(k) \/ SweepDone(k) \/ LogoutRevoke(k)
             \/ ForeignKeyViolation(k) \/ Reply(k) \/ DbFailure(k)
      PROVE  Moves(h)
  <2>1. req' = [req EXCEPT ![k] = Idle]
    BY <1>7 DEF FindUnknown, SweepDone, LogoutRevoke, ForeignKeyViolation, Reply, DbFailure
  <2>2. QED
    BY <1>2, <1>3, <1>4, <2>1
<1>8. ASSUME NEW k \in Requests, FindSpent(k) \/ Sweep(k) \/ Create(k) \/ TxCommit(k)
      PROVE  Moves(h)
  <2>1. req'[k].pc \notin TicketPcs \cup {"create"}
    BY <1>1, <1>8 DEF FindSpent, Sweep, Create, TxCommit, Handler, TicketPcs
  <2>2. k # h => req'[h] = req[h]
    BY <1>1, <1>8 DEF FindSpent, Sweep, Create, TxCommit
  <2>3. QED
    BY <2>1, <2>2 DEF Moves
<1>9. ASSUME NEW k \in Requests, TxInsert(k) \/ TxUpdate(k) PROVE Moves(h)
  <2>1. /\ req[k].pc \in {"insert", "update"} /\ req'[k].pc \in TicketPcs
        /\ req'[k].presented = req[k].presented
    BY <1>1, <1>9 DEF TxInsert, TxUpdate, At, Handler, TicketPcs
  <2>2. req[k].presented # NoJwt
    BY <2>1, NullAssumption DEF IInv, HandlerInv, LocalsOK
  <2>3. k # h => req'[h] = req[h]
    BY <1>1, <1>9 DEF TxInsert, TxUpdate
  <2>4. QED
    BY <2>1, <2>2, <2>3 DEF Moves, Checked, Rotating, TicketPcs
<1>10. ASSUME NEW k \in Requests, NEW t \in Tokens, Sign(k, t) PROVE Moves(h)
  <2>1. /\ req[k].pc = "sign" /\ req'[k].presented = req[k].presented /\ req'[k].minted.jti = t
        /\ req'[k].pc = IF Rotating(k) THEN "insert" ELSE "create"
    BY <1>1, <1>10 DEF Sign, At, Handler
  <2>2. k # h => req'[h] = req[h]
    BY <1>1, <1>10 DEF Sign
  <2>3. QED
    BY <1>10, <2>1, <2>2 DEF Moves, Checked, Rotating, TicketPcs
<1>11. ASSUME NEW k \in Requests, FindLive(k) PROVE Moves(h)
  <2>1. req'[k].presented = req[k].presented /\ req'[k].pc = "sign"
    BY <1>1, <1>11 DEF FindLive, Handler
  <2>2. k # h => req'[h] = req[h]
    BY <1>1, <1>11 DEF FindLive
  <2>3. QED
    BY <1>11, <2>1, <2>2 DEF Moves
<1>12. ASSUME Environment \/ UNCHANGED vars PROVE Moves(h)
  <2>1. req'[h] = req[h] \/ req'[h] = Idle
    BY <1>12 DEF Environment, DeleteUser, ChangeRole, Tick, Restart, vars
  <2>2. QED
    BY <1>4, <2>1 DEF Moves
<1>13. QED
  BY <1>5, <1>6, <1>7, <1>8, <1>9, <1>10, <1>11, <1>12 DEF Next, Arrive, Step

\* A request that arrives changes nothing but its handler.
LEMMA ArriveFrame ==
  ASSUME NEW h \in Requests, Arrive(h)
  PROVE  UNCHANGED <<accounts, rows, origin, delivered, clock>>
<1>1. ASSUME NEW u \in Users, StartLogin(h, u)
      PROVE  UNCHANGED <<accounts, rows, origin, delivered, clock>>
  BY <1>1 DEF StartLogin
<1>2. ASSUME NEW jwt, StartRefresh(h, jwt) \/ StartLogout(h, jwt)
      PROVE  UNCHANGED <<accounts, rows, origin, delivered, clock>>
  <2>1. CASE StartRefresh(h, jwt)
    BY <2>1 DEF StartRefresh
  <2>2. CASE StartLogout(h, jwt)
    BY <2>2 DEF StartLogout
  <2>3. QED
    BY <1>2, <2>1, <2>2
<1>3. QED
  BY <1>1, <1>2 DEF Arrive

\* Only Sign gives a token an origin, and a token keeps the one it has.
LEMMA OriginMoves ==
  ASSUME [Next]_vars
  PROVE  UNCHANGED origin \/ \E h \in Requests, t \in Tokens : Sign(h, t)
<1>1. ASSUME NEW h \in Requests, Arrive(h) \/ DbFailure(h) PROVE UNCHANGED origin
  BY <1>1, ArriveFrame DEF DbFailure
<1>2. ASSUME NEW h \in Requests, FindUnknown(h) \/ FindSpent(h) \/ FindLive(h) \/ Sweep(h)
                                   \/ SweepDone(h) \/ Create(h) \/ TxInsert(h)
      PROVE  UNCHANGED origin
  BY <1>2 DEF FindUnknown, FindSpent, FindLive, Sweep, SweepDone, Create, TxInsert
<1>3. ASSUME NEW h \in Requests, TxUpdate(h) \/ TxCommit(h) \/ ForeignKeyViolation(h)
                                   \/ Reply(h) \/ LogoutRevoke(h)
      PROVE  UNCHANGED origin
  BY <1>3 DEF TxUpdate, TxCommit, ForeignKeyViolation, Reply, LogoutRevoke
<1>4. ASSUME Environment \/ UNCHANGED vars PROVE UNCHANGED origin
  BY <1>4 DEF Environment, DeleteUser, ChangeRole, Tick, Restart, vars
<1>5. ASSUME NEW h \in Requests, Step(h), ~(\E t \in Tokens : Sign(h, t))
      PROVE  UNCHANGED origin
  BY <1>2, <1>3, <1>5 DEF Step
<1>6. ASSUME NEW h \in Requests, Arrive(h) \/ Step(h) \/ DbFailure(h)
      PROVE  UNCHANGED origin \/ \E t \in Tokens : Sign(h, t)
  BY <1>1, <1>5, <1>6
<1>7. QED
  BY <1>4, <1>6 DEF Next

\* A stored row was there before, of the same user, and has not become usable again, or
\* it is the one a login or the COMMIT of an exchange has just stored.
LEMMA RowMoves ==
  ASSUME IInv, [Next]_vars, NEW t \in Tokens, rows'[t] # NoRow
  PROVE  \/ /\ rows[t] # NoRow /\ rows'[t].userId = rows[t].userId
            /\ ~rows'[t].revoked => ~rows[t].revoked
         \/ \E h \in Requests : (Create(h) \/ TxCommit(h)) /\ t = req[h].minted.jti
<1> DEFINE Kept == /\ rows[t] # NoRow /\ rows'[t].userId = rows[t].userId
                   /\ ~rows'[t].revoked => ~rows[t].revoked
<1>1. UNCHANGED rows => Kept
  OBVIOUS
<1>2. ASSUME NEW S \in SUBSET Tokens, rows' = Revoke(S) PROVE Kept
  <2>1. rows[t] # NoRow
    BY <1>2, RevokeRows
  <2>2. rows[t] \in Row
    BY <2>1 DEF IInv, TypeOK
  <2>3. QED
    BY <1>2, <2>1, <2>2, RevokeRows DEF Revoke, Row
<1>3. ASSUME NEW h \in Requests, SweepDone(h) PROVE Kept
  BY <1>2, <1>3 DEF SweepDone, IInv, TypeOK, Handler
<1>4. ASSUME NEW h \in Requests, LogoutRevoke(h) PROVE Kept
  <2>1. {req[h].presented.jti} \in SUBSET Tokens
    BY <1>4 DEF LogoutRevoke, At, IInv, HandlerInv, LocalsOK, Jwt
  <2>2. QED
    BY <1>2, <1>4, <2>1 DEF LogoutRevoke
<1>5. ASSUME NEW h \in Requests, Create(h), t # req[h].minted.jti PROVE Kept
  BY <1>1, <1>5 DEF Create, IInv, TypeOK
<1>6. ASSUME NEW h \in Requests, TxCommit(h), t # req[h].minted.jti PROVE Kept
  <2> DEFINE old == req[h].presented.jti
  <2>1. old \in Tokens /\ req[h].presented \in delivered
        /\ accounts[req[h].presented.sub] # Gone
    BY <1>6, NullAssumption
       DEF TxCommit, At, IInv, HandlerInv, LocalsOK, ServesOwner, Jwt
  <2>2. rows[old] # NoRow /\ rows[old] \in Row
    BY <2>1 DEF IInv, Stored, TypeOK
  <2>3. rows'[old].revoked /\ rows'[old].userId = rows[old].userId
        /\ \A x \in Tokens \ {old, req[h].minted.jti} : rows'[x] = rows[x]
    <3>1. rows' = [rows EXCEPT ![req[h].minted.jti] = NewRow(req[h].minted),
                               ![old] = [@ EXCEPT !.revoked = TRUE, !.replacedBy = req[h].minted.jti]]
      BY <1>6 DEF TxCommit
    <3>2. old # req[h].minted.jti
      BY <1>6, <2>1 DEF TxCommit, At, IInv, HandlerInv, Fresh, Issuing
    <3>3. rows'[old] = [rows[old] EXCEPT !.revoked = TRUE, !.replacedBy = req[h].minted.jti]
      BY <2>1, <3>1, <3>2 DEF IInv, TypeOK
    <3>4. \A x \in Tokens \ {old, req[h].minted.jti} : rows'[x] = rows[x]
      BY <3>1 DEF IInv, TypeOK
    <3>5. QED
      BY <2>2, <3>3, <3>4 DEF Row
  <2>4. QED
    BY <1>6, <2>2, <2>3
<1>7. ASSUME NEW u \in Users, DeleteUser(u) PROVE Kept
  BY <1>7 DEF DeleteUser, IInv, TypeOK
<1>8. ASSUME NEW h \in Requests,
             Arrive(h) \/ FindUnknown(h) \/ FindSpent(h) \/ FindLive(h) \/ Sweep(h)
      PROVE  UNCHANGED rows
  BY <1>8, ArriveFrame DEF FindUnknown, FindSpent, FindLive, Sweep
<1>9. ASSUME NEW h \in Requests,
             \/ \E x \in Tokens : Sign(h, x)
             \/ TxInsert(h) \/ TxUpdate(h) \/ ForeignKeyViolation(h) \/ Reply(h) \/ DbFailure(h)
      PROVE  UNCHANGED rows
  BY <1>9 DEF Sign, TxInsert, TxUpdate, ForeignKeyViolation, Reply, DbFailure
<1>10. ASSUME (\E u \in Users, r \in Roles : ChangeRole(u, r)) \/ Tick \/ Restart \/ UNCHANGED vars
       PROVE  UNCHANGED rows
  BY <1>10 DEF ChangeRole, Tick, Restart, vars
<1> DEFINE Stores(h) == (Create(h) \/ TxCommit(h)) /\ t = req[h].minted.jti
<1>11. ASSUME NEW h \in Requests, Step(h) PROVE Kept \/ Stores(h)
  <2> HIDE DEF Kept
  <2>1. QED
    BY <1>1, <1>3, <1>4, <1>5, <1>6, <1>8, <1>9, <1>11 DEF Step
<1>12. ASSUME Environment \/ UNCHANGED vars PROVE Kept
  <2> HIDE DEF Kept
  <2>1. QED
    BY <1>1, <1>7, <1>10, <1>12 DEF Environment
<1>13. Kept \/ \E h \in Requests : Stores(h)
  <2> HIDE DEF Kept, Stores
  <2>1. QED
    BY <1>1, <1>8, <1>9, <1>11, <1>12 DEF Next
<1>14. QED
  BY <1>13

----------------------------------------------------------------------------
(* Exchanges of one token *)

\* No step but FindLive takes a rotation past the check.
LEMMA OnlyFindLiveChecks ==
  ASSUME IInv, [Next]_vars, NEW h \in Requests, Checked(h)', ~Checked(h)
  PROVE  FindLive(h)
BY HandlerMoves DEF Moves, Checked, Rotating, TicketPcs

\* A token passes the check of refresh only while nothing exchanged for it is stored:
\* by RotationAtomic, whatever is stored in exchange for a token has revoked it.
THEOREM ExchangesDoOverlap == Spec => ExchangesOverlap
<1>1. ASSUME IInv, [Next]_vars, NEW h \in Requests, Checked(h)', ~Checked(h),
             NEW s \in Tokens, rows[s] # NoRow
      PROVE  origin[s] # req'[h].presented.jti
  <2>1. FindLive(h)
    BY <1>1, OnlyFindLiveChecks
  <2>2. /\ req'[h].presented = req[h].presented
        /\ rows[req[h].presented.jti] # NoRow /\ ~rows[req[h].presented.jti].revoked
    BY <2>1, <1>1 DEF FindLive, IInv, TypeOK, Handler
  <2>3. req[h].presented.jti \in Tokens
    BY <2>1, <1>1 DEF FindLive, At, IInv, HandlerInv, LocalsOK, Jwt
  <2>4. QED
    BY <1>1, <2>2, <2>3 DEF IInv, RotationAtomic
<1>2. IInv /\ [Next]_vars =>
        [\A h \in Requests : Checked(h)' /\ ~Checked(h) =>
           \A s \in Tokens : rows[s] # NoRow => origin[s] # req'[h].presented.jti]_vars
  BY <1>1
<1>3. QED
  BY <1>2, InductiveInvariant, PTL DEF Spec, ExchangesOverlap

----------------------------------------------------------------------------
(* What exchanges store, for the theorems about tokens and their families *)

\* A stored row's token keeps its origin.
LEMMA OriginKept ==
  ASSUME IInv, [Next]_vars, NEW t \in Tokens, rows[t] # NoRow
  PROVE  origin'[t] = origin[t]
<1>1. origin[t] # Unsigned
  BY DEF IInv, RowsOwned
<1>2. ASSUME NEW h \in Requests, NEW s \in Tokens, Sign(h, s) PROVE origin'[t] = origin[t]
  <2>1. s # t
    BY <1>1, <1>2 DEF Sign
  <2>2. QED
    BY <1>2, <2>1 DEF Sign, IInv, TypeOK
<1>3. QED
  BY <1>2, OriginMoves

\* What a step stores: nothing new, a login's token, or what a handler past the check
\* has signed in exchange for the token it was presented.
LEMMA NewRows ==
  ASSUME IInv, [Next]_vars, NEW t \in Tokens, rows'[t] # NoRow
  PROVE  \/ rows[t] # NoRow /\ origin'[t] = origin[t]
         \/ origin'[t] = NoToken
         \/ \E h \in Requests : /\ TxCommit(h) /\ Checked(h)
                                /\ t = req[h].minted.jti /\ origin'[t] = req[h].presented.jti
<1>1. CASE rows[t] # NoRow
  BY <1>1, OriginKept
<1>2. ASSUME NEW h \in Requests, Create(h), t = req[h].minted.jti PROVE origin'[t] = NoToken
  BY <1>2 DEF Create, At, IInv, HandlerInv, CreateOrigin
<1>3. ASSUME NEW h \in Requests, TxCommit(h), t = req[h].minted.jti
      PROVE  Checked(h) /\ origin'[t] = req[h].presented.jti
  <2>1. req[h].pc = "commit" /\ origin' = origin
    BY <1>3 DEF TxCommit, At
  <2>2. req[h].presented # NoJwt
    BY <2>1, NullAssumption DEF IInv, HandlerInv, LocalsOK
  <2>3. QED
    BY <1>3, <2>1, <2>2 DEF Checked, Rotating, TicketPcs, IInv, HandlerInv, ServesOwner
<1>4. QED
  BY <1>1, <1>2, <1>3, RowMoves

\* A handler that is past the check after a step was there with the same token before
\* it, or has just found that token unrevoked.
LEMMA CheckedMoves ==
  ASSUME IInv, [Next]_vars, NEW h \in Requests, Checked(h)'
  PROVE  \/ Checked(h) /\ req'[h].presented = req[h].presented
         \/ FindLive(h) /\ req'[h].presented = req[h].presented
BY HandlerMoves DEF Moves, Checked, Rotating, TicketPcs

\* The token of a handler past the check is one that a client was sent.
LEMMA CheckedDelivered ==
  ASSUME IInv, NEW h \in Requests, Checked(h)
  PROVE  req[h].presented \in delivered /\ req[h].presented.jti \in Tokens
BY DEF Checked, Rotating, IInv, TypeOK, HandlerInv, ServesOwner, Jwt

----------------------------------------------------------------------------
(* One user's requests never revoke another user's tokens.  The step that   *)
(* could is SweepDone: it writes the rows its statement's snapshot chose    *)
(* some steps earlier.                                                      *)

\* While a sweep waits for its rows, none of them becomes a row of another user:
\* the tokens of its snapshot were signed, and no handler is about to store one.
SnapOwned(h) ==
  req[h].pc = "sweeping" => \A t \in req[h].snap :
    /\ origin[t] # Unsigned
    /\ \A k \in Requests : req[k].pc \in Issuing => req[k].minted.jti # t
    /\ rows[t] # NoRow => rows[t].userId = req[h].presented.sub

Snaps == \A h \in Requests : SnapOwned(h)

----------------------------------------------------------------------------
(* Snaps is preserved *)

\* A step of one handler that does not take a snapshot, gives no stored row another
\* user, and stores or signs no token of a snapshot.
LEMMA SnapsStep ==
  ASSUME IInv, Snaps, NEW h \in Requests, NEW s, req' = [req EXCEPT ![h] = s],
         s.pc # "sweeping",
         \A t \in Tokens : origin[t] # Unsigned => origin'[t] # Unsigned,
         s.pc \in Issuing =>
           \/ req[h].pc \in Issuing /\ s.minted.jti = req[h].minted.jti
           \/ origin[s.minted.jti] = Unsigned,
         \A t \in Tokens : rows'[t] # NoRow =>
           \/ rows[t] # NoRow /\ rows'[t].userId = rows[t].userId
           \/ req[h].pc \in Issuing /\ req[h].minted.jti = t
  PROVE  Snaps'
<1>1. req'[h] = s /\ \A k \in Requests \ {h} : req'[k] = req[k]
  BY DEF IInv, TypeOK
<1> SUFFICES ASSUME NEW j \in Requests, req'[j].pc = "sweeping", NEW t \in req'[j].snap
             PROVE  /\ origin'[t] # Unsigned
                    /\ \A k \in Requests : req'[k].pc \in Issuing => req'[k].minted.jti # t
                    /\ rows'[t] # NoRow => rows'[t].userId = req'[j].presented.sub
  BY DEF Snaps, SnapOwned
<1>2. j # h /\ req'[j] = req[j]
  BY <1>1
<1>3. t \in Tokens
  BY <1>2 DEF IInv, TypeOK, Handler
<1>4. /\ origin[t] # Unsigned
      /\ \A k \in Requests : req[k].pc \in Issuing => req[k].minted.jti # t
      /\ rows[t] # NoRow => rows[t].userId = req[j].presented.sub
  BY <1>2 DEF Snaps, SnapOwned
<1>5. ASSUME NEW k \in Requests, req'[k].pc \in Issuing PROVE req'[k].minted.jti # t
  <2>1. CASE k = h
    BY <1>1, <1>4, <1>5, <2>1
  <2>2. CASE k # h
    BY <1>1, <1>4, <1>5, <2>2
  <2>3. QED
    BY <2>1, <2>2
<1>6. QED
  BY <1>2, <1>3, <1>4, <1>5

\* The snapshot a sweep takes: the stored rows of the user whose token was presented.
LEMMA SnapsSweep ==
  ASSUME IInv, Snaps, NEW h \in Requests, Sweep(h)
  PROVE  Snaps'
<1> DEFINE snap == {t \in Tokens : Live(t) /\ rows[t].userId = req[h].record.userId}
<1>1. /\ req'[h] = [req[h] EXCEPT !.pc = "sweeping", !.snap = snap]
      /\ \A k \in Requests \ {h} : req'[k] = req[k]
      /\ UNCHANGED <<rows, origin>> /\ req[h].pc = "sweep"
  BY DEF Sweep, At, IInv, TypeOK
<1>2. req[h] \in Handler /\ req[h].record.userId = req[h].presented.sub
  BY <1>1 DEF IInv, TypeOK, HandlerInv, ServesOwner
<1>3. ASSUME NEW t \in snap
      PROVE  /\ origin[t] # Unsigned
             /\ \A k \in Requests : req[k].pc \in Issuing => req[k].minted.jti # t
             /\ rows[t].userId = req[h].presented.sub
  <2>1. t \in Tokens /\ rows[t] # NoRow /\ rows[t].userId = req[h].record.userId
    BY DEF Live
  <2>2. origin[t] # Unsigned
    BY <2>1 DEF IInv, RowsOwned
  <2>3. \A k \in Requests : req[k].pc \in Issuing => req[k].minted.jti # t
    BY <2>1 DEF IInv, HandlerInv, Fresh
  <2>4. QED
    BY <1>2, <2>1, <2>2, <2>3
<1> HIDE DEF snap
<1>4. /\ req'[h].pc = "sweeping" /\ req'[h].snap = snap
      /\ req'[h].presented = req[h].presented
  BY <1>1, <1>2 DEF Handler
<1>5. \A k \in Requests : req'[k].pc \in Issuing => req[k].pc \in Issuing /\ req'[k] = req[k]
  BY <1>1, <1>4 DEF Issuing
<1>6. ASSUME NEW j \in Requests PROVE SnapOwned(j)'
  <2>1. CASE j = h
    <3>1. ASSUME NEW t \in snap
          PROVE  /\ origin'[t] # Unsigned
                 /\ \A k \in Requests : req'[k].pc \in Issuing => req'[k].minted.jti # t
                 /\ rows'[t] # NoRow => rows'[t].userId = req'[h].presented.sub
      <4>1. origin'[t] # Unsigned /\ rows'[t].userId = req'[h].presented.sub
        BY <1>1, <1>3, <1>4
      <4>2. \A k \in Requests : req'[k].pc \in Issuing => req'[k].minted.jti # t
        BY <1>3, <1>5
      <4>3. QED
        BY <4>1, <4>2
    <3>2. QED
      BY <1>4, <2>1, <3>1 DEF SnapOwned
  <2>2. CASE j # h
    <3>1. SnapOwned(j) /\ req'[j] = req[j]
      BY <1>1, <2>2 DEF Snaps
    <3>2. QED
      BY <1>1, <1>5, <3>1 DEF SnapOwned
  <2>3. QED
    BY <2>1, <2>2
<1>7. QED
  BY <1>6 DEF Snaps

\* Steps of nobody's handler: handlers stay or all stop, rows stay or go.
LEMMA SnapsFrame ==
  ASSUME Snaps, UNCHANGED origin,
         \A k \in Requests : req'[k] = req[k] \/ req'[k] = Idle,
         \A t \in Tokens : rows'[t] = rows[t] \/ rows'[t] = NoRow,
         IInv
  PROVE  Snaps'
<1> SUFFICES ASSUME NEW j \in Requests PROVE SnapOwned(j)'
  BY DEF Snaps
<1>1. SnapOwned(j) /\ req[j].snap \in SUBSET Tokens
  BY DEF Snaps, IInv, TypeOK, Handler
<1>2. Idle.pc # "sweeping" /\ Idle.pc \notin Issuing
  BY IdleHandler DEF Issuing
<1>3. QED
  BY <1>1, <1>2 DEF SnapOwned

\* Every step of the system keeps the snapshots.
LEMMA SnapsNext == IInv /\ Snaps /\ [Next]_vars => Snaps'
<1> SUFFICES ASSUME IInv, Snaps, [Next]_vars PROVE Snaps'
  OBVIOUS
<1>0. /\ Idle.pc = "idle" /\ Idle.pc # "sweeping" /\ Idle.pc \notin Issuing
      /\ req \in [Requests -> Handler] /\ \A k \in Requests : req[k] \in Handler
  BY IdleHandler DEF Issuing, IInv, TypeOK
<1>1. ASSUME NEW h \in Requests, NEW u \in Users, StartLogin(h, u) PROVE Snaps'
  <2> DEFINE s == [Idle EXCEPT !.pc = "sign", !.claims = [sub |-> u, role |-> accounts[u]]]
  <2>1. s.pc = "sign"
    BY DEF Idle
  <2>2. req' = [req EXCEPT ![h] = s] /\ UNCHANGED <<rows, origin>>
    BY <1>1 DEF StartLogin
  <2> HIDE DEF s
  <2>3. QED
    BY <2>1, <2>2, SnapsStep DEF Issuing
<1>2. ASSUME NEW h \in Requests, NEW jwt, NEW label \in {"find", "revoke"},
             req' = [req EXCEPT ![h] = [Idle EXCEPT !.pc = label, !.presented = jwt]],
             UNCHANGED <<rows, origin>>
      PROVE  Snaps'
  <2> DEFINE s == [Idle EXCEPT !.pc = label, !.presented = jwt]
  <2>1. s.pc = label
    BY DEF Idle
  <2>2. req' = [req EXCEPT ![h] = s]
    BY <1>2
  <2> HIDE DEF s
  <2>3. QED
    BY <1>2, <2>1, <2>2, SnapsStep DEF Issuing
<1>3. ASSUME NEW h \in Requests, req' = [req EXCEPT ![h] = Idle], UNCHANGED <<rows, origin>>
      PROVE  Snaps'
  BY <1>0, <1>3, SnapsStep
<1>4. ASSUME NEW h \in Requests, FindSpent(h) \/ FindLive(h) PROVE Snaps'
  <2>1. PICK s : /\ req' = [req EXCEPT ![h] = s]
                 /\ s.pc \in {"sweep", "sign"}
    BY <1>0, <1>4 DEF FindSpent, FindLive, Handler
  <2>2. UNCHANGED <<rows, origin>>
    BY <1>4 DEF FindSpent, FindLive
  <2>3. QED
    BY <2>1, <2>2, SnapsStep DEF Issuing
<1>5. ASSUME NEW h \in Requests, NEW S \in SUBSET Tokens, rows' = Revoke(S),
             req' = [req EXCEPT ![h] = Idle], UNCHANGED origin
      PROVE  Snaps'
  BY <1>0, <1>5, SnapsStep, RevokeRows
<1>6. ASSUME NEW h \in Requests, NEW t \in Tokens, Sign(h, t) PROVE Snaps'
  <2> DEFINE s == [req[h] EXCEPT !.pc = IF Rotating(h) THEN "insert" ELSE "create",
                     !.minted = [jti |-> t, sub |-> req[h].claims.sub,
                                 role |-> req[h].claims.role, exp |-> clock + RefreshTtl]]
  <2>1. req' = [req EXCEPT ![h] = s] /\ UNCHANGED rows /\ origin[t] = Unsigned
    BY <1>6 DEF Sign
  <2>2. s.pc # "sweeping" /\ s.minted.jti = t
    BY <1>0 DEF Handler
  <2>3. \A x \in Tokens : origin[x] # Unsigned => origin'[x] = origin[x]
    BY <1>6 DEF Sign, IInv, TypeOK
  <2> HIDE DEF s
  <2>4. QED
    BY <2>1, <2>2, <2>3, SnapsStep
<1>7. ASSUME NEW h \in Requests, Create(h) \/ TxCommit(h) PROVE Snaps'
  <2> DEFINE s == [req[h] EXCEPT !.pc = "reply"]
             new == req[h].minted
  <2>1. req' = [req EXCEPT ![h] = s] /\ UNCHANGED origin /\ req[h].pc \in Issuing
    BY <1>7 DEF Create, TxCommit, At, Issuing
  <2>2. s.pc = "reply"
    BY <1>0 DEF Handler
  <2>3. ASSUME NEW t \in Tokens, rows'[t] # NoRow, t # new.jti
        PROVE  rows[t] # NoRow /\ rows'[t].userId = rows[t].userId
    <3>1. CASE Create(h)
      BY <2>3, <3>1 DEF Create, IInv, TypeOK
    <3>2. CASE TxCommit(h)
      <4>1. /\ req[h].presented \in Jwt /\ req[h].presented.jti \in Tokens
            /\ accounts[new.sub] # Gone /\ new.sub = req[h].presented.sub
        BY <3>2 DEF TxCommit, At, IInv, HandlerInv, LocalsOK, ServesOwner, Jwt
      <4>2. rows[req[h].presented.jti] \in Row /\ rows[req[h].presented.jti] # NoRow
        BY <4>1, PresentedRow, NullAssumption DEF Stored
      <4>3. CASE t = req[h].presented.jti
        <5>1. rows'[t] = [rows[t] EXCEPT !.revoked = TRUE, !.replacedBy = new.jti]
          BY <2>3, <3>2, <4>3 DEF TxCommit, IInv, TypeOK
        <5>2. QED
          BY <4>2, <4>3, <5>1 DEF Row
      <4>4. CASE t # req[h].presented.jti
        BY <2>3, <3>2, <4>4 DEF TxCommit, IInv, TypeOK
      <4>5. QED
        BY <4>3, <4>4
    <3>3. QED
      BY <1>7, <3>1, <3>2
  <2> HIDE DEF s
  <2>4. QED
    BY <2>1, <2>2, <2>3, SnapsStep DEF Issuing
<1>8. ASSUME NEW h \in Requests, TxInsert(h) \/ TxUpdate(h) PROVE Snaps'
  <2>1. PICK s : /\ req' = [req EXCEPT ![h] = s]
                 /\ s.pc \in {"update", "commit"} /\ s.minted = req[h].minted
    BY <1>0, <1>8 DEF TxInsert, TxUpdate, Handler
  <2>2. UNCHANGED <<rows, origin>> /\ req[h].pc \in Issuing
    BY <1>8 DEF TxInsert, TxUpdate, At, Issuing
  <2>3. QED
    BY <2>1, <2>2, SnapsStep
<1>9. ASSUME (\E u \in Users : DeleteUser(u) \/ \E r \in Roles : ChangeRole(u, r))
               \/ Tick \/ Restart \/ UNCHANGED vars
      PROVE  Snaps'
  <2>1. UNCHANGED origin /\ \A k \in Requests : req'[k] = req[k] \/ req'[k] = Idle
    BY <1>9 DEF DeleteUser, ChangeRole, Tick, Restart, vars
  <2>2. \A t \in Tokens : rows'[t] = rows[t] \/ rows'[t] = NoRow
    BY <1>9 DEF DeleteUser, ChangeRole, Tick, Restart, vars
  <2>3. QED
    BY <2>1, <2>2, SnapsFrame
<1>10. ASSUME NEW h \in Requests, NEW jwt \in delivered,
              StartRefresh(h, jwt) \/ StartLogout(h, jwt)
       PROVE  Snaps'
  BY <1>2, <1>10 DEF StartRefresh, StartLogout
<1>11. ASSUME NEW h \in Requests,
              FindUnknown(h) \/ ForeignKeyViolation(h) \/ DbFailure(h) \/ Reply(h)
       PROVE  Snaps'
  BY <1>3, <1>11 DEF FindUnknown, ForeignKeyViolation, DbFailure, Reply
<1>12. ASSUME NEW h \in Requests, SweepDone(h) \/ LogoutRevoke(h) PROVE Snaps'
  <2>1. CASE SweepDone(h)
    BY <1>0, <1>5, <2>1 DEF SweepDone, Handler
  <2>2. CASE LogoutRevoke(h)
    <3>1. {req[h].presented.jti} \in SUBSET Tokens
      BY <2>2 DEF LogoutRevoke, At, IInv, HandlerInv, LocalsOK, Jwt
    <3>2. QED
      BY <1>5, <2>2, <3>1 DEF LogoutRevoke
  <2>3. QED
    BY <1>12, <2>1, <2>2
<1>13. QED
  BY <1>1, <1>4, <1>6, <1>7, <1>8, <1>9, <1>10, <1>11, <1>12, SnapsSweep
     DEF Next, Arrive, Step, Environment

----------------------------------------------------------------------------
(* The steps that change a stored row *)

OwnRows ==
  \A t \in Tokens : rows[t] # NoRow /\ rows'[t] # rows[t] =>
    \/ accounts'[rows[t].userId] = Gone
    \/ \E h \in Requests : /\ req[h] # req'[h]
                           /\ req[h].presented # NoJwt
                           /\ req[h].presented.sub = rows[t].userId

\* A step that changes a stored row deletes its user or serves one of that user's tokens.
LEMMA OwnRowsNext == IInv /\ Snaps /\ [Next]_vars => OwnRows
<1> SUFFICES ASSUME IInv, Snaps, [Next]_vars,
                    NEW t \in Tokens, rows[t] # NoRow, rows'[t] # rows[t]
             PROVE  \/ accounts'[rows[t].userId] = Gone
                    \/ \E h \in Requests : /\ req[h] # req'[h]
                                           /\ req[h].presented # NoJwt
                                           /\ req[h].presented.sub = rows[t].userId
  BY DEF OwnRows
<1>0. Idle.pc = "idle" /\ \A k \in Requests : req[k] \in Handler
  BY IdleHandler DEF IInv, TypeOK
<1>1. ASSUME NEW h \in Requests, SweepDone(h)
      PROVE  /\ req[h] # req'[h] /\ req[h].presented # NoJwt
             /\ req[h].presented.sub = rows[t].userId
  <2>1. t \in req[h].snap
    BY <1>1 DEF SweepDone, Revoke
  <2>2. req[h].presented \in Jwt /\ req[h].presented.sub = rows[t].userId
    BY <1>1, <2>1 DEF SweepDone, At, Snaps, SnapOwned, IInv, HandlerInv, LocalsOK
  <2>3. req[h].pc = "sweeping" /\ req'[h] = Idle
    BY <1>1 DEF SweepDone, At, IInv, TypeOK
  <2>4. QED
    BY <1>0, <2>2, <2>3, NullAssumption
<1>2. ASSUME NEW h \in Requests, LogoutRevoke(h)
      PROVE  /\ req[h] # req'[h] /\ req[h].presented # NoJwt
             /\ req[h].presented.sub = rows[t].userId
  <2>1. t = req[h].presented.jti
    BY <1>2 DEF LogoutRevoke, Revoke
  <2>2. req[h].presented # NoJwt
    BY <1>2, NullAssumption DEF LogoutRevoke, At, IInv, HandlerInv, LocalsOK
  <2>3. req[h].pc = "revoke" /\ req'[h] = Idle
    BY <1>2 DEF LogoutRevoke, At, IInv, TypeOK
  <2>4. QED
    BY <1>0, <2>1, <2>2, <2>3, PresentedRow
<1>3. ASSUME NEW h \in Requests, Create(h) PROVE FALSE
  <2>1. t = req[h].minted.jti
    BY <1>3 DEF Create, IInv, TypeOK
  <2>2. QED
    BY <1>3, <2>1 DEF Create, At, IInv, HandlerInv, Fresh, Issuing
<1>4. ASSUME NEW h \in Requests, TxCommit(h)
      PROVE  /\ req[h] # req'[h] /\ req[h].presented # NoJwt
             /\ req[h].presented.sub = rows[t].userId
  <2>1. rows[req[h].minted.jti] = NoRow
    BY <1>4 DEF TxCommit, At, IInv, HandlerInv, Fresh, Issuing
  <2>2. t = req[h].presented.jti
    BY <1>4, <2>1 DEF TxCommit, IInv, TypeOK
  <2>3. req[h].presented # NoJwt
    BY <1>4, NullAssumption DEF TxCommit, At, IInv, HandlerInv, LocalsOK
  <2>4. req[h].pc = "commit" /\ req'[h].pc = "reply"
    BY <1>0, <1>4 DEF TxCommit, At, IInv, TypeOK, Handler
  <2>5. QED
    BY <2>2, <2>3, <2>4, PresentedRow
<1>5. ASSUME NEW u \in Users, DeleteUser(u) PROVE accounts'[rows[t].userId] = Gone
  <2>1. rows[t].userId = u
    BY <1>5 DEF DeleteUser
  <2>2. QED
    BY <1>5, <2>1 DEF DeleteUser, IInv, TypeOK
<1>6. (\E h \in Requests : SweepDone(h) \/ LogoutRevoke(h) \/ Create(h) \/ TxCommit(h))
        \/ \E u \in Users : DeleteUser(u)
  BY DEF Next, Arrive, Step, Environment, StartLogin, StartRefresh, StartLogout, FindUnknown,
         FindSpent, FindLive, Sweep, Sign, TxInsert, TxUpdate, ForeignKeyViolation, Reply,
         DbFailure, ChangeRole, Tick, Restart, vars
<1>7. QED
  BY <1>1, <1>2, <1>3, <1>4, <1>5, <1>6

\* Nothing but a handler that serves a token of the row's user, or the user's deletion,
\* ever changes a stored row: no logout and no replay reaches another user's sessions.
THEOREM SessionsAreOwn == Spec => OwnSessionsOnly
<1>1. Init => Snaps
  BY IdleHandler DEF Init, Snaps, SnapOwned
<1>2. IInv /\ Snaps /\ [Next]_vars => Snaps'
  BY SnapsNext
<1>3. IInv /\ Snaps /\ [Next]_vars => OwnRows
  BY OwnRowsNext
<1>4. Spec => [][OwnRows]_vars
  BY <1>1, <1>2, <1>3, InductiveInvariant, PTL DEF Spec
<1>5. QED
  BY <1>4 DEF OwnSessionsOnly, OwnRows

=============================================================================
