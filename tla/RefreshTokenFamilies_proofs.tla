-------------------- MODULE RefreshTokenFamilies_proofs --------------------
(***************************************************************************)
(* What the sweep of a replayed token settles, for every value of the      *)
(* constants: unless a rotation of the family commits between the sweep's  *)
(* snapshot and its end, or is past its check when the sweep ends, no      *)
(* token of the family is usable, then or later.                           *)
(* And what the check of refresh settles: unless two requests race for the *)
(* exchange of a token, it is exchanged at most once.                      *)
(***************************************************************************)
EXTENDS RefreshTokenFamilies, RefreshTokens_proofs

FTypeOK == root \in [Tokens -> Tokens \cup {NoToken}] /\ calm \subseteq Tokens

\* A token has a root once it is signed: its own at a login, in an exchange that of the
\* token it was exchanged for.
Rooted ==
  \A t \in Tokens :
    /\ origin[t] = Unsigned <=> root[t] = NoToken
    /\ origin[t] = NoToken => root[t] = t
    /\ origin[t] \in Tokens => root[t] = root[origin[t]]
    /\ root[t] \in Tokens => origin[root[t]] # Unsigned

\* A login whose row is not stored yet is the whole of its family.
Alone(k) ==
  req[k].pc = "create" => \A u \in Tokens :
    root[u] = root[req[k].minted.jti] => u = req[k].minted.jti

\* Nothing of the family of a token is usable, or about to become so.  The token was
\* sent to a client: no login is about to store a row for it.
Settled(t) ==
  /\ \E jwt \in delivered : jwt.jti = t
  /\ \A s \in Family(t) : ~Live(s)
  /\ \A k \in Requests : Checked(k) => req[k].presented.jti \notin Family(t)

\* The rows of a token's family are rows of the token's user.
Owned(jwt) ==
  \A s \in Family(jwt.jti) : rows[s] # NoRow => rows[s].userId = jwt.sub

\* The snapshot of a sweep that nothing has overtaken holds all that is usable of the family.
Covered(h) ==
  At(h, "sweeping") /\ h \notin overtaken =>
    \A s \in Family(req[h].presented.jti) : Live(s) => s \in req[h].snap

FInv ==
  /\ FTypeOK
  /\ Rooted
  /\ \A k \in Requests : Alone(k)
  /\ \A jwt \in delivered : Owned(jwt)
  /\ \A k \in Requests : At(k, "reply") => Owned(req[k].minted)
  /\ \A k \in Requests : Covered(k)
  /\ \A t \in calm : Settled(t)

----------------------------------------------------------------------------
(* Families only gain members, and only by Sign *)

\* A token that is signed keeps its origin and its root.
LEMMA RootKept ==
  ASSUME IInv, FInv, Next, Record, NEW t \in Tokens, origin[t] # Unsigned
  PROVE  origin'[t] = origin[t] /\ root'[t] = root[t]
<1>1. ASSUME NEW h \in Requests, NEW s \in Tokens, Sign(h, s) PROVE origin'[t] = origin[t]
  <2>1. s # t
    BY <1>1 DEF Sign
  <2>2. QED
    BY <1>1, <2>1 DEF Sign, IInv, TypeOK
<1>2. origin'[t] = origin[t]
  BY <1>1, OriginMoves
<1>3. QED
  BY <1>2 DEF Record

\* The token of every client, and of every handler that was presented one, is signed.
LEMMA DeliveredSigned ==
  ASSUME IInv, NEW jwt \in delivered
  PROVE  jwt.jti \in Tokens /\ origin[jwt.jti] # Unsigned
BY DEF IInv, TypeOK, Jwt, Stored

\* Clients keep the tokens they have, and get the one an answer carries.
LEMMA DeliveredMoves ==
  ASSUME Next
  PROVE  \/ delivered' = delivered
         \/ \E h \in Requests : At(h, "reply") /\ delivered' = delivered \cup {req[h].minted}
<1>1. ASSUME NEW h \in Requests, Arrive(h) \/ DbFailure(h) PROVE delivered' = delivered
  BY <1>1, ArriveFrame DEF DbFailure
<1>2. ASSUME NEW h \in Requests, FindUnknown(h) \/ FindSpent(h) \/ FindLive(h) \/ Sweep(h)
                                   \/ SweepDone(h) \/ Create(h) \/ TxInsert(h)
      PROVE  delivered' = delivered
  BY <1>2 DEF FindUnknown, FindSpent, FindLive, Sweep, SweepDone, Create, TxInsert
<1>3. ASSUME NEW h \in Requests, TxUpdate(h) \/ TxCommit(h) \/ ForeignKeyViolation(h)
                                   \/ LogoutRevoke(h)
      PROVE  delivered' = delivered
  BY <1>3 DEF TxUpdate, TxCommit, ForeignKeyViolation, LogoutRevoke
<1>4. ASSUME NEW h \in Requests, NEW t \in Tokens, Sign(h, t) PROVE delivered' = delivered
  BY <1>4 DEF Sign
<1>5. ASSUME NEW h \in Requests, Step(h), ~Reply(h) PROVE delivered' = delivered
  BY <1>2, <1>3, <1>4, <1>5 DEF Step
<1>6. ASSUME Environment PROVE delivered' = delivered
  BY <1>6 DEF Environment, DeleteUser, ChangeRole, Tick, Restart
<1>7. ASSUME NEW h \in Requests, Reply(h)
      PROVE  At(h, "reply") /\ delivered' = delivered \cup {req[h].minted}
  BY <1>7 DEF Reply
<1>8. QED
  BY <1>1, <1>5, <1>6, <1>7 DEF Next

\* A request comes to its answer by storing its token, and waits in its sweep from the
\* sweep's snapshot on; until the next step of its own it keeps what it holds.
LEMMA LabelMoves ==
  ASSUME IInv, Next, NEW h \in Requests, req'[h].pc \in {"reply", "sweeping"}
  PROVE  \/ req'[h] = req[h]
         \/ /\ Create(h) \/ TxCommit(h)
            /\ req'[h].pc = "reply" /\ req'[h].minted = req[h].minted
         \/ /\ Sweep(h) /\ req'[h].pc = "sweeping" /\ req'[h].presented = req[h].presented
            /\ req'[h].snap = {t \in Tokens : Live(t) /\ rows[t].userId = req[h].record.userId}
<1> DEFINE Ends(k)  == req'[k].pc \notin {"reply", "sweeping"}
           Apart(k) == \A j \in Requests \ {k} : req'[j] = req[j]
<1>1. req \in [Requests -> Handler] /\ \A k \in Requests : req[k] \in Handler
  BY DEF IInv, TypeOK
<1>2. Idle.pc \notin {"reply", "sweeping"}
  BY IdleHandler
<1>3. ASSUME NEW k \in Requests, Arrive(k) PROVE Ends(k) /\ Apart(k)
  <2>1. ASSUME NEW u \in Users, StartLogin(k, u) PROVE Ends(k) /\ Apart(k)
    BY <1>1, <2>1 DEF StartLogin, Idle
  <2>2. ASSUME NEW jwt, StartRefresh(k, jwt) PROVE Ends(k) /\ Apart(k)
    BY <1>1, <2>2 DEF StartRefresh, Idle
  <2>3. ASSUME NEW jwt, StartLogout(k, jwt) PROVE Ends(k) /\ Apart(k)
    BY <1>1, <2>3 DEF StartLogout, Idle
  <2>4. QED
    BY <1>3, <2>1, <2>2, <2>3 DEF Arrive
<1>4. ASSUME NEW k \in Requests,
             \/ FindUnknown(k) \/ SweepDone(k) \/ LogoutRevoke(k)
             \/ ForeignKeyViolation(k) \/ Reply(k) \/ DbFailure(k)
      PROVE  Ends(k) /\ Apart(k)
  <2>1. req' = [req EXCEPT ![k] = Idle]
    BY <1>4 DEF FindUnknown, SweepDone, LogoutRevoke, ForeignKeyViolation, Reply, DbFailure
  <2>2. QED
    BY <1>1, <1>2, <2>1
<1>5. ASSUME NEW k \in Requests, FindSpent(k) \/ FindLive(k) \/ TxInsert(k) \/ TxUpdate(k)
      PROVE  Ends(k) /\ Apart(k)
  BY <1>1, <1>5 DEF FindSpent, FindLive, TxInsert, TxUpdate, Handler
<1>6. ASSUME NEW k \in Requests, NEW t \in Tokens, Sign(k, t) PROVE Ends(k) /\ Apart(k)
  BY <1>1, <1>6 DEF Sign, Handler
<1>7. ASSUME NEW k \in Requests, Create(k) \/ TxCommit(k)
      PROVE  Apart(k) /\ req'[k].pc = "reply" /\ req'[k].minted = req[k].minted
  BY <1>1, <1>7 DEF Create, TxCommit, Handler
<1>8. ASSUME NEW k \in Requests, Sweep(k)
      PROVE  /\ Apart(k) /\ req'[k].pc = "sweeping" /\ req'[k].presented = req[k].presented
             /\ req'[k].snap = {t \in Tokens : Live(t) /\ rows[t].userId = req[k].record.userId}
  BY <1>1, <1>8 DEF Sweep, Handler
<1>9. ASSUME Environment PROVE req'[h] = req[h] \/ req'[h] = Idle
  BY <1>9 DEF Environment, DeleteUser, ChangeRole, Tick, Restart
<1>10. ASSUME NEW k \in Requests, Step(k)
       PROVE  \/ Apart(k) /\ (Ends(k) \/ Create(k) \/ TxCommit(k) \/ Sweep(k))
  <2> HIDE DEF Ends, Apart
  <2>1. QED
    BY <1>4, <1>5, <1>6, <1>7, <1>8, <1>10 DEF Step
<1>11. ASSUME NEW k \in Requests, Arrive(k) \/ Step(k) \/ DbFailure(k)
       PROVE  \/ Apart(k) /\ (Ends(k) \/ Create(k) \/ TxCommit(k) \/ Sweep(k))
  <2> HIDE DEF Ends, Apart
  <2>1. QED
    BY <1>3, <1>4, <1>10, <1>11
<1>12. ASSUME NEW k \in Requests, Arrive(k) \/ Step(k) \/ DbFailure(k), k # h
       PROVE  req'[h] = req[h]
  BY <1>11, <1>12
<1>13. ASSUME Arrive(h) \/ Step(h) \/ DbFailure(h) PROVE Create(h) \/ TxCommit(h) \/ Sweep(h)
  BY <1>11, <1>13
<1>14. QED
  BY <1>2, <1>7, <1>8, <1>9, <1>12, <1>13 DEF Next

\* What Sign does: the jti it takes had no origin, no root and no row, and belongs from
\* then on to the family of the presented token, or to one of its own.
LEMMA SignRoot ==
  ASSUME IInv, FInv, Record, NEW h \in Requests, NEW t \in Tokens, Sign(h, t)
  PROVE  /\ origin[t] = Unsigned /\ root[t] = NoToken /\ rows[t] = NoRow
         /\ \A u \in Tokens \ {t} : origin'[u] = origin[u] /\ root'[u] = root[u]
         /\ ~Rotating(h) => origin'[t] = NoToken /\ root'[t] = t
         /\ Rotating(h) => /\ req[h].presented \in delivered
                           /\ req[h].presented.jti \in Tokens \ {t}
                           /\ origin[req[h].presented.jti] # Unsigned
                           /\ origin'[t] = req[h].presented.jti
                           /\ root'[t] = root[req[h].presented.jti]
<1>1. /\ origin[t] = Unsigned
      /\ origin' = [origin EXCEPT ![t] = IF Rotating(h) THEN req[h].presented.jti ELSE NoToken]
  BY DEF Sign
<1>2. root[t] = NoToken /\ rows[t] = NoRow
  BY <1>1 DEF FInv, Rooted, IInv, RowsOwned
<1>3. ASSUME NEW u \in Tokens \ {t} PROVE origin'[u] = origin[u] /\ root'[u] = root[u]
  BY <1>1 DEF Record, IInv, TypeOK
<1>4. CASE ~Rotating(h)
  <2>1. origin'[t] = NoToken
    BY <1>1, <1>4 DEF IInv, TypeOK
  <2>2. root'[t] = t
    BY <1>1, <2>1, NullAssumption DEF Record
  <2>3. QED
    BY <1>1, <1>2, <1>3, <1>4, <2>1, <2>2
<1>5. CASE Rotating(h)
  <2>1. req[h].presented \in delivered
    BY <1>5 DEF Rotating, IInv, HandlerInv, ServesOwner
  <2>2. req[h].presented.jti \in Tokens /\ origin[req[h].presented.jti] # Unsigned
    BY <2>1, DeliveredSigned
  <2>3. origin'[t] = req[h].presented.jti
    BY <1>1, <1>5 DEF IInv, TypeOK
  <2>4. root'[t] = root'[req[h].presented.jti] \/ root'[t] = root[req[h].presented.jti]
    BY <1>1, <2>2, <2>3, NullAssumption DEF Record
  <2>5. QED
    BY <1>1, <1>2, <1>3, <1>5, <2>1, <2>2, <2>3, <2>4
<1>6. QED
  BY <1>4, <1>5

----------------------------------------------------------------------------
(* FInv is inductive *)

LEMMA RootedStep ==
  ASSUME IInv, FInv, Next, Record
  PROVE  FTypeOK' /\ Rooted'
<1>1. calm' \subseteq Tokens
  <2>1. ASSUME NEW h \in Requests, SweepDone(h) PROVE req[h].presented.jti \in Tokens
    BY <2>1 DEF SweepDone, At, IInv, HandlerInv, LocalsOK, Jwt
  <2>2. QED
    BY <2>1 DEF Record, PresentedBy, Swept, FInv, FTypeOK
<1>2. CASE UNCHANGED origin
  <2>1. root' = root
    BY <1>2 DEF Record, FInv, FTypeOK
  <2>2. QED
    BY <1>1, <1>2, <2>1 DEF FInv, FTypeOK, Rooted
<1>3. ASSUME NEW h \in Requests, NEW t \in Tokens, Sign(h, t) PROVE FTypeOK' /\ Rooted'
  <2>1. /\ origin[t] = Unsigned /\ root[t] = NoToken
        /\ \A u \in Tokens \ {t} : origin'[u] = origin[u] /\ root'[u] = root[u]
        /\ \/ origin'[t] = NoToken /\ root'[t] = t
           \/ \E p \in Tokens \ {t} : /\ origin[p] # Unsigned
                                      /\ origin'[t] = p /\ root'[t] = root[p]
    BY <1>3, SignRoot
  <2>2. root \in [Tokens -> Tokens \cup {NoToken}]
    BY DEF FInv, FTypeOK
  <2>3. DOMAIN root' = Tokens /\ root' = [u \in Tokens |-> root'[u]]
    BY DEF Record
  <2>4. \A u \in Tokens : root'[u] \in Tokens \cup {NoToken}
    BY <2>1, <2>2
  <2>5. FTypeOK'
    BY <1>1, <2>3, <2>4 DEF FTypeOK
  <2> DEFINE RootOK(u) == /\ origin'[u] = Unsigned <=> root'[u] = NoToken
                          /\ origin'[u] = NoToken => root'[u] = u
                          /\ origin'[u] \in Tokens => root'[u] = root'[origin'[u]]
                          /\ root'[u] \in Tokens => origin'[root'[u]] # Unsigned
  <2>6. ASSUME NEW u \in Tokens \ {t}
        PROVE  RootOK(u)
    <3>1. origin'[u] = origin[u] /\ root'[u] = root[u]
      BY <2>1
    <3>2. origin[u] # t
      BY <2>1, NullAssumption DEF FInv, Rooted
    <3>3. root[u] # t
      BY <2>1 DEF FInv, Rooted
    <3>4. QED
      BY <2>1, <3>1, <3>2, <3>3 DEF FInv, Rooted
  <2>7. RootOK(t)
    <3>1. CASE origin'[t] = NoToken /\ root'[t] = t
      BY <3>1, NullAssumption
    <3>2. ASSUME NEW p \in Tokens \ {t},
                 origin[p] # Unsigned, origin'[t] = p, root'[t] = root[p]
          PROVE  RootOK(t)
      <4>1. /\ root[p] # NoToken /\ root'[p] = root[p]
            /\ root[p] \in Tokens => root[p] # t /\ origin[root[p]] # Unsigned
        BY <2>1, <3>2 DEF FInv, Rooted
      <4>2. QED
        BY <2>1, <3>2, <4>1, NullAssumption
    <3>3. QED
      BY <2>1, <3>1, <3>2
  <2>8. QED
    BY <2>5, <2>6, <2>7 DEF Rooted
<1>4. QED
  BY <1>2, <1>3, OriginMoves

LEMMA AloneStep ==
  ASSUME IInv, FInv, Next, Record, NEW k \in Requests
  PROVE  Alone(k)'
<1> SUFFICES ASSUME req'[k].pc = "create", NEW u \in Tokens,
                    root'[u] = root'[req'[k].minted.jti]
             PROVE  u = req'[k].minted.jti
  BY DEF Alone
<1>1. ASSUME NEW t \in Tokens, Sign(k, t), ~Rotating(k), req'[k].minted.jti = t
      PROVE  u = t
  <2>1. origin[t] = Unsigned /\ root'[t] = t /\ (u # t => root'[u] = root[u])
    BY <1>1, SignRoot
  <2>2. root[u] # t
    BY <1>1, <2>1 DEF FInv, Rooted
  <2>3. QED
    BY <1>1, <2>1, <2>2
<1>2. CASE req'[k] = req[k]
  <2> DEFINE m == req[k].minted.jti
  <2>1. /\ m \in Tokens /\ origin[m] # Unsigned
        /\ \A jwt \in delivered : jwt.jti # m
        /\ \A x \in Tokens : root[x] = root[m] => x = m
    BY <1>2 DEF IInv, HandlerInv, LocalsOK, Fresh, Issuing, Jwt, FInv, Alone
  <2>2. root'[m] = root[m] /\ root'[u] = root[m] /\ req'[k].minted.jti = m
    BY <1>2, <2>1, RootKept
  <2> HIDE DEF m
  <2>3. CASE UNCHANGED origin
    BY <2>1, <2>2, <2>3 DEF Record
  <2>4. ASSUME NEW h \in Requests, NEW t \in Tokens, Sign(h, t) PROVE u = m
    <3>1. CASE u # t
      BY <2>1, <2>2, <2>4, <3>1, SignRoot
    <3>2. CASE u = t /\ ~Rotating(h)
      <4>1. origin[t] = Unsigned /\ root[m] = t
        BY <2>2, <2>4, <3>2, SignRoot
      <4>2. QED
        BY <2>1, <4>1 DEF FInv, Rooted
    <3>3. CASE u = t /\ Rotating(h)
      BY <2>1, <2>2, <2>4, <3>3, SignRoot
    <3>4. QED
      BY <3>1, <3>2, <3>3
  <2>5. QED
    BY <2>2, <2>3, <2>4, OriginMoves
<1>3. Moves(k)
  BY HandlerMoves
<1>4. QED
  BY <1>1, <1>2, <1>3 DEF Moves, TicketPcs

\* The family of a token keeps, for its part that was signed, the members it has.
LEMMA FamilyKept ==
  ASSUME IInv, FInv, Next, Record, NEW t \in Tokens, origin[t] # Unsigned,
         NEW s \in Tokens, origin[s] # Unsigned
  PROVE  s \in Family(t)' <=> s \in Family(t)
BY RootKept DEF Family

\* No step of another request undoes what a sweep has settled.
LEMMA SettledStep ==
  ASSUME IInv, FInv, Next, Record, NEW t \in Tokens, Settled(t)
  PROVE  Settled(t)'
<1>1. PICK sent \in delivered : sent.jti = t
  BY DEF Settled
<1>2. origin[t] # Unsigned /\ sent \in delivered'
  BY <1>1, DeliveredSigned, DeliveredMoves
<1>3. ASSUME NEW s \in Tokens, s \in Family(t)', Live(s)' PROVE FALSE
  <2>1. rows'[s] # NoRow /\ ~rows'[s].revoked
    BY <1>3 DEF Live
  <2>2. ASSUME rows[s] # NoRow, ~rows[s].revoked PROVE FALSE
    <3>1. origin[s] # Unsigned
      BY <2>2 DEF IInv, RowsOwned
    <3>2. QED
      BY <1>2, <1>3, <2>2, <3>1, FamilyKept DEF Settled, Live
  <2>3. ASSUME NEW h \in Requests, Create(h), s = req[h].minted.jti PROVE FALSE
    <3>1. req[h].pc = "create"
      BY <2>3 DEF Create, At
    <3>2. origin[s] # Unsigned /\ s # t
      BY <1>1, <2>3, <3>1 DEF IInv, HandlerInv, Fresh, Issuing
    <3>3. root[t] = root[s]
      BY <1>2, <1>3, <3>2, FamilyKept DEF Family
    <3>4. QED
      BY <2>3, <3>1, <3>2, <3>3 DEF FInv, Alone
  <2>4. ASSUME NEW h \in Requests, TxCommit(h), s = req[h].minted.jti PROVE FALSE
    <3>1. req[h].pc = "commit" /\ req[h].presented # NoJwt
      BY <2>4, NullAssumption DEF TxCommit, At, IInv, HandlerInv, LocalsOK
    <3>2. Checked(h)
      BY <3>1 DEF Checked, Rotating, TicketPcs
    <3>3. req[h].presented.jti \in Tokens /\ origin[s] = req[h].presented.jti
      BY <2>4, <3>1, <3>2, CheckedDelivered DEF IInv, HandlerInv, ServesOwner
    <3>4. root[s] = root[req[h].presented.jti] /\ origin[s] # Unsigned
      BY <3>3, NullAssumption DEF FInv, Rooted
    <3>5. req[h].presented.jti \in Family(t)
      BY <1>2, <1>3, <3>3, <3>4, FamilyKept DEF Family
    <3>6. QED
      BY <3>2, <3>5 DEF Settled
  <2>5. QED
    BY <2>1, <2>2, <2>3, <2>4, RowMoves
<1>4. ASSUME NEW k \in Requests, Checked(k)', req'[k].presented.jti \in Family(t)' PROVE FALSE
  <2>1. CASE Checked(k) /\ req'[k].presented = req[k].presented
    <3>1. req[k].presented.jti \in Tokens /\ origin[req[k].presented.jti] # Unsigned
      BY <2>1, CheckedDelivered, DeliveredSigned
    <3>2. QED
      BY <1>2, <1>4, <2>1, <3>1, FamilyKept DEF Settled
  <2>2. CASE FindLive(k) /\ req'[k].presented = req[k].presented
    <3>1. Live(req[k].presented.jti)
      BY <2>2 DEF FindLive, Live
    <3>2. req[k].presented.jti \in Tokens
      BY <2>2 DEF FindLive, At, IInv, HandlerInv, LocalsOK, Jwt
    <3>3. origin[req[k].presented.jti] # Unsigned
      BY <3>1, <3>2 DEF Live, IInv, RowsOwned
    <3>4. QED
      BY <1>2, <1>4, <2>2, <3>1, <3>2, <3>3, FamilyKept DEF Settled
  <2>3. QED
    BY <1>4, <2>1, <2>2, CheckedMoves
<1>5. \A s \in Family(t)' : s \in Tokens
  BY DEF Family
<1>6. QED
  BY <1>1, <1>2, <1>3, <1>4, <1>5 DEF Settled

\* No step stores a row of another user in a family of which somebody holds a token.
LEMMA OwnedStep ==
  ASSUME IInv, FInv, Next, Record, NEW jwt \in Jwt, Owned(jwt),
         jwt \in delivered \/ \E k \in Requests : At(k, "reply") /\ jwt = req[k].minted
  PROVE  Owned(jwt)'
<1> SUFFICES ASSUME NEW s \in Family(jwt.jti)', rows'[s] # NoRow
             PROVE  rows'[s].userId = jwt.sub
  BY DEF Owned
<1>1. /\ s \in Tokens /\ jwt.jti \in Tokens /\ origin[jwt.jti] # Unsigned
      /\ root'[s] = root[jwt.jti]
  <2>1. jwt.jti \in Tokens /\ origin[jwt.jti] # Unsigned
    BY DEF IInv, HandlerInv, Stored, Jwt, At
  <2>2. QED
    BY <2>1, RootKept DEF Family
<1>2. CASE rows[s] # NoRow /\ rows'[s].userId = rows[s].userId
  <2>1. origin[s] # Unsigned
    BY <1>1, <1>2 DEF IInv, RowsOwned
  <2>2. s \in Family(jwt.jti)
    BY <1>1, <2>1, RootKept DEF Family
  <2>3. QED
    BY <1>2, <2>2 DEF Owned
<1>3. ASSUME NEW h \in Requests, Create(h), s = req[h].minted.jti PROVE FALSE
  <2>1. req[h].pc = "create" /\ origin[s] # Unsigned
    BY <1>3 DEF Create, At, IInv, HandlerInv, Fresh, Issuing
  <2>2. s = jwt.jti
    BY <1>1, <1>3, <2>1, RootKept DEF FInv, Alone
  <2>3. QED
    BY <1>3, <2>1, <2>2 DEF IInv, HandlerInv, Fresh, Issuing, At
<1>4. ASSUME NEW h \in Requests, TxCommit(h), s = req[h].minted.jti
      PROVE  rows'[s].userId = jwt.sub
  <2> DEFINE old == req[h].presented
  <2>1. /\ req[h].pc = "commit" /\ old \in delivered /\ old.jti \in Tokens
        /\ req[h].minted.sub = old.sub /\ accounts[old.sub] # Gone
        /\ origin[s] = old.jti /\ rows[s] = NoRow
    BY <1>4, NullAssumption
       DEF TxCommit, At, IInv, HandlerInv, LocalsOK, ServesOwner, Fresh, Issuing, Jwt
  <2>2. rows[old.jti] # NoRow /\ rows[old.jti].userId = old.sub
    BY <2>1 DEF IInv, Stored
  <2>3. root[s] = root[old.jti] /\ origin[s] # Unsigned
    BY <1>1, <2>1, NullAssumption DEF FInv, Rooted
  <2>4. root[old.jti] = root[jwt.jti]
    BY <1>1, <2>3, RootKept
  <2>5. jwt.sub = old.sub
    BY <2>1, <2>2, <2>4 DEF Owned, Family
  <2>6. rows'[s] = NewRow(req[h].minted)
    <3>1. rows' = [rows EXCEPT ![s] = NewRow(req[h].minted),
                               ![old.jti] = [@ EXCEPT !.revoked = TRUE, !.replacedBy = s]]
      BY <1>4 DEF TxCommit
    <3>2. s # old.jti
      BY <2>1, <2>2
    <3> HIDE DEF old
    <3>3. QED
      BY <1>1, <3>1, <3>2 DEF IInv, TypeOK
  <2>7. QED
    BY <2>1, <2>5, <2>6 DEF NewRow
<1>5. QED
  BY <1>1, <1>2, <1>3, <1>4, RowMoves

LEMMA OwnedNext ==
  ASSUME IInv, FInv, Next, Record
  PROVE  /\ \A jwt \in delivered' : Owned(jwt)'
         /\ \A k \in Requests : At(k, "reply")' => Owned(req[k].minted)'
<1>1. ASSUME NEW jwt \in delivered PROVE Owned(jwt)'
  BY OwnedStep DEF IInv, TypeOK, FInv
<1>2. ASSUME NEW k \in Requests, At(k, "reply"), NEW m, m = req[k].minted PROVE Owned(m)'
  <2>1. m \in Jwt /\ Owned(m)
    BY <1>2 DEF At, IInv, HandlerInv, LocalsOK, FInv
  <2>2. \E j \in Requests : At(j, "reply") /\ m = req[j].minted
    BY <1>2
  <2> HIDE <1>2
  <2>3. QED
    BY <2>1, <2>2, OwnedStep
<1>3. ASSUME NEW k \in Requests, Create(k), NEW m, m = req[k].minted PROVE Owned(m)'
  <2>1. req[k].pc = "create" /\ m.jti \in Tokens
    <3>1. req[k].pc = "create"
      BY <1>3 DEF Create, At
    <3>2. QED
      BY <1>3, <3>1 DEF IInv, HandlerInv, LocalsOK, Issuing, Jwt
  <2>2. root' = root
    BY <1>3 DEF Create, Record, FInv, FTypeOK
  <2>3. \A s \in Tokens : root'[s] = root'[m.jti] => s = m.jti
    BY <1>3, <2>1, <2>2 DEF FInv, Alone
  <2>4. rows'[m.jti] = NewRow(m)
    BY <1>3, <2>1 DEF Create, IInv, TypeOK
  <2>5. QED
    BY <2>3, <2>4 DEF Owned, Family, NewRow
<1>4. ASSUME NEW k \in Requests, TxCommit(k), NEW m, m = req[k].minted PROVE Owned(m)'
  <2>1. PICK old : old = req[k].presented
    OBVIOUS
  <2>2. /\ req[k].pc = "commit" /\ m.jti \in Tokens /\ old \in delivered /\ old.jti \in Tokens
        /\ m.sub = old.sub /\ origin[m.jti] = old.jti
    BY <1>4, <2>1, NullAssumption
       DEF TxCommit, At, IInv, HandlerInv, LocalsOK, ServesOwner, Jwt, Issuing
  <2>3. root' = root /\ root[m.jti] = root[old.jti]
    BY <1>4, <2>2, NullAssumption DEF TxCommit, Record, FInv, FTypeOK, Rooted
  <2>4. Owned(old)'
    BY <1>1, <2>2
  <2>5. QED
    BY <2>2, <2>3, <2>4 DEF Owned, Family
<1>5. ASSUME NEW jwt \in delivered' PROVE Owned(jwt)'
  BY <1>1, <1>2, <1>5, DeliveredMoves
<1>6. ASSUME NEW k \in Requests, At(k, "reply")' PROVE Owned(req[k].minted)'
  <2>1. PICK m : m = req'[k].minted
    OBVIOUS
  <2>2. Owned(m)'
    <3>1. CASE req'[k] = req[k]
      BY <1>2, <1>6, <2>1, <3>1 DEF At
    <3>2. CASE (Create(k) \/ TxCommit(k)) /\ req'[k].minted = req[k].minted
      BY <1>3, <1>4, <2>1, <3>2
    <3>3. QED
      BY <1>6, <3>1, <3>2, LabelMoves DEF At
  <2>3. QED
    BY <2>1, <2>2 DEF Owned, Family
<1>7. QED
  BY <1>5, <1>6

\* A sweep's snapshot covers the family, and goes on covering it until a rotation of the
\* family commits: what a login stores meanwhile is a family of its own.
LEMMA CoveredStep ==
  ASSUME IInv, FInv, Next, Record, NEW h \in Requests
  PROVE  Covered(h)'
<1> SUFFICES ASSUME req'[h].pc = "sweeping", h \notin overtaken',
                    NEW s \in Tokens, root'[s] = root'[req'[h].presented.jti], Live(s)'
             PROVE  s \in req'[h].snap
  BY DEF Covered, At, Family
<1>1. CASE Sweep(h) /\ req'[h].presented = req[h].presented
           /\ req'[h].snap = {t \in Tokens : Live(t) /\ rows[t].userId = req[h].record.userId}
  <2>1. /\ req[h].presented \in delivered
        /\ req[h].record.userId = req[h].presented.sub
    BY <1>1, NullAssumption DEF Sweep, At, IInv, HandlerInv, LocalsOK, ServesOwner
  <2>2. root' = root /\ rows' = rows
    BY <1>1 DEF Sweep, Record, FInv, FTypeOK
  <2>3. s \in Family(req[h].presented.jti) /\ Live(s)
    BY <1>1, <2>2 DEF Family, Live
  <2>4. QED
    BY <1>1, <2>1, <2>3 DEF FInv, Owned, Live, Family
<1>2. CASE req'[h] = req[h]
  <2> DEFINE p == req[h].presented
  <2>1. /\ req[h].pc = "sweeping" /\ p \in delivered
        /\ p.jti \in Tokens /\ origin[p.jti] # Unsigned
    BY <1>2, NullAssumption, DeliveredSigned DEF IInv, HandlerInv, LocalsOK, ServesOwner
  <2>2. h \notin overtaken /\ ~Overtaking(h)
    BY <1>2, <2>1 DEF Record, At
  <2>3. s \in Tokens /\ root'[s] = root[p.jti] /\ rows'[s] # NoRow /\ ~rows'[s].revoked
    BY <1>2, <2>1, RootKept DEF Family, Live
  <2>4. CASE rows[s] # NoRow /\ ~rows[s].revoked
    <3>1. s \in Family(p.jti)
      BY <2>3, <2>4, RootKept DEF IInv, RowsOwned, Family
    <3>2. QED
      BY <1>2, <2>1, <2>2, <2>4, <3>1 DEF FInv, Covered, At, Live
  <2>5. ASSUME NEW k \in Requests, Create(k), s = req[k].minted.jti PROVE FALSE
    <3>1. req[k].pc = "create" /\ origin[s] # Unsigned
      BY <2>5 DEF Create, At, IInv, HandlerInv, Fresh, Issuing
    <3>2. s = p.jti
      BY <2>1, <2>3, <2>5, <3>1, RootKept DEF FInv, Alone
    <3>3. QED
      BY <2>1, <2>5, <3>1, <3>2 DEF IInv, HandlerInv, Fresh, Issuing
  <2>6. ASSUME NEW k \in Requests, TxCommit(k), s = req[k].minted.jti PROVE FALSE
    <3>1. req[k].pc = "commit" /\ req[k].presented # NoJwt
      BY <2>6, NullAssumption DEF TxCommit, At, IInv, HandlerInv, LocalsOK
    <3>2. Checked(k)
      BY <3>1 DEF Checked, Rotating, TicketPcs
    <3>3. req[k].presented.jti \in Tokens /\ origin[s] = req[k].presented.jti
      BY <2>6, <3>1, <3>2, CheckedDelivered DEF IInv, HandlerInv, ServesOwner
    <3>4. root[s] = root[req[k].presented.jti] /\ origin[s] # Unsigned
      BY <2>3, <3>3, NullAssumption DEF FInv, Rooted
    <3>5. req[k].presented.jti \in Family(p.jti)
      BY <2>3, <3>3, <3>4, RootKept DEF Family
    <3>6. QED
      BY <2>2, <2>6, <3>2, <3>5 DEF Overtaking, Rotates
  <2>7. QED
    BY <2>3, <2>4, <2>5, <2>6, RowMoves
<1>3. QED
  BY <1>1, <1>2, LabelMoves

\* A sweep that no rotation of the family has overtaken, and none outlasts, settles it:
\* its snapshot held whatever was usable of the family, and it revokes the snapshot.
LEMMA SweepSettles ==
  ASSUME IInv, FInv, Record, NEW h \in Requests, SweepDone(h), h \notin overtaken,
         ~InFlight(h), NEW t \in Tokens, t = req[h].presented.jti
  PROVE  Settled(t)'
<1>1. /\ req[h].pc = "sweeping" /\ rows' = Revoke(req[h].snap) /\ delivered' = delivered
      /\ req'[h] = Idle /\ \A k \in Requests \ {h} : req'[k] = req[k]
  BY DEF SweepDone, At, IInv, TypeOK
<1>2. req[h].presented \in delivered
  BY <1>1, NullAssumption DEF IInv, HandlerInv, LocalsOK, ServesOwner
<1>3. Family(t)' = Family(t)
  <2>1. root' = root
    BY DEF SweepDone, Record, FInv, FTypeOK
  <2>2. QED
    BY <2>1 DEF Family
<1>4. ASSUME NEW s \in Family(t), Live(s)' PROVE FALSE
  <2>1. s \in Tokens /\ rows'[s] # NoRow /\ ~rows'[s].revoked
    BY <1>4 DEF Family, Live
  <2>2. rows[s] # NoRow /\ rows[s] \in Row
    BY <1>1, <2>1, RevokeRows DEF IInv, TypeOK, Handler
  <2>3. s \notin req[h].snap /\ ~rows[s].revoked
    BY <1>1, <2>1, <2>2 DEF Revoke, Row
  <2>4. QED
    BY <1>1, <1>4, <2>2, <2>3 DEF FInv, Covered, At, Live
<1>5. ASSUME NEW k \in Requests, Checked(k)' PROVE req'[k].presented.jti \notin Family(t)
  <2>1. k # h /\ Checked(k)
    BY <1>1, <1>5, IdleHandler DEF Checked, Rotating
  <2>2. QED
    BY <1>1, <2>1 DEF InFlight, Rotates
<1>6. QED
  BY <1>1, <1>2, <1>3, <1>4, <1>5 DEF Settled

LEMMA FInvInit == FInit => FInv
BY NullAssumption
   DEF FInit, Init, Idle, FInv, FTypeOK, Rooted, Alone, Covered, At

LEMMA FInvStep ==
  ASSUME IInv, FInv, [Next /\ Record]_fvars
  PROVE  FInv'
<1>1. CASE UNCHANGED fvars
  BY <1>1 DEF fvars, vars, FInv, FTypeOK, Rooted, Alone, Owned, Covered, At, Settled, Family,
              Live, Checked, Rotating
<1>2. CASE Next /\ Record
  <2>1. FTypeOK' /\ Rooted' /\ \A k \in Requests : Alone(k)'
    BY <1>2, RootedStep, AloneStep
  <2>2. ASSUME NEW t \in calm' PROVE Settled(t)'
    <3>1. CASE t \in calm
      BY <1>2, <3>1, SettledStep DEF FInv, FTypeOK
    <3>2. CASE t \notin calm
      <4>1. PICK h \in Requests : /\ SweepDone(h) /\ h \notin overtaken /\ ~InFlight(h)
                                  /\ t = req[h].presented.jti
        BY <1>2, <3>2 DEF Record, PresentedBy, Swept
      <4>2. t \in Tokens
        BY <2>1 DEF FTypeOK
      <4>3. QED
        BY <1>2, <4>1, <4>2, SweepSettles
    <3>3. QED
      BY <3>1, <3>2
  <2>3. QED
    BY <1>2, <2>1, <2>2, OwnedNext, CoveredStep DEF FInv
<1>3. QED
  BY <1>1, <1>2

\* The histories do not disturb the inductive invariant of RefreshTokens.
LEMMA FamiliesInductive == FSpec => []IInv
<1>1. FInit => Init
  BY DEF FInit
<1>2. [Next /\ Record]_fvars => [Next]_vars
  BY DEF fvars, vars
<1>3. QED
  BY <1>1, <1>2, InductiveInvariant, PTL DEF FSpec, Spec

\* A replayed refresh token revokes its whole family, for good, unless a rotation of the
\* family commits while the sweep runs or is still past the check of refresh when it ends:
\* only such a rotation escapes the sweep, never a login, a failure, a restart, a logout
\* or a second replay.
THEOREM CalmReplayEndsFamily == FSpec => []CalmReplayRevokesFamily
<1>1. FSpec => []IInv
  BY FamiliesInductive
<1>2. FInit => FInv
  BY FInvInit
<1>3. IInv /\ FInv /\ [Next /\ Record]_fvars => FInv'
  BY FInvStep
<1>4. FInv => CalmReplayRevokesFamily
  BY DEF FInv, Settled, CalmReplayRevokesFamily
<1>5. QED
  BY <1>1, <1>2, <1>3, <1>4, PTL DEF FSpec

----------------------------------------------------------------------------
(* A refresh token is exchanged at most once, unless two requests race for  *)
(* the exchange: nothing in the code makes them wait for each other before  *)
(* the UPDATE of rotate, so that is the whole of what clients have to see   *)
(* to.                                                                      *)

\* Nothing is stored yet in exchange for the token a handler is exchanging, unless that
\* was done while the handler was past the check already.
Unspent(h) ==
  Checked(h) => \/ req[h].presented.jti \in raced
                \/ \A s \in Tokens : rows[s] # NoRow => origin[s] # req[h].presented.jti

Once == SingleUseUnlessRaced /\ \A h \in Requests : Unspent(h)

LEMMA UnspentStep ==
  ASSUME IInv, Next, Record, \A k \in Requests : Unspent(k), NEW h \in Requests
  PROVE  Unspent(h)'
<1> SUFFICES ASSUME Checked(h)', req'[h].presented.jti \notin raced',
                    NEW s \in Tokens, rows'[s] # NoRow
             PROVE  origin'[s] # req'[h].presented.jti
  BY DEF Unspent
<1>1. CASE FindLive(h) /\ req'[h].presented = req[h].presented
  <2>1. UNCHANGED <<rows, origin>>
    BY <1>1 DEF FindLive
  <2>2. rows[req[h].presented.jti] # NoRow /\ ~rows[req[h].presented.jti].revoked
    BY <1>1 DEF FindLive
  <2>3. req[h].presented.jti \in Tokens
    BY <1>1 DEF FindLive, At, IInv, HandlerInv, LocalsOK, Jwt
  <2>4. QED
    BY <1>1, <2>1, <2>2, <2>3 DEF IInv, RotationAtomic
<1>2. CASE Checked(h) /\ req'[h].presented = req[h].presented
  <2>1. req[h].presented.jti \in Tokens
    BY <1>2, CheckedDelivered
  <2>2. ASSUME NEW k \in Requests, TxCommit(k), Checked(k)
        PROVE  req[k].presented.jti # req[h].presented.jti
    <3>1. req'[k].pc = "reply"
      BY <2>2 DEF TxCommit, IInv, TypeOK, Handler
    <3>2. k # h
      BY <3>1 DEF Checked, TicketPcs
    <3>3. Rivals(k, h) => req[k].presented.jti \in raced'
      BY <2>2 DEF Record, Contested, PresentedBy
    <3>4. QED
      BY <1>2, <2>2, <3>2, <3>3 DEF Rivals
  <2>3. rows[s] # NoRow => origin[s] # req[h].presented.jti
    <3>1. raced \subseteq raced'
      BY DEF Record
    <3>2. QED
      BY <1>2, <3>1 DEF Unspent
  <2>4. QED
    BY <1>2, <2>1, <2>2, <2>3, NewRows, NullAssumption
<1>3. QED
  BY <1>1, <1>2, CheckedMoves

LEMMA SingleUseStep ==
  ASSUME IInv, Next, Record, \A k \in Requests : Unspent(k), SingleUseUnlessRaced
  PROVE  SingleUseUnlessRaced'
<1> SUFFICES ASSUME NEW s \in Tokens, NEW t \in Tokens,
                    origin'[s] \in Tokens \ raced', origin'[s] = origin'[t],
                    rows'[s] # NoRow, rows'[t] # NoRow
             PROVE  s = t
  BY DEF SingleUseUnlessRaced
<1> DEFINE Old(x) == rows[x] # NoRow /\ origin'[x] = origin[x]
           New(x, h) == TxCommit(h) /\ Checked(h) /\ x = req[h].minted.jti
                          /\ origin'[x] = req[h].presented.jti
<1>1. ASSUME NEW x \in Tokens, rows'[x] # NoRow, origin'[x] \in Tokens
      PROVE  Old(x) \/ \E h \in Requests : New(x, h)
  BY <1>1, NewRows, NullAssumption
<1>2. raced \subseteq raced'
  BY DEF Record
<1>3. ASSUME NEW x \in Tokens, NEW y \in Tokens, NEW h \in Requests,
             Old(x), New(y, h), origin'[y] \notin raced'
      PROVE  origin'[x] # origin'[y]
  BY <1>2, <1>3 DEF Unspent
<1>4. ASSUME NEW h \in Requests, NEW k \in Requests, New(s, h), New(t, k) PROVE s = t
  <2>1. h # k => Rivals(h, k)
    BY <1>4 DEF Rivals
  <2>2. Rivals(h, k) => req[h].presented.jti \in raced'
    BY <1>4 DEF Record, Contested, PresentedBy
  <2>3. QED
    BY <1>4, <2>1, <2>2
<1>5. Old(s) /\ Old(t) => s = t
  BY <1>2 DEF SingleUseUnlessRaced
<1> HIDE DEF Old, New
<1>6. QED
  BY <1>1, <1>3, <1>4, <1>5

\* A refresh token is exchanged at most once unless a second request is past the check
\* with it when the first exchange commits: it is the overlap alone that breaks the
\* promise of the test, never a failed statement, a lost answer, a restart, a logout or
\* a replay.
THEOREM UsedOnceUnlessRaced == FSpec => []SingleUseUnlessRaced
<1>1. FInit => Once
  BY NullAssumption DEF FInit, Init, Idle, Once, SingleUseUnlessRaced, Unspent, Checked, TicketPcs
<1>2. IInv /\ Once /\ [Next /\ Record]_fvars => Once'
  <2>1. CASE UNCHANGED fvars
    BY <2>1 DEF fvars, vars, Once, SingleUseUnlessRaced, Unspent, Checked, Rotating
  <2>2. QED
    BY <2>1, UnspentStep, SingleUseStep DEF Once
<1>3. Once => SingleUseUnlessRaced
  BY DEF Once
<1>4. QED
  BY <1>1, <1>2, <1>3, FamiliesInductive, PTL DEF FSpec

=============================================================================
