------------------------- MODULE TokenLedger_proofs -------------------------
(***************************************************************************)
(* The handlers of RefreshTokens implement TokenLedger: every step of one  *)
(* is a step of the ledger.  The invariants supply what the steps do not   *)
(* say: that the jti a handler stores is absent, that the token exchanged  *)
(* by a COMMIT is still stored, and that the rows a sweep revokes belong   *)
(* to one user although its snapshot of them is several steps old.         *)
(***************************************************************************)
EXTENDS RefreshTokens_proofs

\* What one handler does to the tickets.
LEMMA TicketsMove ==
  ASSUME IInv, NEW h \in Requests, NEW s, req' = [req EXCEPT ![h] = s]
  PROVE  /\ req'[h] = s
         /\ \A k \in Requests \ {h} : (Checked(k)' <=> Checked(k)) /\ req'[k] = req[k]
<1>1. req'[h] = s /\ \A k \in Requests \ {h} : req'[k] = req[k]
  BY DEF IInv, TypeOK
<1>2. QED
  BY <1>1 DEF Checked, Rotating

\* A step of a handler that is past the check neither before nor after it.
LEMMA SameTickets ==
  ASSUME IInv, NEW h \in Requests, NEW s, req' = [req EXCEPT ![h] = s],
         ~Checked(h), ~(s.pc \in TicketPcs /\ s.presented # NoJwt)
  PROVE  ticketsBar' = ticketsBar
<1>1. ~Checked(h)'
  BY TicketsMove DEF Checked, Rotating
<1>2. {k \in Requests : Checked(k)'} = {k \in Requests : Checked(k)}
  BY <1>1, TicketsMove
<1>3. \A k \in Requests : Checked(k) => req'[k].presented = req[k].presented
  BY TicketsMove
<1>4. QED
  BY <1>2, <1>3 DEF ticketsBar

LEMMA TicketsLeft ==
  ASSUME IInv, NEW h \in Requests, NEW s, req' = [req EXCEPT ![h] = s], ~Checked(h)'
  PROVE  ticketsBar' = ticketsBar \ {<<h, req[h].presented.jti>>}
<1>1. {k \in Requests : Checked(k)'} = {k \in Requests : Checked(k)} \ {h}
  BY TicketsMove
<1>2. \A k \in Requests \ {h} : req'[k].presented.jti = req[k].presented.jti
  BY TicketsMove
<1>3. QED
  BY <1>1, <1>2 DEF ticketsBar

LEMMA TicketsGained ==
  ASSUME IInv, NEW h \in Requests, NEW s, req' = [req EXCEPT ![h] = s],
         Checked(h)', ~Checked(h), req'[h].presented = req[h].presented
  PROVE  ticketsBar' = ticketsBar \cup {<<h, req[h].presented.jti>>}
<1>1. {k \in Requests : Checked(k)'} = {k \in Requests : Checked(k)} \cup {h}
  BY TicketsMove
<1>2. \A k \in Requests : req'[k].presented.jti = req[k].presented.jti
  BY TicketsMove
<1>3. QED
  BY <1>1, <1>2 DEF ticketsBar

\* A step that leaves the rows alone and lets nobody pass the check of refresh gives up
\* the tickets of the handlers it stops, if any.
LEMMA Forfeits ==
  ASSUME UNCHANGED rows,
         \A k \in Requests : Checked(k)' => Checked(k) /\ req'[k].presented = req[k].presented
  PROVE  Ledger!Next
<1>1. UNCHANGED <<statusBar, holderBar>>
  BY DEF statusBar, holderBar
<1>2. ticketsBar' \subseteq ticketsBar
  BY DEF ticketsBar
<1>3. PICK S \in SUBSET ticketsBar : S = ticketsBar \ ticketsBar'
  OBVIOUS
<1>4. ticketsBar' = ticketsBar \ S
  BY <1>2, <1>3
<1>5. Ledger!Forfeit(S)
  BY <1>1, <1>4 DEF Ledger!Forfeit
<1>6. QED
  BY <1>5 DEF Ledger!Next

\* The same for a step of one handler that is not past the check after it, or was before.
LEMMA HandlerForfeits ==
  ASSUME IInv, NEW h \in Requests, NEW s, req' = [req EXCEPT ![h] = s], UNCHANGED rows,
         s.pc \in TicketPcs /\ s.presented # NoJwt =>
           Checked(h) /\ s.presented = req[h].presented
  PROVE  Ledger!Next
<1>1. Checked(h)' => Checked(h) /\ req'[h].presented = req[h].presented
  BY TicketsMove DEF Checked, Rotating
<1>2. \A k \in Requests : Checked(k)' => Checked(k) /\ req'[k].presented = req[k].presented
  BY <1>1, TicketsMove
<1>3. QED
  BY <1>2, Forfeits

----------------------------------------------------------------------------
(* The steps that write refresh_tokens *)

\* Rows of one user are revoked.
LEMMA RevokeMaps ==
  ASSUME IInv, NEW h \in Requests, NEW S \in SUBSET Tokens, NEW u \in Users,
         \A t \in S : rows[t] # NoRow => rows[t].userId = u,
         ~Checked(h), rows' = Revoke(S), req' = [req EXCEPT ![h] = Idle]
  PROVE  Ledger!Next
<1>1. PICK T \in SUBSET Tokens : T = {t \in S : rows[t] # NoRow}
  OBVIOUS
<1>2. \A t \in T : holderBar[t] = u
  BY <1>1 DEF holderBar
<1>3. holderBar' = holderBar
  BY RevokeRows DEF holderBar
<1>4. \A t \in T : rows'[t] # NoRow /\ rows'[t].revoked
  <2>1. ASSUME NEW t \in T PROVE rows[t] \in Row /\ rows'[t] = [rows[t] EXCEPT !.revoked = TRUE]
    BY <1>1 DEF Revoke, IInv, TypeOK
  <2>2. QED
    BY <1>1, <2>1, RevokeRows DEF Row
<1>5. \A t \in Tokens \ T : rows'[t] = rows[t]
  BY <1>1 DEF Revoke
<1>6. statusBar' = [t \in Tokens |-> IF t \in T THEN "retired" ELSE statusBar[t]]
  BY <1>4, <1>5 DEF statusBar
<1>7. ticketsBar' = ticketsBar
  BY IdleHandler, SameTickets
<1>8. Ledger!Retire(u, T)
  BY <1>2, <1>3, <1>6, <1>7 DEF Ledger!Retire
<1>9. QED
  BY <1>1, <1>8 DEF Ledger!Next

LEMMA SweepDoneMaps ==
  ASSUME IInv, Snaps, NEW h \in Requests, SweepDone(h)
  PROVE  Ledger!Next
<1>1. req[h] \in Handler /\ req[h].pc = "sweeping" /\ req[h].presented \in Jwt
  BY DEF IInv, TypeOK, SweepDone, At, HandlerInv, LocalsOK
<1>2. PICK u \in Users : u = req[h].presented.sub
  BY <1>1 DEF Jwt
<1>3. PICK S \in SUBSET Tokens : S = req[h].snap
  BY <1>1 DEF Handler
<1>4. \A t \in S : rows[t] # NoRow => rows[t].userId = u
  BY <1>1, <1>2, <1>3 DEF Snaps, SnapOwned
<1>5. ~Checked(h)
  BY <1>1 DEF Checked, TicketPcs
<1>6. QED
  BY <1>3, <1>4, <1>5, RevokeMaps DEF SweepDone

LEMMA LogoutMaps ==
  ASSUME IInv, NEW h \in Requests, LogoutRevoke(h)
  PROVE  Ledger!Next
<1>1. req[h].pc = "revoke" /\ req[h].presented \in Jwt
  BY DEF IInv, TypeOK, LogoutRevoke, At, HandlerInv, LocalsOK
<1>2. PICK u \in Users : u = req[h].presented.sub
  BY <1>1 DEF Jwt
<1>3. PICK S \in SUBSET Tokens : S = {req[h].presented.jti}
  BY <1>1 DEF Jwt
<1>4. \A t \in S : rows[t] # NoRow => rows[t].userId = u
  BY <1>1, <1>2, <1>3, PresentedRow, NullAssumption
<1>5. ~Checked(h)
  BY <1>1 DEF Checked, TicketPcs
<1>6. QED
  BY <1>3, <1>4, <1>5, RevokeMaps DEF LogoutRevoke

\* The row a login or a rotation stores.
LEMMA NewRowFields ==
  ASSUME NEW jwt \in Jwt
  PROVE  /\ NewRow(jwt) \in Row /\ NewRow(jwt) # NoRow
         /\ NewRow(jwt).userId = jwt.sub /\ ~NewRow(jwt).revoked
<1>1. NewRow(jwt) \in Row
  BY DEF NewRow, Row, HashToken, Jwt
<1>2. QED
  BY <1>1, NullAssumption DEF NewRow

LEMMA CreateMaps ==
  ASSUME IInv, NEW h \in Requests, Create(h)
  PROVE  Ledger!Next
<1>1. /\ req[h] \in Handler /\ req[h].pc = "create" /\ req[h].minted \in Jwt
      /\ rows[req[h].minted.jti] = NoRow
  BY DEF IInv, TypeOK, Create, At, HandlerInv, LocalsOK, Fresh, Issuing
<1>2. PICK jwt \in Jwt : jwt = req[h].minted
  BY <1>1
<1>3. PICK u \in Users, t \in Tokens : u = jwt.sub /\ t = jwt.jti
  BY DEF Jwt
<1>4. /\ rows' = [rows EXCEPT ![t] = NewRow(jwt)]
      /\ rows \in [Tokens -> Row \cup {NoRow}] /\ rows[t] = NoRow
  BY <1>1, <1>2, <1>3 DEF Create, IInv, TypeOK
<1>5. /\ statusBar[t] = "absent"
      /\ statusBar' = [statusBar EXCEPT ![t] = "live"]
      /\ holderBar' = [holderBar EXCEPT ![t] = u]
  BY <1>3, <1>4, NewRowFields DEF statusBar, holderBar
<1>6. ticketsBar' = ticketsBar
  <2> DEFINE s == [req[h] EXCEPT !.pc = "reply"]
  <2>1. req' = [req EXCEPT ![h] = s] /\ s.pc = "reply"
    BY <1>1 DEF Create, Handler
  <2> HIDE DEF s
  <2>2. ~Checked(h) /\ s.pc \notin TicketPcs
    BY <1>1, <2>1 DEF Checked, TicketPcs
  <2>3. QED
    BY <2>1, <2>2, SameTickets
<1>7. Ledger!Issue(u, t)
  BY <1>5, <1>6 DEF Ledger!Issue
<1>8. QED
  BY <1>7 DEF Ledger!Next

\* The rotation's COMMIT stores the new token and retires the old one at once.
LEMMA TxCommitMaps ==
  ASSUME IInv, NEW h \in Requests, TxCommit(h)
  PROVE  Ledger!Next
<1>1. /\ req[h] \in Handler /\ req[h].pc = "commit"
      /\ req[h].minted \in Jwt /\ req[h].presented \in Jwt /\ req[h].presented # NoJwt
      /\ req[h].minted.sub = req[h].presented.sub /\ accounts[req[h].minted.sub] # Gone
      /\ rows[req[h].minted.jti] = NoRow
  BY NullAssumption
     DEF IInv, TypeOK, TxCommit, At, HandlerInv, LocalsOK, ServesOwner, Fresh, Issuing
<1>2. PICK jwt \in Jwt, old \in Tokens : jwt = req[h].minted /\ old = req[h].presented.jti
  BY <1>1 DEF Jwt
<1>3. PICK new \in Tokens : new = jwt.jti
  BY DEF Jwt
<1>4. rows[old] \in Row /\ rows[old] # NoRow /\ rows[old].userId = jwt.sub
  BY <1>1, <1>2, PresentedRow DEF Stored
<1>5. old # new /\ rows[new] = NoRow
  BY <1>1, <1>2, <1>3, <1>4
<1>6. PICK row \in Row : row = [rows[old] EXCEPT !.revoked = TRUE, !.replacedBy = new]
  BY <1>4 DEF Row
<1>7. row.revoked /\ row # NoRow /\ row.userId = rows[old].userId
  BY <1>4, <1>6, NullAssumption DEF Row
<1>8. /\ rows \in [Tokens -> Row \cup {NoRow}]
      /\ rows' = [rows EXCEPT ![new] = NewRow(jwt), ![old] = row]
  <2>1. rows \in [Tokens -> Row \cup {NoRow}]
    BY DEF IInv, TypeOK
  <2>2. [rows EXCEPT ![new] = NewRow(jwt)][old] = rows[old]
    BY <1>5, <2>1
  <2>3. QED
    BY <1>2, <1>3, <1>6, <2>1, <2>2 DEF TxCommit
<1>9. /\ rows'[new] = NewRow(jwt) /\ rows'[old] = row
      /\ \A t \in Tokens \ {old, new} : rows'[t] = rows[t]
  BY <1>5, <1>8
<1>10. /\ statusBar[old] # "absent" /\ statusBar[new] = "absent"
       /\ statusBar' = [statusBar EXCEPT ![new] = "live", ![old] = "retired"]
  BY <1>4, <1>5, <1>7, <1>9, NewRowFields DEF statusBar
<1>11. holderBar' = [holderBar EXCEPT ![new] = holderBar[old]]
  BY <1>4, <1>5, <1>7, <1>9, NewRowFields DEF holderBar
<1>12. <<h, old>> \in ticketsBar
  BY <1>1, <1>2 DEF ticketsBar, Checked, TicketPcs, Rotating
<1>13. ticketsBar' = ticketsBar \ {<<h, old>>}
  <2> DEFINE s == [req[h] EXCEPT !.pc = "reply"]
  <2>1. req' = [req EXCEPT ![h] = s] /\ s.pc = "reply"
    BY <1>1 DEF TxCommit, Handler
  <2> HIDE DEF s
  <2>2. ~Checked(h)'
    BY <2>1, TicketsMove DEF Checked, TicketPcs
  <2>3. QED
    BY <1>2, <2>1, <2>2, TicketsLeft
<1>14. Ledger!Redeem(h, old, new)
  BY <1>10, <1>11, <1>12, <1>13 DEF Ledger!Redeem
<1>15. QED
  BY <1>14 DEF Ledger!Next

\* The cascade of a user's deletion.
LEMMA DeleteUserMaps ==
  ASSUME IInv, NEW u \in Users, DeleteUser(u)
  PROVE  Ledger!Next
<1>1. /\ rows' = [t \in Tokens |-> IF rows[t] # NoRow /\ rows[t].userId = u
                                     THEN NoRow ELSE rows[t]]
      /\ UNCHANGED req
  BY DEF DeleteUser
<1>2. statusBar' = [t \in Tokens |-> IF holderBar[t] = u THEN "absent" ELSE statusBar[t]]
  BY <1>1 DEF statusBar, holderBar
<1>3. holderBar' = [t \in Tokens |-> IF holderBar[t] = u THEN NoRow ELSE holderBar[t]]
  BY <1>1 DEF holderBar
<1>4. ticketsBar' = ticketsBar
  BY <1>1 DEF ticketsBar, Checked, Rotating
<1>5. Ledger!Erase(u)
  BY <1>2, <1>3, <1>4 DEF Ledger!Erase
<1>6. QED
  BY <1>5 DEF Ledger!Next

----------------------------------------------------------------------------
(* The steps that only read *)

\* A handler passes the check of refresh only while its token's row is unrevoked.
LEMMA FindLiveMaps ==
  ASSUME IInv, NEW h \in Requests, FindLive(h)
  PROVE  Ledger!Next
<1>1. /\ req[h] \in Handler /\ req[h].pc = "find"
      /\ req[h].presented \in Jwt /\ req[h].presented # NoJwt
  BY NullAssumption DEF IInv, TypeOK, FindLive, At, HandlerInv, LocalsOK
<1>2. PICK t \in Tokens : t = req[h].presented.jti
  BY <1>1 DEF Jwt
<1>3. statusBar[t] = "live" /\ UNCHANGED <<statusBar, holderBar>>
  BY <1>2 DEF FindLive, statusBar, holderBar
<1> DEFINE c == [sub |-> req[h].presented.sub, role |-> req[h].presented.role]
           s == [req[h] EXCEPT !.pc = "sign", !.claims = c]
<1>4. req' = [req EXCEPT ![h] = s]
  BY DEF FindLive
<1> HIDE DEF c
<1>5. s.pc = "sign" /\ s.presented = req[h].presented
  BY <1>1 DEF Handler
<1> HIDE DEF s
<1>6. Checked(h)' /\ ~Checked(h) /\ req'[h].presented = req[h].presented
  <2>1. req'[h] = s
    BY <1>4, TicketsMove
  <2>2. Checked(h)' /\ req'[h].presented = req[h].presented
    BY <1>1, <1>5, <2>1 DEF Checked, Rotating, TicketPcs
  <2>3. ~Checked(h)
    BY <1>1 DEF Checked, TicketPcs
  <2>4. QED
    BY <2>2, <2>3
<1>7. ticketsBar' = ticketsBar \cup {<<h, t>>}
  BY <1>2, <1>4, <1>6, TicketsGained
<1>8. Ledger!Admit(h, t)
  BY <1>3, <1>7 DEF Ledger!Admit
<1>9. QED
  BY <1>8 DEF Ledger!Next

\* A request that arrives holds no ticket.
LEMMA ArriveMaps ==
  ASSUME IInv, NEW h \in Requests, Arrive(h)
  PROVE  Ledger!Next
<1>1. PICK s : req' = [req EXCEPT ![h] = s] /\ ~(s.pc \in TicketPcs /\ s.presented # NoJwt)
  <2>1. ASSUME NEW u \in Users, StartLogin(h, u)
        PROVE  \E s : req' = [req EXCEPT ![h] = s] /\ ~(s.pc \in TicketPcs /\ s.presented # NoJwt)
    <3> DEFINE s == [Idle EXCEPT !.pc = "sign", !.claims = [sub |-> u, role |-> accounts[u]]]
    <3>1. req' = [req EXCEPT ![h] = s] /\ s.presented = NoJwt
      BY <2>1 DEF StartLogin, Idle
    <3> HIDE DEF s
    <3>2. QED
      BY <3>1
  <2>2. ASSUME NEW jwt, StartRefresh(h, jwt) \/ StartLogout(h, jwt)
        PROVE  \E s : req' = [req EXCEPT ![h] = s] /\ ~(s.pc \in TicketPcs /\ s.presented # NoJwt)
    <3>1. PICK label \in {"find", "revoke"} :
            req' = [req EXCEPT ![h] = [Idle EXCEPT !.pc = label, !.presented = jwt]]
      BY <2>2 DEF StartRefresh, StartLogout
    <3> DEFINE s == [Idle EXCEPT !.pc = label, !.presented = jwt]
    <3>2. s.pc = label
      BY DEF Idle
    <3> HIDE DEF s
    <3>3. req' = [req EXCEPT ![h] = s]
      BY <3>1 DEF s
    <3>4. QED
      BY <3>2, <3>3 DEF TicketPcs
  <2>3. QED
    BY <2>1, <2>2 DEF Arrive
<1>2. UNCHANGED rows
  BY DEF Arrive, StartLogin, StartRefresh, StartLogout
<1>3. QED
  BY <1>1, <1>2, HandlerForfeits

\* The handler goes on to its next await, and keeps the ticket it has.
LEMMA OnwardMaps ==
  ASSUME IInv, NEW h \in Requests,
         \/ FindSpent(h) \/ Sweep(h) \/ TxInsert(h) \/ TxUpdate(h)
         \/ \E t \in Tokens : Sign(h, t)
  PROVE  Ledger!Next
<1>1. req[h] \in Handler /\ UNCHANGED rows
  BY DEF IInv, TypeOK, FindSpent, Sweep, TxInsert, TxUpdate, Sign
<1>2. CASE FindSpent(h)
  <2> DEFINE s == [req[h] EXCEPT !.pc = "sweep", !.record = rows[req[h].presented.jti]]
  <2>1. req' = [req EXCEPT ![h] = s] /\ s.pc = "sweep"
    BY <1>1, <1>2 DEF FindSpent, Handler
  <2> HIDE DEF s
  <2>2. QED
    BY <1>1, <2>1, HandlerForfeits DEF TicketPcs
<1>3. CASE Sweep(h)
  <2> DEFINE snap == {t \in Tokens : Live(t) /\ rows[t].userId = req[h].record.userId}
             s == [req[h] EXCEPT !.pc = "sweeping", !.snap = snap]
  <2>1. req' = [req EXCEPT ![h] = s]
    BY <1>3 DEF Sweep
  <2> HIDE DEF snap
  <2>2. s.pc = "sweeping"
    BY <1>1 DEF Handler
  <2> HIDE DEF s
  <2>3. QED
    BY <1>1, <2>1, <2>2, HandlerForfeits DEF TicketPcs
<1>4. ASSUME TxInsert(h) \/ TxUpdate(h) PROVE Ledger!Next
  <2>1. req[h].pc \in TicketPcs
    BY <1>4 DEF TxInsert, TxUpdate, At, TicketPcs
  <2>2. PICK label : req' = [req EXCEPT ![h] = [req[h] EXCEPT !.pc = label]]
    BY <1>1, <1>4 DEF TxInsert, TxUpdate, IInv, TypeOK
  <2> DEFINE s == [req[h] EXCEPT !.pc = label]
  <2>3. s.presented = req[h].presented
    BY <1>1 DEF Handler
  <2> HIDE DEF s
  <2>4. req' = [req EXCEPT ![h] = s]
    BY <2>2 DEF s
  <2>5. QED
    BY <1>1, <2>1, <2>3, <2>4, HandlerForfeits DEF Checked, Rotating
<1>5. ASSUME NEW t \in Tokens, Sign(h, t) PROVE Ledger!Next
  <2> DEFINE jwt == [jti |-> t, sub |-> req[h].claims.sub,
                     role |-> req[h].claims.role, exp |-> clock + RefreshTtl]
             label == IF Rotating(h) THEN "insert" ELSE "create"
             s == [req[h] EXCEPT !.pc = label, !.minted = jwt]
  <2>0. req' = [req EXCEPT ![h] = s]
    BY <1>5 DEF Sign
  <2>1. req[h].pc \in TicketPcs
    BY <1>5 DEF Sign, At, TicketPcs
  <2> HIDE DEF jwt, label
  <2>2. s.presented = req[h].presented
    BY <1>1 DEF Handler
  <2> HIDE DEF s
  <2>3. QED
    BY <1>1, <2>0, <2>1, <2>2, HandlerForfeits DEF Checked, Rotating
<1>6. QED
  BY <1>2, <1>3, <1>4, <1>5

\* The handler stops: answered, refused, or failed.
LEMMA StopMaps ==
  ASSUME IInv, NEW h \in Requests,
         FindUnknown(h) \/ ForeignKeyViolation(h) \/ Reply(h) \/ DbFailure(h)
  PROVE  Ledger!Next
<1>1. req' = [req EXCEPT ![h] = Idle] /\ UNCHANGED rows
  BY DEF FindUnknown, ForeignKeyViolation, Reply, DbFailure
<1>2. QED
  BY <1>1, IdleHandler, HandlerForfeits

\* Steps of nobody's handler that leave the rows alone.
LEMMA EnvironmentMaps ==
  ASSUME (\E u \in Users, r \in Roles : ChangeRole(u, r)) \/ Tick \/ Restart \/ UNCHANGED vars
  PROVE  Ledger!Next
<1>1. UNCHANGED rows /\ \A k \in Requests : req'[k] = req[k] \/ req'[k] = Idle
  BY DEF ChangeRole, Tick, Restart, vars
<1>2. \A k \in Requests : Checked(k)' => Checked(k) /\ req'[k].presented = req[k].presented
  BY <1>1, IdleHandler DEF Checked, Rotating
<1>3. QED
  BY <1>1, <1>2, Forfeits

----------------------------------------------------------------------------

LEMMA InitMaps == Init => Ledger!Init
<1> SUFFICES ASSUME Init PROVE Ledger!Init
  OBVIOUS
<1>1. \A h \in Requests : ~Checked(h)
  BY IdleHandler DEF Init, Checked, Rotating
<1>2. ticketsBar = {}
  BY <1>1 DEF ticketsBar
<1>3. QED
  BY <1>2 DEF Init, Ledger!Init, statusBar, holderBar

LEMMA NextMaps == IInv /\ Snaps /\ [Next]_vars => [Ledger!Next]_(Ledger!ledger)
<1> SUFFICES ASSUME IInv, Snaps, [Next]_vars PROVE Ledger!Next
  OBVIOUS
<1>1. ASSUME NEW h \in Requests, Arrive(h) \/ Step(h) \/ DbFailure(h) PROVE Ledger!Next
  <2>1. CASE Arrive(h)
    BY <2>1, ArriveMaps
  <2>2. CASE Step(h)
    BY <2>2, FindLiveMaps, SweepDoneMaps, LogoutMaps, CreateMaps, TxCommitMaps, OnwardMaps,
       StopMaps DEF Step
  <2>3. CASE DbFailure(h)
    BY <2>3, StopMaps
  <2>4. QED
    BY <1>1, <2>1, <2>2, <2>3
<1>2. CASE Environment
  BY <1>2, DeleteUserMaps, EnvironmentMaps DEF Environment
<1>3. QED
  BY <1>1, <1>2, EnvironmentMaps DEF Next

\* The statements of concurrent handlers add up to the ledger: only a token that was live
\* when it was read is exchanged, the exchange is one step, and retirement is final.
THEOREM LedgerImplemented == Spec => ImplementsLedger
<1>1. Init => Snaps
  BY IdleHandler DEF Init, Snaps, SnapOwned
<1>2. IInv /\ Snaps /\ [Next]_vars => Snaps'
  BY SnapsNext
<1>3. Spec => []IInv
  BY InductiveInvariant
<1>4. QED
  BY InitMaps, NextMaps, <1>1, <1>2, <1>3, PTL DEF Spec, ImplementsLedger, Ledger!Spec

=============================================================================
