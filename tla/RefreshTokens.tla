--------------------------- MODULE RefreshTokens ---------------------------
(***************************************************************************)
(* Login, refresh and logout of one backend over the refresh_tokens table: *)
(* AuthUsecase, RefreshTokenRepository and the statements PostgreSQL runs  *)
(* for them.  Requests are served concurrently; each is a handler that     *)
(* goes through the awaits of its use case, one action per await, so any   *)
(* other request may run between two of them.                              *)
(*                                                                         *)
(* A transaction's writes become visible when it commits (READ COMMITTED). *)
(* Only the rotation is a transaction of more than one statement: its new  *)
(* row stays in req[h].minted until TxCommit, and the row it updates is    *)
(* locked from TxUpdate until the transaction ends.                        *)
(***************************************************************************)
EXTENDS Naturals, FiniteSets

CONSTANTS
  Users,       \* rows of the users table
  Roles,       \* 'admin', 'member', 'viewer'
  Tokens,      \* the jtis randomUUID can return, bounded for TLC
  Requests,    \* handlers that may be in flight at the same time
  RefreshTtl,  \* JWT_REFRESH_EXPIRES_IN, in ticks
  MaxClock,    \* bound on the clock
  NoToken, NoJwt, NoRow, NoClaims,  \* null
  Unsigned,    \* the origin of a jti that randomUUID has not returned yet
  Gone         \* the role of a user whose row was deleted

ASSUME ClockAssumption == RefreshTtl \in Nat \ {0} /\ MaxClock \in Nat

Claims == [sub : Users, role : Roles]
Jwt    == [jti : Tokens, sub : Users, role : Roles, exp : Nat]

\* hashToken: SHA-256 of the signed token, injective on the tokens signed.
HashToken(jwt) == [sha256 |-> jwt]

Row == [userId : Users, tokenHash : [sha256 : Jwt], revoked : BOOLEAN,
        replacedBy : Tokens \cup {NoToken}]

ASSUME NullAssumption ==
  /\ NoToken \notin Tokens /\ Unsigned \notin Tokens \cup {NoToken}
  /\ NoJwt \notin Jwt /\ NoRow \notin Row /\ NoClaims \notin Claims
  /\ Gone \notin Roles

VARIABLES
  accounts,   \* users: the role of each user, or Gone
  rows,       \* refresh_tokens: the committed row of each id, or NoRow
  origin,     \* Unsigned, or the rotatedFromId (NoToken at a login) its jti was signed for
  delivered,  \* the refresh tokens that reached a client in a cookie
  clock,
  req         \* the handlers: where each is, and its local variables

vars == <<accounts, rows, origin, delivered, clock, req>>

Pcs == {"idle", "find", "sweep", "sweeping", "sign", "create", "insert",
        "update", "commit", "reply", "revoke"}

Handler == [pc : Pcs, presented : Jwt \cup {NoJwt}, record : Row \cup {NoRow},
            claims : Claims \cup {NoClaims}, minted : Jwt \cup {NoJwt}, snap : SUBSET Tokens]

Idle == [pc |-> "idle", presented |-> NoJwt, record |-> NoRow,
         claims |-> NoClaims, minted |-> NoJwt, snap |-> {}]

At(h, label) == req[h].pc = label
Rotating(h)  == req[h].presented # NoJwt
Live(t)      == rows[t] # NoRow /\ ~rows[t].revoked
Expired(jwt) == clock >= jwt.exp

\* The handlers that have not taken their jti yet; a request only starts
\* while the bounded pool has one left for it.
Unminted == {h \in Requests : req[h].pc \in {"find", "sign"}}
JtisLeft == Cardinality({t \in Tokens : origin[t] = Unsigned}) > Cardinality(Unminted)

\* Rows of refresh_tokens locked by a transaction of another handler, and the
\* users row its INSERT references, which the foreign key keeps from deletion.
Locked(t, h) == \E k \in Requests \ {h} : At(k, "commit") /\ req[k].presented.jti = t
Referenced(u) == \E k \in Requests : req[k].pc \in {"update", "commit"}
                                       /\ req[k].minted.sub = u

Revoke(S) == [t \in Tokens |-> IF t \in S /\ rows[t] # NoRow
                                 THEN [rows[t] EXCEPT !.revoked = TRUE] ELSE rows[t]]
\* Mutant: the token itself is stored, not its hash.
NewRowUnhashed(jwt) == [userId |-> jwt.sub, tokenHash |-> jwt,
                        revoked |-> FALSE, replacedBy |-> NoToken]
NewRow(jwt) == [userId |-> jwt.sub, tokenHash |-> HashToken(jwt),
                revoked |-> FALSE, replacedBy |-> NoToken]

Init ==
  /\ accounts \in [Users -> Roles]
  /\ rows = [t \in Tokens |-> NoRow]
  /\ origin = [t \in Tokens |-> Unsigned]
  /\ delivered = {}
  /\ clock = 0
  /\ req = [h \in Requests |-> Idle]

----------------------------------------------------------------------------
(* Login: validateCredentials has read the user, issueTokens signs for it. *)

StartLogin(h, u) ==
  /\ At(h, "idle") /\ JtisLeft /\ accounts[u] # Gone
  /\ req' = [req EXCEPT ![h] = [Idle EXCEPT !.pc = "sign",
               !.claims = [sub |-> u, role |-> accounts[u]]]]
  /\ UNCHANGED <<accounts, rows, origin, delivered, clock>>

(* Refresh: the presented token verifies, then its row is looked up. *)

StartRefresh(h, jwt) ==
  /\ At(h, "idle") /\ JtisLeft /\ ~Expired(jwt)
  /\ req' = [req EXCEPT ![h] = [Idle EXCEPT !.pc = "find", !.presented = jwt]]
  /\ UNCHANGED <<accounts, rows, origin, delivered, clock>>

FindUnknown(h) ==                                                  \* 401
  /\ At(h, "find") /\ rows[req[h].presented.jti] = NoRow
  /\ req' = [req EXCEPT ![h] = Idle]
  /\ UNCHANGED <<accounts, rows, origin, delivered, clock>>

FindSpent(h) ==
  LET record == rows[req[h].presented.jti] IN
  /\ At(h, "find") /\ record # NoRow
  /\ record.revoked \/ record.tokenHash # HashToken(req[h].presented)
  /\ req' = [req EXCEPT ![h].pc = "sweep", ![h].record = record]
  /\ UNCHANGED <<accounts, rows, origin, delivered, clock>>

\* Mutant: the lookup does not test revokedAt.
FindLiveUnchecked(h) ==
  LET payload == req[h].presented IN
  /\ At(h, "find") /\ rows[payload.jti] # NoRow
  /\ req' = [req EXCEPT ![h].pc = "sign",
               ![h].claims = [sub |-> payload.sub, role |-> payload.role]]
  /\ UNCHANGED <<accounts, rows, origin, delivered, clock>>

\* The claims are the token's own; the users table is not read again.
FindLive(h) ==
  LET payload == req[h].presented
      record  == rows[payload.jti] IN
  /\ At(h, "find") /\ record # NoRow
  /\ ~record.revoked /\ record.tokenHash = HashToken(payload)
  /\ req' = [req EXCEPT ![h].pc = "sign",
               ![h].claims = [sub |-> payload.sub, role |-> payload.role]]
  /\ UNCHANGED <<accounts, rows, origin, delivered, clock>>

\* Mutant: the UPDATE's WHERE has lost the user.
SweepAllUsers(h) ==
  /\ At(h, "sweep")
  /\ req' = [req EXCEPT ![h].pc = "sweeping", ![h].snap = {t \in Tokens : Live(t)}]
  /\ UNCHANGED <<accounts, rows, origin, delivered, clock>>

\* Mutant: only the replayed token is revoked (revoke for revokeAllForUser).
SweepDoneOne(h) ==
  /\ At(h, "sweeping") /\ \A t \in req[h].snap : ~Locked(t, h)
  /\ rows' = Revoke({req[h].presented.jti})
  /\ req' = [req EXCEPT ![h] = Idle]
  /\ UNCHANGED <<accounts, origin, delivered, clock>>

\* revokeAllForUser is one UPDATE: its snapshot decides which rows it visits,
\* it waits for the rows another transaction has locked, and then it changes
\* those that are still unrevoked.
Sweep(h) ==
  /\ At(h, "sweep")
  /\ req' = [req EXCEPT ![h].pc = "sweeping",
               ![h].snap = {t \in Tokens : Live(t) /\ rows[t].userId = req[h].record.userId}]
  /\ UNCHANGED <<accounts, rows, origin, delivered, clock>>

SweepDone(h) ==                                                    \* 401
  /\ At(h, "sweeping") /\ \A t \in req[h].snap : ~Locked(t, h)
  /\ rows' = Revoke(req[h].snap)
  /\ req' = [req EXCEPT ![h] = Idle]
  /\ UNCHANGED <<accounts, origin, delivered, clock>>

(* issueRefreshToken: a fresh jti, the signed token, and its row. *)

Sign(h, t) ==
  LET claims == req[h].claims IN
  /\ At(h, "sign") /\ origin[t] = Unsigned
  /\ origin' = [origin EXCEPT ![t] = IF Rotating(h) THEN req[h].presented.jti ELSE NoToken]
  /\ req' = [req EXCEPT ![h].pc = IF Rotating(h) THEN "insert" ELSE "create",
               ![h].minted = [jti |-> t, sub |-> claims.sub, role |-> claims.role,
                              exp |-> clock + RefreshTtl]]
  /\ UNCHANGED <<accounts, rows, delivered, clock>>

Create(h) ==
  LET new == req[h].minted IN
  /\ At(h, "create") /\ accounts[new.sub] # Gone
  /\ rows' = [rows EXCEPT ![new.jti] = NewRow(new)]
  /\ req' = [req EXCEPT ![h].pc = "reply"]
  /\ UNCHANGED <<accounts, origin, delivered, clock>>

(* rotate: the INSERT and the UPDATE in one transaction. *)

TxInsert(h) ==
  /\ At(h, "insert") /\ accounts[req[h].minted.sub] # Gone
  /\ req' = [req EXCEPT ![h].pc = "update"]
  /\ UNCHANGED <<accounts, rows, origin, delivered, clock>>

\* Mutant: the UPDATE goes through this.repo, outside the transaction.
TxUpdateOutside(h) ==
  /\ At(h, "update") /\ ~Locked(req[h].presented.jti, h)
  /\ rows' = [rows EXCEPT ![req[h].presented.jti].revoked = TRUE,
                          ![req[h].presented.jti].replacedBy = req[h].minted.jti]
  /\ req' = [req EXCEPT ![h].pc = "commit"]
  /\ UNCHANGED <<accounts, origin, delivered, clock>>

\* Mutant: each transaction first share-locks the old row, then upgrades its lock.
TxUpdateUpgrade(h) ==
  /\ At(h, "update")
  /\ \A k \in Requests \ {h} : req[k].pc \in {"update", "commit"} =>
                              req[k].presented.jti # req[h].presented.jti
  /\ req' = [req EXCEPT ![h].pc = "commit"]
  /\ UNCHANGED <<accounts, rows, origin, delivered, clock>>

TxUpdate(h) ==
  /\ At(h, "update") /\ ~Locked(req[h].presented.jti, h)
  /\ req' = [req EXCEPT ![h].pc = "commit"]
  /\ UNCHANGED <<accounts, rows, origin, delivered, clock>>

TxCommit(h) ==
  LET new == req[h].minted
      old == req[h].presented.jti IN
  /\ At(h, "commit")
  /\ rows' = [rows EXCEPT ![new.jti] = NewRow(new),
                          ![old] = [@ EXCEPT !.revoked = TRUE, !.replacedBy = new.jti]]
  /\ req' = [req EXCEPT ![h].pc = "reply"]
  /\ UNCHANGED <<accounts, origin, delivered, clock>>

\* The INSERT's foreign key finds no user: 400, nothing written.
ForeignKeyViolation(h) ==
  /\ req[h].pc \in {"create", "insert"} /\ accounts[req[h].minted.sub] = Gone
  /\ req' = [req EXCEPT ![h] = Idle]
  /\ UNCHANGED <<accounts, rows, origin, delivered, clock>>

Reply(h) ==                                                        \* 200
  /\ At(h, "reply")
  /\ delivered' = delivered \cup {req[h].minted}
  /\ req' = [req EXCEPT ![h] = Idle]
  /\ UNCHANGED <<accounts, rows, origin, clock>>

(* Logout: the presented token verifies, its row is revoked. *)

StartLogout(h, jwt) ==
  /\ At(h, "idle") /\ ~Expired(jwt)
  /\ req' = [req EXCEPT ![h] = [Idle EXCEPT !.pc = "revoke", !.presented = jwt]]
  /\ UNCHANGED <<accounts, rows, origin, delivered, clock>>

LogoutRevoke(h) ==                                                 \* 200
  LET t == req[h].presented.jti IN
  /\ At(h, "revoke") /\ ~Locked(t, h)
  /\ rows' = Revoke({t})
  /\ req' = [req EXCEPT ![h] = Idle]
  /\ UNCHANGED <<accounts, origin, delivered, clock>>

----------------------------------------------------------------------------
(* Failures and the environment. *)

\* The statement a handler awaits fails, its connection or the pool's timeout
\* included; an open transaction rolls back.  At "reply" the statement was
\* applied and only its acknowledgement or the response is lost.
Awaiting == Pcs \ {"idle", "sign"}

\* Mutant: a failed write of the row does not stop the token from being returned.
DbFailureSwallowed(h) ==
  /\ req[h].pc \in Awaiting
  /\ req' = [req EXCEPT ![h] =
               IF req[h].pc \in {"create", "insert", "update", "commit"}
                 THEN [req[h] EXCEPT !.pc = "reply"] ELSE Idle]
  /\ UNCHANGED <<accounts, rows, origin, delivered, clock>>

DbFailure(h) ==
  /\ req[h].pc \in Awaiting
  /\ req' = [req EXCEPT ![h] = Idle]
  /\ UNCHANGED <<accounts, rows, origin, delivered, clock>>

\* The process stops and starts again: every handler and open transaction is gone.
Restart ==
  /\ \E h \in Requests : ~At(h, "idle")
  /\ req' = [h \in Requests |-> Idle]
  /\ UNCHANGED <<accounts, rows, origin, delivered, clock>>

\* SQL run by an operator on the users table; deletion cascades to refresh_tokens.
ChangeRole(u, r) ==
  /\ accounts[u] \notin {Gone, r}
  /\ accounts' = [accounts EXCEPT ![u] = r]
  /\ UNCHANGED <<rows, origin, delivered, clock, req>>

DeleteUser(u) ==
  /\ accounts[u] # Gone /\ ~Referenced(u)
  /\ accounts' = [accounts EXCEPT ![u] = Gone]
  /\ rows' = [t \in Tokens |-> IF rows[t] # NoRow /\ rows[t].userId = u THEN NoRow ELSE rows[t]]
  /\ UNCHANGED <<origin, delivered, clock, req>>

Tick ==
  /\ clock < MaxClock
  /\ clock' = clock + 1
  /\ UNCHANGED <<accounts, rows, origin, delivered, req>>

----------------------------------------------------------------------------

Step(h) ==
  \/ FindUnknown(h) \/ FindSpent(h) \/ FindLive(h)
  \/ Sweep(h) \/ SweepDone(h)
  \/ \E t \in Tokens : Sign(h, t)
  \/ Create(h) \/ TxInsert(h) \/ TxUpdate(h) \/ TxCommit(h)
  \/ ForeignKeyViolation(h) \/ Reply(h)
  \/ LogoutRevoke(h)

Arrive(h) ==
  \/ \E u \in Users : StartLogin(h, u)
  \/ \E jwt \in delivered : StartRefresh(h, jwt) \/ StartLogout(h, jwt)

Environment ==
  \/ \E u \in Users : DeleteUser(u) \/ \E r \in Roles : ChangeRole(u, r)
  \/ Tick \/ Restart

Next ==
  \/ \E h \in Requests : Arrive(h) \/ Step(h) \/ DbFailure(h)
  \/ Environment

Spec == Init /\ [][Next]_vars

\* The event loop runs a handler whose await has completed, and PostgreSQL
\* grants a row lock to its waiters in the order they asked for it.
LockStep(h) == TxUpdate(h) \/ SweepDone(h) \/ LogoutRevoke(h)
Fairness == \A h \in Requests : WF_vars(Step(h)) /\ SF_vars(LockStep(h))

----------------------------------------------------------------------------
(* Properties *)

\* Every variable keeps to its domain; a handler's locals are what its code
\* has assigned so far.
TypeOK ==
  /\ accounts \in [Users -> Roles \cup {Gone}]
  /\ rows \in [Tokens -> Row \cup {NoRow}]
  /\ origin \in [Tokens -> Tokens \cup {NoToken, Unsigned}]
  /\ delivered \subseteq Jwt
  /\ clock \in 0..MaxClock
  /\ req \in [Requests -> Handler]

\* A rotation leaves neither an orphaned new token nor an old token that still
\* looks unused (refresh-token.repository.ts:28-30): a stored replacement has a
\* revoked predecessor of the same user, which points at a replacement, and what
\* a row points at is stored and was signed in exchange for that row.
RotationAtomic ==
  \A t \in Tokens : rows[t] # NoRow =>
    /\ origin[t] \in Tokens =>
         LET old == rows[origin[t]] IN
         old # NoRow /\ old.revoked /\ old.replacedBy # NoToken /\ old.userId = rows[t].userId
    /\ rows[t].replacedBy # NoToken =>
         LET new == rows[t].replacedBy IN
         rows[t].revoked /\ rows[new] # NoRow /\ origin[new] = t

\* The hash-mismatch branch of refresh (auth.usecase.ts:91-94), which signs a user
\* out everywhere, never hits a token this backend handed out: whoever was sent a
\* token finds its row, under its owner and with its hash, for as long as the
\* owner's account exists, and no row outlives the account.
DeliveredAuthentic ==
  /\ \A jwt \in delivered : accounts[jwt.sub] # Gone =>
       LET row == rows[jwt.jti] IN
       row # NoRow /\ row.userId = jwt.sub /\ row.tokenHash = HashToken(jwt)
  /\ \A t \in Tokens : rows[t] # NoRow => accounts[rows[t].userId] # Gone

\* One user's requests never revoke another user's tokens: a row only changes at a
\* step of a handler serving a token of the row's user, or when the user is deleted.
OwnSessionsOnly ==
  [][\A t \in Tokens : rows[t] # NoRow /\ rows'[t] # rows[t] =>
       \/ accounts'[rows[t].userId] = Gone
       \/ \E h \in Requests : /\ req[h] # req'[h]
                              /\ req[h].presented # NoJwt
                              /\ req[h].presented.sub = rows[t].userId]_vars

\* Past the check of refresh, and not yet answered.
TicketPcs == {"sign", "insert", "update", "commit"}
Checked(h) == req[h].pc \in TicketPcs /\ Rotating(h)

\* A token passes the check of refresh (auth.usecase.ts:91) only while nothing
\* exchanged for it is stored ("rejects reuse of the token it replaced",
\* auth.e2e-spec.ts:131), wherever statements and answers fail: two exchanges of one
\* token can only overlap.
ExchangesOverlap ==
  [][\A h \in Requests : Checked(h)' /\ ~Checked(h) =>
       \A s \in Tokens : rows[s] # NoRow => origin[s] # req'[h].presented.jti]_vars

\* Every request that arrived is answered, and none waits for a row lock for ever.
EveryRequestAnswered == \A h \in Requests : ~At(h, "idle") ~> At(h, "idle")

----------------------------------------------------------------------------
(* The abstract specification: rows are statuses, a handler past the check is a ticket. *)

statusBar == [t \in Tokens |-> IF rows[t] = NoRow THEN "absent"
                               ELSE IF rows[t].revoked THEN "retired" ELSE "live"]
holderBar == [t \in Tokens |-> IF rows[t] = NoRow THEN NoRow ELSE rows[t].userId]
ticketsBar == {<<h, req[h].presented.jti>> : h \in {k \in Requests : Checked(k)}}

Ledger == INSTANCE TokenLedger WITH status <- statusBar, holder <- holderBar,
                                    tickets <- ticketsBar, NoUser <- NoRow

\* The handlers and the statements they send implement the ledger: only a token that
\* was live when its row was read is ever exchanged, the exchange is one step, and
\* what a rotation, a logout or a replay has revoked never becomes usable again.
ImplementsLedger == Ledger!Spec

=============================================================================
