--------------------------- MODULE StaleSessions ---------------------------
(***************************************************************************)
(* RefreshTokens with a memory of when each user last had each role and of *)
(* the logouts that were answered, for two promises about what a session   *)
(* can no longer do.  A tick of this module's clock is long against a      *)
(* request: no handler is in flight when one passes.                       *)
(***************************************************************************)
EXTENDS RefreshTokens

VARIABLES
  lastHeld,   \* lastHeld[u][r]: the last instant at which u had role r
  loggedOut   \* tokens whose logout was answered with 200

\* logout answers 200 whether its UPDATE ran or its catch swallowed the failure.
LogoutAnswered == {h \in Requests : At(h, "revoke") /\ (LogoutRevoke(h) \/ DbFailure(h))}

Remember ==
  /\ lastHeld' = [u \in Users |-> [r \in Roles |->
                    IF accounts[u] = r THEN clock' ELSE lastHeld[u][r]]]
  /\ loggedOut' = loggedOut \cup {req[h].presented.jti : h \in LogoutAnswered}

Timely == clock' # clock => \A h \in Requests : At(h, "idle")

SInit == Init /\ lastHeld = [u \in Users |-> [r \in Roles |-> 0]] /\ loggedOut = {}
SSpec == SInit /\ [][Next /\ Timely /\ Remember]_<<vars, lastHeld, loggedOut>>

----------------------------------------------------------------------------

\* Refresh tokens carry the user's role "at the same staleness bound an access
\* token already has (they both go stale for up to their own lifetime)"
\* (auth.usecase.ts:50-55): a token still accepted carries a role its user had
\* at most one token lifetime ago.
ClaimsStaleAtMostTtl ==
  \A jwt \in delivered :
    ~Expired(jwt) => clock <= lastHeld[jwt.sub][jwt.role] + RefreshTtl

\* A logout answered with 200 "revokes an active refresh token"
\* (auth.e2e-spec.ts:161): the presented token is not usable afterwards.
LogoutRevokes == \A t \in loggedOut : ~Live(t)

=============================================================================
