------------------------ MODULE RefreshTokenFamilies ------------------------
(***************************************************************************)
(* RefreshTokens with a memory of the replays that were answered and of    *)
(* the exchanges that two requests were racing for, for what is promised   *)
(* of replayed and of exchanged tokens.  A family is a login's token and   *)
(* all that was exchanged for it.  No step of RefreshTokens depends on     *)
(* these variables.  A failed step that has the effect of a finished sweep *)
(* counts as one: the states reached are the same.                         *)
(***************************************************************************)
EXTENDS RefreshTokens

VARIABLES
  root,       \* the login's token each token descends from, or NoToken
  overtaken,  \* sweeps during which a rotation of the replayed token's family committed
  replayed,   \* tokens whose replay was answered after the sweep
  calm,       \* those of them whose sweep no rotation of the family overtook or outlasted
  raced       \* tokens exchanged while a second request was past the check with them

fvars == <<vars, root, overtaken, replayed, calm, raced>>

Family(t) == {s \in Tokens : root[s] = root[t]}

\* Rotations of the family of the token whose replay h answers: one that is past the
\* check of refresh, and one that commits in this step.
Rotates(k, h)  == Checked(k) /\ req[k].presented.jti \in Family(req[h].presented.jti)
InFlight(h)    == \E k \in Requests : Rotates(k, h)
Overtaking(h)  == \E k \in Requests : Rotates(k, h) /\ TxCommit(k)

Rivals(h, k)   == h # k /\ Checked(h) /\ Checked(k) /\ req[h].presented.jti = req[k].presented.jti
PresentedBy(S) == {req[h].presented.jti : h \in S}
Swept          == {h \in Requests : SweepDone(h)}

Contested      == {h \in Requests : TxCommit(h) /\ \E k \in Requests : Rivals(h, k)}

Record ==
  /\ root' = [t \in Tokens |->
                IF origin'[t] = origin[t] THEN root[t]
                ELSE IF origin'[t] = NoToken THEN t ELSE root[origin'[t]]]
  /\ overtaken' = {h \in Requests : At(h, "sweeping") /\ At(h, "sweeping")'
                                      /\ (h \in overtaken \/ Overtaking(h))}
  /\ replayed' = replayed \cup PresentedBy(Swept)
  /\ calm' = calm \cup PresentedBy({h \in Swept : h \notin overtaken /\ ~InFlight(h)})
  /\ raced' = raced \cup PresentedBy(Contested)

FInit ==
  /\ Init
  /\ root = [t \in Tokens |-> NoToken]
  /\ overtaken = {} /\ replayed = {} /\ calm = {} /\ raced = {}

FSpec    == FInit /\ [][Next /\ Record]_fvars
FairSpec == FSpec /\ Fairness

----------------------------------------------------------------------------

\* "A replayed refresh token revokes its whole token family" (README.md:27; the
\* test at auth.e2e-spec.ts:154): once the replay is answered, no token of the
\* family is usable, then or later.
ReplayRevokesFamily == \A t \in replayed : \A s \in Family(t) : ~Live(s)

\* The part of that promise the code keeps under concurrency: it holds whenever no
\* rotation of the family commits between the sweep's snapshot and its end, and none
\* is past the check of refresh (auth.usecase.ts:91) when the sweep ends.
CalmReplayRevokesFamily == \A t \in calm : \A s \in Family(t) : ~Live(s)

\* A refresh token is exchanged at most once: "rejects reuse of the token it
\* replaced" (auth.e2e-spec.ts:131).  The code keeps this for a token unless a second
\* request was past the check of refresh (auth.usecase.ts:91) with it when the first
\* exchange committed, however statements and answers failed and were tried again.
SingleUseUnlessRaced ==
  \A s, t \in Tokens :
    /\ origin[s] \in Tokens \ raced /\ origin[s] = origin[t]
    /\ rows[s] # NoRow /\ rows[t] # NoRow
    => s = t

=============================================================================
