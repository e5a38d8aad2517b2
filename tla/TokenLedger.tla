---------------------------- MODULE TokenLedger ----------------------------
(***************************************************************************)
(* What the refresh-token store promises, without handlers, rows or        *)
(* transactions.  A token is absent, live or retired.  To exchange one, a  *)
(* request must have been admitted while it was live; the exchange makes   *)
(* the new token live and retires the old one in one step; and retirement  *)
(* is final.  It does not promise that an admitted request is the only one *)
(* to exchange its token: concurrent requests can all be admitted.         *)
(***************************************************************************)
CONSTANTS Users, Tokens, Requests, NoUser

VARIABLES
  status,   \* of each token
  holder,   \* the user each token that is not absent belongs to
  tickets   \* <<request, token>>: admitted to exchange the token

ledger == <<status, holder, tickets>>

Init ==
  /\ status = [t \in Tokens |-> "absent"]
  /\ holder = [t \in Tokens |-> NoUser]
  /\ tickets = {}

\* A login gives the user a first token.
Issue(u, t) ==
  /\ status[t] = "absent"
  /\ status' = [status EXCEPT ![t] = "live"]
  /\ holder' = [holder EXCEPT ![t] = u]
  /\ UNCHANGED tickets

Admit(h, t) ==
  /\ status[t] = "live"
  /\ tickets' = tickets \cup {<<h, t>>}
  /\ UNCHANGED <<status, holder>>

\* A rotation.
Redeem(h, old, new) ==
  /\ <<h, old>> \in tickets
  /\ status[old] # "absent" /\ status[new] = "absent"
  /\ status' = [status EXCEPT ![new] = "live", ![old] = "retired"]
  /\ holder' = [holder EXCEPT ![new] = holder[old]]
  /\ tickets' = tickets \ {<<h, old>>}

\* Requests that fail give their tickets up.
Forfeit(S) ==
  /\ tickets' = tickets \ S
  /\ UNCHANGED <<status, holder>>

\* A logout or a detected replay: tokens of one user, never of two.
Retire(u, S) ==
  /\ \A t \in S : holder[t] = u
  /\ status' = [t \in Tokens |-> IF t \in S THEN "retired" ELSE status[t]]
  /\ UNCHANGED <<holder, tickets>>

\* The user is deleted.
Erase(u) ==
  /\ status' = [t \in Tokens |-> IF holder[t] = u THEN "absent" ELSE status[t]]
  /\ holder' = [t \in Tokens |-> IF holder[t] = u THEN NoUser ELSE holder[t]]
  /\ UNCHANGED tickets

Next ==
  \/ \E u \in Users : \/ \E t \in Tokens : Issue(u, t)
                      \/ \E S \in SUBSET Tokens : Retire(u, S)
                      \/ Erase(u)
  \/ \E h \in Requests, t \in Tokens : Admit(h, t) \/ \E new \in Tokens : Redeem(h, t, new)
  \/ \E S \in SUBSET tickets : Forfeit(S)

Spec == Init /\ [][Next]_ledger

=============================================================================
