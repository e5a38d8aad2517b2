--------------------------- MODULE TokenLifetimes ---------------------------
(***************************************************************************)
(* Three clocks end a refresh token: the exp claim jsonwebtoken signs and  *)
(* checks in whole seconds, the expires_at of its row, and the maxAge of   *)
(* the cookie that carries it.  All three come from the one string         *)
(* JWT_REFRESH_EXPIRES_IN, read by two parsers at three instants of an     *)
(* issue.  One client, one request of it at a time: requests do not meet   *)
(* here.  Times are in milliseconds.                                       *)
(***************************************************************************)
EXTENDS Integers

CONSTANTS
  Durations,   \* the values JWT_REFRESH_EXPIRES_IN may be given: [value, unit]
  Delays,      \* how far the clock moves in one step
  MaxClock,    \* bound on the clock
  None

Units == {"s", "m", "h", "d"}

\* No unit at all, and "w" for the formats only jsonwebtoken knows ("1w", "1.5h").
Duration == [value : Nat, unit : Units \cup {"none", "w"}]

ASSUME DurationAssumption == Durations \subseteq Duration /\ Delays \subseteq Nat /\ MaxClock \in Nat

UnitMs(unit) ==
  CASE unit = "s" -> 1000
    [] unit = "m" -> 60000
    [] unit = "h" -> 3600000
    [] unit = "d" -> 86400000
    [] unit = "w" -> 604800000
    [] unit = "none" -> 1

\* jsonwebtoken's reading of expiresIn: a bare number is in milliseconds.
Signed(d) == d.value * UnitMs(d.unit)

\* resolveExpiryDate: what its regular expression matches, and the milliseconds.
Supported(d) == d.unit \in Units \cup {"none"}

\* Mutant: two units of the table are swapped.
ResolvedSwapped(d) ==
  d.value * UnitMs(CASE d.unit = "s" -> "m" [] d.unit = "m" -> "s" [] d.unit = "none" -> "s"
                     [] OTHER -> d.unit)

Resolved(d) == d.value * UnitMs(IF d.unit = "none" THEN "s" ELSE d.unit)

VARIABLES
  clock,
  setting,   \* refreshExpiresIn, read once at start-up
  req,       \* the request in flight: its token's exp, its row's expires_at once that
             \* is written, and, a history, the instant it signed
  jar        \* the cookie the client holds, or None: exp, its row's expires_at, when the
             \* browser drops it, and, as histories, when it was signed and set

vars == <<clock, setting, req, jar>>

Idle    == [pc |-> "idle", exp |-> 0, expiresAt |-> 0, signedAt |-> 0]
Request == [pc : {"idle", "record", "respond"}, exp : Nat, expiresAt : Nat, signedAt : Nat]
Cookie  == [exp : Nat, expiresAt : Nat, until : Nat, signedAt : Nat, setAt : Nat, bare : BOOLEAN]

Init ==
  /\ clock = 0 /\ setting \in Durations
  /\ req = Idle /\ jar = None

\* exp is iat plus the duration, both in whole seconds.
Sign ==
  req' = [pc |-> "record", exp |-> (clock \div 1000) + (Signed(setting) \div 1000),
          expiresAt |-> 0, signedAt |-> clock]

Login ==
  /\ req.pc = "idle"
  /\ Sign
  /\ UNCHANGED <<clock, setting, jar>>

\* The browser still sends the cookie, and verifyAsync still takes its token.
Refresh ==
  /\ req.pc = "idle" /\ jar # None
  /\ clock < jar.until /\ clock \div 1000 < jar.exp
  /\ Sign
  /\ UNCHANGED <<clock, setting, jar>>

\* Mutant: a duration that does not match is not refused.
RecordUnchecked ==
  /\ req.pc = "record"
  /\ req' = [req EXCEPT !.pc = "respond", !.expiresAt = clock + Resolved(setting)]
  /\ UNCHANGED <<clock, setting, jar>>

\* create or rotate, with a date counted from now, which signing has moved on.
Record ==
  /\ req.pc = "record" /\ Supported(setting)
  /\ req' = [req EXCEPT !.pc = "respond", !.expiresAt = clock + Resolved(setting)]
  /\ UNCHANGED <<clock, setting, jar>>

\* resolveExpiryDate throws, after the signing and before the row: 500.
Unsupported ==
  /\ req.pc = "record" /\ ~Supported(setting)
  /\ req' = Idle
  /\ UNCHANGED <<clock, setting, jar>>

\* Mutant: maxAge is given in seconds.
MaxAgeSeconds(d) == Resolved(d) \div 1000

\* getRefreshTokenMaxAgeMs
MaxAge(d) == Resolved(d)

\* setRefreshCookie; the answer may be lost on its way, and the request is over.
Respond ==
  /\ req.pc = "respond"
  /\ \/ jar' = [exp |-> req.exp, expiresAt |-> req.expiresAt, until |-> clock + MaxAge(setting),
                signedAt |-> req.signedAt, setAt |-> clock, bare |-> (setting.unit = "none")]
     \/ UNCHANGED jar
  /\ req' = Idle
  /\ UNCHANGED <<clock, setting>>

\* clearCookie
Logout ==
  /\ req.pc = "idle" /\ jar # None
  /\ jar' = None
  /\ UNCHANGED <<clock, setting, req>>

\* The process is started again, perhaps with another duration.
Restart ==
  /\ setting' \in Durations
  /\ req' = Idle
  /\ UNCHANGED <<clock, jar>>

Tick ==
  /\ \E delay \in Delays : clock + delay <= MaxClock /\ clock' = clock + delay
  /\ UNCHANGED <<setting, req, jar>>

Next == Login \/ Refresh \/ Record \/ Unsupported \/ Respond \/ Logout \/ Restart \/ Tick

Spec == Init /\ [][Next]_vars

----------------------------------------------------------------------------
(* Properties *)

\* Every variable keeps to its domain, and nobody answers with a token whose
\* duration resolveExpiryDate has refused.
TypeOK ==
  /\ clock \in Nat /\ setting \in Durations
  /\ req \in Request /\ jar \in Cookie \cup {None}
  /\ req.pc = "respond" => Supported(setting)

\* The three ends of a token are nested, whatever passes between the steps of its
\* issue and whichever duration the process was restarted with since: the signature
\* expires no later than the row says, and the client keeps the cookie at least that
\* long, so nobody loses a session that the server would still have renewed.
LifetimesNested ==
  /\ req.pc = "respond" => req.exp * 1000 <= req.expiresAt
  /\ jar # None => jar.exp * 1000 <= jar.expiresAt /\ jar.expiresAt <= jar.until

\* A duration with a unit is one duration to both parsers: a cookie set under it outlives
\* its token by less than a second more than its issue took.
CookieGap ==
  jar # None /\ ~jar.bare => jar.until - jar.exp * 1000 < jar.setAt - jar.signedAt + 1000

\* resolveExpiryDate turns "the same strings JwtModule accepts for expiresIn"
\* (auth.usecase.ts:37-38), "3600" among them, into the row's date: the date is the claim's
\* expiry, up to rounding and the time of the issue, with whichever duration.
\* A bare number is seconds to one parser and milliseconds to the other, which refutes it.
RowDateIsClaims ==
  jar # None => jar.expiresAt - jar.exp * 1000 < jar.setAt - jar.signedAt + 1000

=============================================================================
