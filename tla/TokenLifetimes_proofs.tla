----------------------- MODULE TokenLifetimes_proofs -----------------------
(***************************************************************************)
(* Proofs, for every set of durations and every pace of the clock, of the  *)
(* invariants of TokenLifetimes.                                           *)
(***************************************************************************)
EXTENDS TokenLifetimes, TLAPS

\* Whole seconds are at most what they were rounded from, and less than one below it.
LEMMA WholeSeconds ==
  ASSUME NEW n \in Nat
  PROVE  /\ n \div 1000 \in Nat
         /\ (n \div 1000) * 1000 <= n
         /\ n < (n \div 1000) * 1000 + 1000
BY SMT

\* What the two parsers make of one duration.
LEMMA Parsers ==
  ASSUME NEW d \in Duration
  PROVE  /\ Signed(d) \in Nat
         /\ Supported(d) => /\ Resolved(d) \in Nat /\ Signed(d) <= Resolved(d)
                            /\ d.unit # "none" => Resolved(d) = Signed(d)
                            /\ d.unit # "none" => (Signed(d) \div 1000) * 1000 = Signed(d)
<1>1. d.value \in Nat /\ d.unit \in {"s", "m", "h", "d", "none", "w"}
  BY DEF Duration, Units
<1>2. CASE d.unit = "s"
  <2>1. Signed(d) = d.value * 1000 /\ Resolved(d) = d.value * 1000
    BY <1>2 DEF Signed, Resolved, UnitMs
  <2>2. QED
    BY <1>1, <1>2, <2>1, SMT
<1>3. CASE d.unit = "m"
  <2>1. Signed(d) = d.value * 60000 /\ Resolved(d) = d.value * 60000
    BY <1>3 DEF Signed, Resolved, UnitMs
  <2>2. QED
    BY <1>1, <1>3, <2>1, SMT
<1>4. CASE d.unit = "h"
  <2>1. Signed(d) = d.value * 3600000 /\ Resolved(d) = d.value * 3600000
    BY <1>4 DEF Signed, Resolved, UnitMs
  <2>2. QED
    BY <1>1, <1>4, <2>1, SMT
<1>5. CASE d.unit = "d"
  <2>1. Signed(d) = d.value * 86400000 /\ Resolved(d) = d.value * 86400000
    BY <1>5 DEF Signed, Resolved, UnitMs
  <2>2. QED
    BY <1>1, <1>5, <2>1, SMT
<1>6. CASE d.unit = "none"
  <2>1. Signed(d) = d.value * 1 /\ Resolved(d) = d.value * 1000
    BY <1>6 DEF Signed, Resolved, UnitMs
  <2>2. QED
    BY <1>1, <1>6, <2>1, SMT
<1>7. CASE d.unit = "w"
  <2>1. Signed(d) = d.value * 604800000 /\ ~Supported(d)
    BY <1>7 DEF Signed, UnitMs, Supported, Units
  <2>2. QED
    BY <1>1, <2>1, SMT
<1>8. QED
  BY <1>1, <1>2, <1>3, <1>4, <1>5, <1>6, <1>7

----------------------------------------------------------------------------

\* The token in flight expires at the end of a second no later than the duration
\* after its signing, and no earlier than a second before that if it has a unit.
InFlight ==
  req.pc # "idle" =>
    /\ req.signedAt <= clock
    /\ req.exp * 1000 <= req.signedAt + Signed(setting)
    /\ Supported(setting) /\ setting.unit # "none" =>
         req.signedAt + Signed(setting) < req.exp * 1000 + 1000

\* What is in flight was begun with the setting in force, and what it wrote is no
\* later than now.
Recorded ==
  req.pc = "respond" =>
    req.exp * 1000 <= req.expiresAt /\ req.expiresAt <= clock + Resolved(setting)

IInv == TypeOK /\ InFlight /\ Recorded /\ LifetimesNested /\ CookieGap

LEMMA InitInv == Init => IInv
BY DurationAssumption
   DEF Init, IInv, TypeOK, InFlight, Recorded, LifetimesNested, CookieGap, Idle, Request

LEMMA SignInv ==
  ASSUME IInv, Sign, UNCHANGED <<clock, setting, jar>>
  PROVE  IInv'
<1> USE DEF IInv, TypeOK
<1>1. setting \in Duration
  BY DurationAssumption
<1>2. Signed(setting) \in Nat
  BY <1>1, Parsers
<1> DEFINE s == clock \div 1000
           l == Signed(setting) \div 1000
<1>3. s \in Nat /\ s * 1000 <= clock /\ clock < s * 1000 + 1000
  BY WholeSeconds
<1>4. l \in Nat /\ l * 1000 <= Signed(setting)
  BY <1>2, WholeSeconds
<1>5. Supported(setting) /\ setting.unit # "none" => l * 1000 = Signed(setting)
  BY <1>1, Parsers
<1> HIDE DEF s, l
<1>6. req'.pc = "record" /\ req'.exp = s + l /\ req'.signedAt = clock /\ req' \in Request
  BY <1>3, <1>4 DEF Sign, s, l, Request
<1>7. InFlight'
  <2>1. (s + l) * 1000 <= clock + Signed(setting)
    BY <1>2, <1>3, <1>4, SMT
  <2>2. Supported(setting) /\ setting.unit # "none" =>
          clock + Signed(setting) < (s + l) * 1000 + 1000
    BY <1>2, <1>3, <1>4, <1>5, SMT
  <2>3. Signed(setting)' = Signed(setting) /\ Supported(setting)' = Supported(setting)
    BY DEF Signed, Supported
  <2>4. QED
    BY <1>6, <2>1, <2>2, <2>3 DEF InFlight
<1>8. TypeOK' /\ Recorded' /\ LifetimesNested' /\ CookieGap'
  BY <1>6 DEF Recorded, LifetimesNested, CookieGap
<1>9. QED
  BY <1>7, <1>8

LEMMA RecordInv == IInv /\ Record => IInv'
<1> SUFFICES ASSUME IInv, Record PROVE IInv'
  OBVIOUS
<1> USE DEF IInv, TypeOK
<1>1. setting \in Duration /\ Supported(setting)
  BY DurationAssumption DEF Record
<1>2. Signed(setting) \in Nat /\ Resolved(setting) \in Nat /\ Signed(setting) <= Resolved(setting)
  BY <1>1, Parsers
<1>3. /\ req' = [req EXCEPT !.pc = "respond", !.expiresAt = clock + Resolved(setting)]
      /\ req.pc = "record" /\ UNCHANGED <<clock, setting, jar>>
  BY DEF Record
<1>4. clock + Resolved(setting) \in Nat
  BY <1>2
<1>5. /\ req'.pc = "respond" /\ req'.exp = req.exp /\ req'.signedAt = req.signedAt
      /\ req'.expiresAt = clock + Resolved(setting) /\ req' \in Request
  BY <1>3, <1>4 DEF Request
<1>6. Signed(setting)' = Signed(setting) /\ Resolved(setting)' = Resolved(setting)
      /\ Supported(setting)' = Supported(setting)
  BY <1>3 DEF Signed, Resolved, Supported
<1>7. req.exp \in Nat /\ req.signedAt \in Nat
  BY DEF Request
<1>8. InFlight'
  BY <1>3, <1>5, <1>6 DEF InFlight
<1>9. req.exp * 1000 <= clock + Resolved(setting)
  BY <1>2, <1>3, <1>7, SMT DEF InFlight
<1>10. Recorded'
  BY <1>2, <1>3, <1>5, <1>6, <1>9 DEF Recorded
<1>11. TypeOK' /\ LifetimesNested' /\ CookieGap'
  BY <1>1, <1>3, <1>5, <1>6, <1>9 DEF LifetimesNested, CookieGap
<1>12. QED
  BY <1>8, <1>10, <1>11

LEMMA RespondInv == IInv /\ Respond => IInv'
<1> SUFFICES ASSUME IInv, Respond PROVE IInv'
  OBVIOUS
<1> USE DEF IInv, TypeOK
<1>1. req' = Idle /\ UNCHANGED <<clock, setting>> /\ req.pc = "respond"
  BY DEF Respond
<1>2. Idle \in Request /\ Idle.pc = "idle"
  BY DEF Idle, Request
<1>3. InFlight' /\ Recorded'
  BY <1>1, <1>2 DEF InFlight, Recorded
<1>4. CASE UNCHANGED jar
  BY <1>1, <1>2, <1>3, <1>4 DEF LifetimesNested, CookieGap
<1>5. CASE jar' = [exp |-> req.exp, expiresAt |-> req.expiresAt, until |-> clock + MaxAge(setting),
                   signedAt |-> req.signedAt, setAt |-> clock, bare |-> (setting.unit = "none")]
  <2>1. setting \in Duration /\ Supported(setting)
    BY <1>1, DurationAssumption
  <2>2. Signed(setting) \in Nat /\ Resolved(setting) \in Nat
    BY <2>1, Parsers
  <2>3. req.exp \in Nat /\ req.signedAt \in Nat /\ req.expiresAt \in Nat
    BY DEF Request
  <2> DEFINE until == clock + Resolved(setting)
  <2>4. until \in Nat
    BY <2>2
  <2>5. /\ jar'.exp = req.exp /\ jar'.expiresAt = req.expiresAt /\ jar'.until = until
        /\ jar'.signedAt = req.signedAt /\ jar'.setAt = clock
        /\ jar'.bare = (setting.unit = "none")
    BY <1>5 DEF MaxAge
  <2>6. jar' \in Cookie
    BY <1>5, <2>3, <2>4 DEF Cookie, MaxAge
  <2>7. LifetimesNested'
    BY <1>1, <1>2, <2>5 DEF LifetimesNested, Recorded
  <2>8. CASE setting.unit # "none"
    <3>1. Resolved(setting) = Signed(setting)
      BY <2>1, <2>8, Parsers
    <3>2. req.signedAt + Signed(setting) < req.exp * 1000 + 1000
      BY <1>1, <2>1, <2>8 DEF InFlight
    <3>3. until - req.exp * 1000 < clock - req.signedAt + 1000
      BY <2>2, <2>3, <3>1, <3>2, SMT
    <3>4. ~jar'.bare
      BY <2>5, <2>8
    <3>5. jar'.until - jar'.exp * 1000 < jar'.setAt - jar'.signedAt + 1000
      BY <2>5, <3>3
    <3>6. CookieGap'
      BY ONLY <3>4, <3>5 DEF CookieGap
    <3>7. QED
      BY ONLY <2>6, <2>7, <3>6, <1>1, <1>2, <1>3, TypeOK DEF IInv, TypeOK
  <2>9. CASE setting.unit = "none"
    <3>1. jar'.bare
      BY <2>5, <2>9
    <3>2. CookieGap'
      BY ONLY <3>1 DEF CookieGap
    <3>3. QED
      BY ONLY <2>6, <2>7, <3>2, <1>1, <1>2, <1>3, TypeOK DEF IInv, TypeOK
  <2>10. QED
    BY <2>8, <2>9
<1>6. QED
  BY <1>4, <1>5 DEF Respond

LEMMA TickInv == IInv /\ Tick => IInv'
<1> SUFFICES ASSUME IInv, Tick PROVE IInv'
  OBVIOUS
<1> USE DEF IInv, TypeOK
<1>1. clock' \in Nat /\ clock <= clock' /\ UNCHANGED <<setting, req, jar>>
  BY DurationAssumption DEF Tick
<1>2. /\ Signed(setting)' = Signed(setting) /\ Resolved(setting)' = Resolved(setting)
      /\ Supported(setting)' = Supported(setting)
  BY <1>1 DEF Signed, Resolved, Supported
<1>3. InFlight'
  <2>1. req.signedAt <= clock => req.signedAt <= clock'
    BY <1>1 DEF Request
  <2>2. QED
    BY <1>1, <1>2, <2>1 DEF InFlight
<1>4. Recorded'
  <2>1. CASE req.pc = "respond"
    <3>1. setting \in Duration /\ Supported(setting)
      BY <2>1, DurationAssumption
    <3>2. Resolved(setting) \in Nat /\ req.expiresAt \in Nat
      BY <3>1, Parsers DEF Request
    <3>3. req.expiresAt <= clock + Resolved(setting) => req.expiresAt <= clock' + Resolved(setting)
      BY <1>1, <3>2, SMT
    <3>4. QED
      BY <1>1, <1>2, <2>1, <3>3 DEF Recorded
  <2>2. CASE req.pc # "respond"
    BY <1>1, <2>2 DEF Recorded
  <2>3. QED
    BY <2>1, <2>2
<1>5. TypeOK' /\ LifetimesNested' /\ CookieGap'
  BY <1>1, <1>2 DEF LifetimesNested, CookieGap
<1>6. QED
  BY <1>3, <1>4, <1>5

\* A request that ends without an answer, a logout, and a step that changes nothing.
LEMMA OverInv ==
  ASSUME IInv, UNCHANGED clock, setting' \in Durations, req' = Idle, jar' = jar \/ jar' = None
  PROVE  IInv'
BY DEF IInv, TypeOK, InFlight, Recorded, LifetimesNested, CookieGap, Idle, Request

LEMMA FrameInv ==
  ASSUME IInv, UNCHANGED <<clock, setting, req>>, jar' = jar \/ jar' = None
  PROVE  IInv'
BY DEF IInv, TypeOK, InFlight, Recorded, LifetimesNested, CookieGap, Signed, Resolved, Supported

LEMMA NextInv == IInv /\ [Next]_vars => IInv'
<1> SUFFICES ASSUME IInv, [Next]_vars PROVE IInv'
  OBVIOUS
<1>1. CASE Login \/ Refresh
  BY <1>1, SignInv DEF Login, Refresh
<1>2. CASE Record
  BY <1>2, RecordInv
<1>3. CASE Unsupported \/ Restart
  BY <1>3, OverInv DEF Unsupported, Restart, IInv, TypeOK
<1>4. CASE Respond
  BY <1>4, RespondInv
<1>5. CASE Logout \/ UNCHANGED vars
  BY <1>5, FrameInv DEF Logout, vars
<1>6. CASE Tick
  BY <1>6, TickInv
<1>7. QED
  BY <1>1, <1>2, <1>3, <1>4, <1>5, <1>6 DEF Next

\* The inductive invariant holds in every reachable state.
THEOREM InductiveInvariant == Spec => []IInv
<1>1. QED
  BY InitInv, NextInv, PTL DEF Spec

\* Every variable keeps to its domain, and no answer carries a token whose duration
\* resolveExpiryDate refused.
THEOREM TypeCorrect == Spec => []TypeOK
<1>1. IInv => TypeOK
  BY DEF IInv
<1>2. QED
  BY <1>1, InductiveInvariant, PTL

\* Whatever the durations and however long the steps of an issue take, the signature
\* ends no later than the row's date and the row's date no later than the cookie.
THEOREM LifetimesAreNested == Spec => []LifetimesNested
<1>1. IInv => LifetimesNested
  BY DEF IInv
<1>2. QED
  BY <1>1, InductiveInvariant, PTL

\* With a unit, a cookie ends less than a second and the time of its issue after its token.
THEOREM CookieGapBounded == Spec => []CookieGap
<1>1. IInv => CookieGap
  BY DEF IInv
<1>2. QED
  BY <1>1, InductiveInvariant, PTL

=============================================================================
