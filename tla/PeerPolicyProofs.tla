-------------------------- MODULE PeerPolicyProofs --------------------------
(***************************************************************************)
(* What PeerPolicy promises Node::run, for every setting of its limits and *)
(* timings: the spacing of attempts, the budget of failed handshakes, the  *)
(* end of a session that brings bad frames, and isolated rate drops.       *)
(*                                                                         *)
(* PolInv adds what makes them inductive: the policy's count of attempts   *)
(* is the number of failures since the last success, its last_connect is   *)
(* no older than the last attempt, the timer of a backoff makes up for     *)
(* what its age lacks, and the frames counted were let through.            *)
(***************************************************************************)
EXTENDS PeerPolicy, TLAPS

BudgetOK ==
    /\ misses = pol.attempts /\ pol.attempts <= MaxAttempts
    /\ pc \in {"backoff", "wait_ready", "handshake"} => pol.attempts < MaxAttempts

SpacingOK ==
    /\ \A t \in tried : \E a \in pol.last_connect : a <= t
    /\ pc = "backoff" =>
         \A a \in pol.last_connect : a + sleep >= Required(pol.failures)

RateOK == pol.frames <= passed

PolInv == PolTypeOK /\ BudgetOK /\ SpacingOK /\ RateOK /\ BadFramesEndSession

-----------------------------------------------------------------------------
(* Arithmetic of the policy *)

LEMMA SmallPowers ==
    ASSUME NEW k \in 0 .. 15
    PROVE  2^k \in Nat
<1>1. /\ 2^0 \in Nat /\ 2^1 \in Nat /\ 2^2 \in Nat /\ 2^3 \in Nat
      /\ 2^4 \in Nat /\ 2^5 \in Nat /\ 2^6 \in Nat /\ 2^7 \in Nat
      /\ 2^8 \in Nat /\ 2^9 \in Nat /\ 2^10 \in Nat /\ 2^11 \in Nat
      /\ 2^12 \in Nat /\ 2^13 \in Nat /\ 2^14 \in Nat /\ 2^15 \in Nat
  OBVIOUS
<1>2. \/ k = 0 \/ k = 1 \/ k = 2 \/ k = 3 \/ k = 4 \/ k = 5 \/ k = 6 \/ k = 7
      \/ k = 8 \/ k = 9 \/ k = 10 \/ k = 11 \/ k = 12 \/ k = 13 \/ k = 14 \/ k = 15
  OBVIOUS
<1> QED
  BY <1>1, <1>2, Zenon

\* The products of the timing configuration are numbers below the cap of ages.
LEMMA Timing ==
    /\ RetryBase * TicksPerSec \in Nat /\ RetryMax * TicksPerSec \in Nat
    /\ RetryBase * TicksPerSec <= TickCap /\ RetryMax * TicksPerSec <= TickCap
    /\ TickCap \in Nat /\ SecCap \in Nat
BY PolicyAssumption

\* The wait check_reconnect asks for: never below the base interval nor the
\* backoff of the failures, never above both maxima.
LEMMA RequiredIs ==
    ASSUME NEW f \in Nat
    PROVE  /\ FailureBackoff(f) \in Nat /\ Required(f) \in Nat
           /\ Required(f) >= RetryBase * TicksPerSec
           /\ Required(f) >= FailureBackoff(f)
           /\ Required(f) <= TickCap
<1> DEFINE base == RetryBase * TicksPerSec
           max == RetryMax * TicksPerSec
<1>1. base \in Nat /\ max \in Nat /\ base <= TickCap /\ max <= TickCap /\ TickCap \in Nat
  BY Timing
<1>2. ASSUME NEW b \in Nat, NEW m \in Nat
      PROVE  MinOf(b, m) \in Nat /\ MinOf(b, m) <= m
  BY DEF MinOf
<1>3. FailureBackoff(f) \in Nat /\ FailureBackoff(f) <= max
  <2>1. CASE f >= MaxFailures
    <3>1. FailureBackoff(f) = max
      BY <2>1 DEF FailureBackoff
    <3> QED
      BY <1>1, <3>1
  <2>2. CASE ~(f >= MaxFailures) /\ f = 0
    <3>1. FailureBackoff(f) = 0
      BY <2>2, PolicyAssumption DEF FailureBackoff
    <3> QED
      BY <1>1, <3>1
  <2>3. CASE ~(f >= MaxFailures) /\ f # 0
    <3>1. MinOf(f - 1, 15) \in 0 .. 15
      BY <2>3 DEF MinOf
    <3> DEFINE p == 2^MinOf(f - 1, 15)
    <3>2. p \in Nat
      BY <3>1, SmallPowers
    <3>3. FailureBackoff(f) = MinOf(base * p, max)
      BY <2>3, Zenon DEF FailureBackoff
    <3> HIDE DEF p
    <3>4. base * p \in Nat
      BY <1>1, <3>2
    <3> HIDE DEF base, max
    <3> QED
      BY <1>1, <1>2, <3>3, <3>4
  <2> QED
    BY <2>1, <2>2, <2>3
<1>4. Required(f) = MaxOf(base, FailureBackoff(f))
  BY DEF Required
<1> HIDE DEF base, max
<1>5. /\ Required(f) \in Nat /\ Required(f) >= base
      /\ Required(f) >= FailureBackoff(f) /\ Required(f) <= TickCap
  BY <1>1, <1>3, <1>4 DEF MaxOf
<1> QED
  BY <1>3, <1>5 DEF base

\* An age grows up to its cap and keeps its place among the others.
LEMMA OlderIs ==
    ASSUME NEW cap \in Nat, NEW o \in Age(cap)
    PROVE  /\ Older(o, cap) \in Age(cap)
           /\ \A a \in Older(o, cap) : \E b \in o : a = MinOf(b + 1, cap)
           /\ \A b \in o : MinOf(b + 1, cap) \in Older(o, cap)
<1>1. o \in SUBSET (0 .. cap) /\ \A x, y \in o : x = y
  BY DEF Age
<1>2. \A b \in 0 .. cap : MinOf(b + 1, cap) \in 0 .. cap
  BY DEF MinOf
<1>3. Older(o, cap) \in SUBSET (0 .. cap)
  BY <1>1, <1>2 DEF Older
<1>4. \A x, y \in Older(o, cap) : x = y
  BY <1>1, Zenon DEF Older
<1>5. Older(o, cap) \in Age(cap)
  BY <1>3, <1>4, Zenon DEF Age
<1> QED
  BY <1>5 DEF Older

LEMMA NewAges ==
    /\ {} \in Age(TickCap) /\ {0} \in Age(TickCap)
    /\ {} \in Age(SecCap) /\ {0} \in Age(SecCap)
<1>1. 0 \in 0 .. TickCap /\ 0 \in 0 .. SecCap
  BY Timing
<1> QED
  BY <1>1, Zenon DEF Age

-----------------------------------------------------------------------------
(* Steps *)

LEMMA TickKeeps ==
    ASSUME PolInv, Tick
    PROVE  PolInv'
<1>0. pol \in Policy /\ tried \in Age(TickCap) /\ sleep \in Nat /\ subsec \in 0 .. TicksPerSec - 1
  BY DEF PolInv, PolTypeOK
<1>1. /\ pol.last_connect \in Age(TickCap) /\ pol.window \in 0 .. TickCap
      /\ pol.first_failure \in Age(SecCap) /\ pol.session \in Age(SecCap)
      /\ pol.failures \in Nat
  BY <1>0 DEF Policy
<1>2. /\ Older(pol.last_connect, TickCap) \in Age(TickCap)
      /\ Older(tried, TickCap) \in Age(TickCap)
      /\ Older(pol.first_failure, SecCap) \in Age(SecCap)
      /\ Older(pol.session, SecCap) \in Age(SecCap)
      /\ MinOf(pol.window + 1, TickCap) \in 0 .. TickCap
  <2>1. MinOf(pol.window + 1, TickCap) \in 0 .. TickCap
    BY <1>1, Timing DEF MinOf
  <2> QED
    BY <1>0, <1>1, <2>1, Timing, OlderIs
<1> DEFINE second == subsec + 1 = TicksPerSec
           first == IF second THEN Older(pol.first_failure, SecCap) ELSE pol.first_failure
           sess == IF second THEN Older(pol.session, SecCap) ELSE pol.session
<1>3. first \in Age(SecCap) /\ sess \in Age(SecCap)
  BY <1>1, <1>2
<1>4. pol' = [pol EXCEPT !.last_connect = Older(pol.last_connect, TickCap),
                         !.window = MinOf(pol.window + 1, TickCap),
                         !.first_failure = first, !.session = sess]
  BY DEF Tick
<1>5. sess = {} <=> pol.session = {}
  BY <1>1 DEF Older
<1> HIDE DEF first, sess
<1>6. /\ pol' \in Policy /\ pol'.last_connect = Older(pol.last_connect, TickCap)
      /\ pol'.failures = pol.failures /\ pol'.attempts = pol.attempts
      /\ pol'.frames = pol.frames /\ pol'.bad = pol.bad /\ pol'.total_bad = pol.total_bad
      /\ pol'.data = pol.data /\ pol'.heard = pol.heard /\ pol'.session = sess
  BY <1>0, <1>2, <1>3, <1>4 DEF Policy
<1>7. /\ pc' = pc /\ misses' = misses /\ passed' = passed
      /\ tried' = Older(tried, TickCap)
      /\ sleep' = IF sleep = 0 THEN 0 ELSE sleep - 1
      /\ subsec' \in 0 .. TicksPerSec - 1 /\ sleep' \in Nat
  BY <1>0, PolicyAssumption DEF Tick
<1>8. PolTypeOK'
  BY <1>2, <1>6, <1>7 DEF PolInv, PolTypeOK
<1>9. BudgetOK' /\ RateOK' /\ BadFramesEndSession'
  BY <1>5, <1>6, <1>7 DEF PolInv, BudgetOK, RateOK, BadFramesEndSession
<1>10. \A t \in tried' : \E a \in pol'.last_connect : a <= t
  <2> SUFFICES ASSUME NEW t \in Older(tried, TickCap)
               PROVE  \E a \in Older(pol.last_connect, TickCap) : a <= t
    BY <1>6, <1>7
  <2>1. PICK u \in tried : t = MinOf(u + 1, TickCap)
    BY <1>0, Timing, OlderIs
  <2>2. PICK a \in pol.last_connect : a <= u
    BY DEF PolInv, SpacingOK
  <2>3. MinOf(a + 1, TickCap) \in Older(pol.last_connect, TickCap)
    BY <1>1, Timing, OlderIs
  <2>4. a \in 0 .. TickCap /\ u \in 0 .. TickCap
    BY <1>0, <1>1 DEF Age
  <2>5. MinOf(a + 1, TickCap) <= t
    BY <2>1, <2>2, <2>4, Timing DEF MinOf
  <2> QED
    BY <2>3, <2>5
<1>11. ASSUME pc = "backoff", NEW a \in Older(pol.last_connect, TickCap)
       PROVE  a + sleep' >= Required(pol.failures)
  <2>1. PICK b \in pol.last_connect : a = MinOf(b + 1, TickCap)
    BY <1>1, Timing, OlderIs
  <2>2. b + sleep >= Required(pol.failures)
    BY <1>11 DEF PolInv, SpacingOK
  <2>3. Required(pol.failures) \in Nat /\ Required(pol.failures) <= TickCap
    BY <1>1, RequiredIs
  <2>4. b \in 0 .. TickCap
    BY <1>1 DEF Age
  <2> QED
    BY <1>0, <1>7, <2>1, <2>2, <2>3, <2>4, Timing DEF MinOf
<1> QED
  BY <1>6, <1>7, <1>8, <1>9, <1>10, <1>11 DEF PolInv, SpacingOK, Required, FailureBackoff

\* check_reconnect forgets failures, never attempts.
LEMMA ForgetIs ==
    ASSUME PolTypeOK
    PROVE  /\ FailuresSeen \in Nat
           /\ ForgetFailures \in Policy /\ ForgetFailures.failures = FailuresSeen
           /\ \A f \in {"last_connect", "attempts", "frames", "bad", "total_bad",
                        "data", "heard", "session"} : ForgetFailures[f] = pol[f]
<1>1. pol \in Policy
  BY DEF PolTypeOK
<1>2. FailuresSeen \in Nat
  BY <1>1 DEF FailuresSeen, Policy
<1> DEFINE first == IF FailuresExpired THEN {} ELSE pol.first_failure
<1>3. first \in Age(SecCap)
  BY <1>1, NewAges DEF Policy
<1>4. ForgetFailures = [pol EXCEPT !.failures = FailuresSeen, !.first_failure = first]
  BY DEF ForgetFailures
<1> HIDE DEF first
<1> QED
  BY <1>1, <1>2, <1>3, <1>4 DEF Policy

\* run(), between two sessions.
LEMMA RunKeeps ==
    ASSUME PolInv, RunStep
    PROVE  PolInv'
<1>0. /\ PolTypeOK /\ pol \in Policy /\ BudgetOK /\ SpacingOK /\ RateOK
      /\ BadFramesEndSession /\ RetryBase * TicksPerSec \in Nat
  BY Timing DEF PolInv, PolTypeOK
<1>1. /\ pol.last_connect \in Age(TickCap) /\ pol.failures \in Nat
      /\ \A a \in pol.last_connect : a \in 0 .. TickCap
  BY <1>0 DEF Policy, Age
<1>2. /\ FailuresSeen \in Nat /\ ForgetFailures \in Policy
      /\ ForgetFailures.failures = FailuresSeen
      /\ ForgetFailures.last_connect = pol.last_connect
      /\ ForgetFailures.attempts = pol.attempts /\ ForgetFailures.frames = pol.frames
      /\ ForgetFailures.bad = pol.bad /\ ForgetFailures.total_bad = pol.total_bad
      /\ ForgetFailures.data = pol.data /\ ForgetFailures.heard = pol.heard
      /\ ForgetFailures.session = pol.session
  BY <1>0, ForgetIs
<1>3. Required(FailuresSeen) \in Nat
  BY <1>2, RequiredIs
<1>4. CASE CheckReject \/ RejectOver
  BY <1>0, <1>4 DEF CheckReject, RejectOver, PolInv, PolTypeOK, BudgetOK, SpacingOK, RateOK,
                    BadFramesEndSession
<1>5. CASE CheckBackoff
  <2>1. PICK age \in pol.last_connect :
          age < Required(FailuresSeen) /\ sleep' = Required(FailuresSeen) - age
    BY <1>5 DEF CheckBackoff
  <2>2. /\ pol' = ForgetFailures /\ pc = "check" /\ pc' = "backoff"
        /\ pol.attempts < MaxAttempts
        /\ subsec' = subsec /\ tried' = tried /\ misses' = misses /\ passed' = passed
    BY <1>5 DEF CheckBackoff
  <2>3. sleep' \in Nat /\ age + sleep' = Required(FailuresSeen)
    BY <1>1, <1>3, <2>1
  <2>4. PolTypeOK' /\ BudgetOK' /\ RateOK' /\ BadFramesEndSession'
    BY <1>0, <1>2, <2>2, <2>3 DEF PolTypeOK, BudgetOK, RateOK, BadFramesEndSession
  <2>5. \A a \in pol'.last_connect : a = age
    BY <1>1, <1>2, <2>2 DEF Age
  <2>6. \A a \in pol'.last_connect : a + sleep' >= Required(FailuresSeen)
    BY <1>3, <2>3, <2>5
  <2> QED
    BY <1>0, <1>2, <2>2, <2>4, <2>6 DEF PolInv, SpacingOK, Required, FailureBackoff
\* Connecting.
<1>6. ASSUME NEW p \in Policy, pol' = p, p.last_connect = {0}, p.attempts = pol.attempts,
             p.frames = pol.frames, p.bad = pol.bad, p.total_bad = pol.total_bad,
             p.data = pol.data, p.heard = pol.heard, p.session = pol.session,
             pc # "steady", pc' = "wait_ready", tried' = {0}, pol.attempts < MaxAttempts,
             UNCHANGED <<sleep, subsec, misses, passed>>
      PROVE  PolInv'
  <2>1. PolTypeOK' /\ BudgetOK' /\ RateOK' /\ BadFramesEndSession'
    BY <1>0, <1>6, NewAges DEF PolTypeOK, BudgetOK, RateOK, BadFramesEndSession
  <2>2. SpacingOK'
    BY <1>6 DEF SpacingOK
  <2> QED
    BY <2>1, <2>2 DEF PolInv
<1>7. CASE BackoffOver
  <2> DEFINE p == [pol EXCEPT !.last_connect = {0}]
  <2>1. /\ p \in Policy /\ p.last_connect = {0} /\ p.attempts = pol.attempts
        /\ p.frames = pol.frames /\ p.bad = pol.bad /\ p.total_bad = pol.total_bad
        /\ p.data = pol.data /\ p.heard = pol.heard /\ p.session = pol.session
    BY <1>0, NewAges DEF Policy
  <2>2. /\ pol' = p /\ pc = "backoff" /\ pc' = "wait_ready" /\ tried' = {0}
        /\ UNCHANGED <<sleep, subsec, misses, passed>>
    BY <1>7 DEF BackoffOver
  <2>3. pol.attempts < MaxAttempts
    BY <1>0, <2>2 DEF BudgetOK
  <2> HIDE DEF p
  <2> QED
    BY <1>6, <2>1, <2>2, <2>3
<1>8. CASE CheckAllow
  <2> DEFINE p == [ForgetFailures EXCEPT !.last_connect = {0}]
  <2>1. /\ p \in Policy /\ p.last_connect = {0} /\ p.attempts = pol.attempts
        /\ p.frames = pol.frames /\ p.bad = pol.bad /\ p.total_bad = pol.total_bad
        /\ p.data = pol.data /\ p.heard = pol.heard /\ p.session = pol.session
    BY <1>2, NewAges DEF Policy
  <2>2. /\ pol' = p /\ pc = "check" /\ pc' = "wait_ready" /\ tried' = {0}
        /\ pol.attempts < MaxAttempts /\ UNCHANGED <<sleep, subsec, misses, passed>>
    BY <1>8 DEF CheckAllow
  <2> HIDE DEF p
  <2> QED
    BY <1>6, <2>1, <2>2
<1> QED
  BY <1>4, <1>5, <1>7, <1>8 DEF RunStep

\* reset_session clears what belongs to a session and nothing else.
LEMMA ResetIs ==
    ASSUME NEW p \in Policy
    PROVE  /\ ResetSession(p) \in Policy
           /\ ResetSession(p).bad = 0 /\ ResetSession(p).total_bad = 0
           /\ ~ResetSession(p).data /\ ~ResetSession(p).heard
           /\ ResetSession(p).session = {}
           /\ ResetSession(p).last_connect = p.last_connect
           /\ ResetSession(p).attempts = p.attempts /\ ResetSession(p).frames = p.frames
           /\ ResetSession(p).failures = p.failures
           /\ ResetSession(p).first_failure = p.first_failure
           /\ ResetSession(p).window = p.window
BY NewAges DEF ResetSession, Policy

\* session(), up to the end of the handshake.
LEMMA HandshakeKeeps ==
    ASSUME PolInv, NotReady \/ Ready \/ HandshakeOk \/ HandshakeFailed
    PROVE  PolInv'
<1>0. /\ PolTypeOK /\ pol \in Policy /\ BudgetOK /\ SpacingOK /\ RateOK /\ BadFramesEndSession
  BY DEF PolInv, PolTypeOK
<1>1. CASE NotReady \/ Ready
  BY <1>0, <1>1 DEF NotReady, Ready, PolInv, PolTypeOK, BudgetOK, SpacingOK, RateOK,
                    BadFramesEndSession
<1> DEFINE q == ResetSession(pol)
<1>2. /\ q \in Policy /\ q.bad = 0 /\ q.total_bad = 0 /\ ~q.data /\ ~q.heard
      /\ q.session = {} /\ q.last_connect = pol.last_connect
      /\ q.attempts = pol.attempts /\ q.frames = pol.frames /\ q.failures = pol.failures
      /\ q.first_failure = pol.first_failure
  BY <1>0, ResetIs
<1> HIDE DEF q
<1>3. CASE HandshakeOk
  <2>1. /\ pol' = [q EXCEPT !.failures = 0, !.attempts = 0, !.first_failure = {},
                            !.session = {0}]
        /\ pc' = "steady" /\ misses' = 0
        /\ UNCHANGED <<sleep, subsec, tried, passed>>
    BY <1>3 DEF HandshakeOk, q
  <2>2. /\ pol' \in Policy /\ pol'.attempts = 0 /\ pol'.bad = 0 /\ pol'.total_bad = 0
        /\ pol'.frames = pol.frames /\ pol'.last_connect = pol.last_connect
    BY <1>2, <2>1, NewAges DEF Policy
  <2>3. PolTypeOK' /\ BudgetOK' /\ RateOK' /\ BadFramesEndSession'
    BY <1>0, <2>1, <2>2, PolicyAssumption DEF PolTypeOK, BudgetOK, RateOK, BadFramesEndSession
  <2>4. SpacingOK'
    BY <1>0, <2>1, <2>2 DEF SpacingOK
  <2> QED
    BY <2>3, <2>4 DEF PolInv
<1>4. CASE HandshakeFailed
  <2> DEFINE first == IF q.first_failure = {} THEN {0} ELSE q.first_failure
  <2>1. first \in Age(SecCap)
    BY <1>2, NewAges DEF Policy
  <2>2. /\ pol' = [q EXCEPT !.failures = q.failures + 1, !.attempts = q.attempts + 1,
                            !.first_failure = first, !.last_connect = {0}]
        /\ pc = "handshake" /\ pc' = "check" /\ misses' = misses + 1
        /\ UNCHANGED <<sleep, subsec, tried, passed>>
    BY <1>4 DEF HandshakeFailed, q
  <2> HIDE DEF first
  <2>3. /\ pol' \in Policy /\ pol'.attempts = pol.attempts + 1
        /\ pol'.bad = 0 /\ pol'.total_bad = 0 /\ ~pol'.data /\ ~pol'.heard
        /\ pol'.session = {} /\ pol'.frames = pol.frames /\ pol'.last_connect = {0}
    <3>1. q.failures + 1 \in Nat /\ q.attempts + 1 \in Nat
      BY <1>2 DEF Policy
    <3>2. pol' \in Policy
      BY <1>2, <2>1, <2>2, <3>1, NewAges DEF Policy
    <3> QED
      BY <1>2, <2>2, <3>2 DEF Policy
  <2>4. pol.attempts \in Nat /\ pol.attempts < MaxAttempts /\ misses = pol.attempts
    BY <1>0, <2>2 DEF BudgetOK, Policy
  <2>5. BudgetOK'
    BY <2>2, <2>3, <2>4, PolicyAssumption DEF BudgetOK
  <2>6. PolTypeOK' /\ RateOK' /\ BadFramesEndSession'
    BY <1>0, <2>2, <2>3 DEF PolTypeOK, RateOK, BadFramesEndSession
  <2>7. SpacingOK'
    <3>1. \A t \in tried : 0 <= t
      BY <1>0 DEF PolTypeOK, Age
    <3> QED
      BY <2>2, <2>3, <3>1 DEF SpacingOK
  <2> QED
    BY <2>5, <2>6, <2>7 DEF PolInv
<1> QED
  BY <1>1, <1>3, <1>4

\* check_frame_rate touches the rate window only; it lets a frame through below
\* the limit and refuses one at the limit.
LEMMA RateIs ==
    ASSUME PolTypeOK, RateOK
    PROVE  /\ FrameRate.pol \in Policy
           /\ FrameRate.pol.last_connect = pol.last_connect
           /\ FrameRate.pol.attempts = pol.attempts
           /\ FrameRate.pol.bad = pol.bad /\ FrameRate.pol.total_bad = pol.total_bad
           /\ FrameRate.allow => FrameRate.pol.frames <= MinOf(passed + 1, RateMax)
           /\ ~FrameRate.allow => FrameRate.pol.frames = 0 /\ passed = RateMax
<1> DEFINE p == RateRestarted
<1>0. /\ pol \in Policy /\ passed \in 0 .. RateMax /\ pol.frames <= passed
      /\ RateMax \in Nat /\ 0 \in 0 .. TickCap
  BY PolicyAssumption DEF PolTypeOK, RateOK
<1>1. /\ p \in Policy /\ p.last_connect = pol.last_connect /\ p.attempts = pol.attempts
      /\ p.bad = pol.bad /\ p.total_bad = pol.total_bad /\ p.frames <= passed
  <2>1. CASE pol.window >= RateWindow
    <3>1. p = [pol EXCEPT !.window = 0, !.frames = 0]
      BY <2>1 DEF RateRestarted
    <3>2. p \in Policy /\ p.frames = 0
      BY <1>0, <3>1 DEF Policy
    <3> QED
      BY <1>0, <3>1, <3>2 DEF Policy
  <2>2. CASE ~(pol.window >= RateWindow)
    BY <1>0, <2>2 DEF RateRestarted
  <2> QED
    BY <2>1, <2>2
<1> HIDE DEF p
<1>2. p.frames \in Nat
  BY <1>1 DEF Policy
<1>3. CASE p.frames >= RateMax
  <2>1. FrameRate = [allow |-> FALSE, pol |-> [p EXCEPT !.window = 0, !.frames = 0]]
    BY <1>3 DEF FrameRate, p
  <2>2. passed = RateMax
    BY <1>0, <1>1, <1>2, <1>3
  <2> QED
    BY <1>0, <1>1, <2>1, <2>2 DEF Policy
<1>4. CASE ~(p.frames >= RateMax)
  <2>1. FrameRate = [allow |-> TRUE, pol |-> [p EXCEPT !.frames = p.frames + 1]]
    BY <1>4 DEF FrameRate, p
  <2>2. p.frames + 1 \in Nat /\ p.frames + 1 <= MinOf(passed + 1, RateMax)
    BY <1>0, <1>1, <1>2, <1>4 DEF MinOf
  <2> QED
    BY <1>1, <2>1, <2>2 DEF Policy
<1> QED
  BY <1>3, <1>4

\* steady(), a frame at a time.
LEMMA SteadyKeeps ==
    ASSUME PolInv,
           \/ SteadyEnds \/ FrameDropped \/ GoodFrame \/ GraceFrame \/ BadFrame
           \/ OwnSend \/ HeartbeatTimer
    PROVE  PolInv'
<1>0. /\ PolTypeOK /\ pol \in Policy /\ BudgetOK /\ SpacingOK /\ RateOK /\ BadFramesEndSession
      /\ passed \in 0 .. RateMax /\ RateMax \in Nat
  BY PolicyAssumption DEF PolInv, PolTypeOK
<1>1. pc = "steady" /\ UNCHANGED <<sleep, subsec, tried, misses>>
  BY DEF SteadyEnds, FrameDropped, GoodFrame, GraceFrame, BadFrame, OwnSend, HeartbeatTimer
<1>2. MinOf(passed + 1, RateMax) \in 0 .. RateMax
  BY <1>0 DEF MinOf
\* A policy that differs in what a session counts.
<1>3. ASSUME NEW p \in Policy, pol' = p, p.last_connect = pol.last_connect,
             p.attempts = pol.attempts, passed' \in 0 .. RateMax, p.frames <= passed',
             \/ pc' = "steady" /\ p.bad < MaxBad /\ p.total_bad < MaxTotalBad
             \/ /\ pc' = "check" /\ p.bad = 0 /\ p.total_bad = 0
                /\ ~p.data /\ ~p.heard /\ p.session = {}
      PROVE  PolInv'
  <2>1. PolTypeOK' /\ BudgetOK' /\ RateOK' /\ BadFramesEndSession'
    BY <1>0, <1>1, <1>3 DEF PolTypeOK, BudgetOK, RateOK, BadFramesEndSession
  <2>2. SpacingOK'
    BY <1>0, <1>1, <1>3 DEF SpacingOK
  <2> QED
    BY <2>1, <2>2 DEF PolInv
\* Leaving the session.
<1>4. ASSUME NEW p \in Policy, LeaveSteady(p), p.last_connect = pol.last_connect,
             p.attempts = pol.attempts, passed' \in 0 .. RateMax, p.frames <= passed'
      PROVE  PolInv'
  <2> DEFINE q == ResetSession(p)
  <2>1. /\ q \in Policy /\ q.bad = 0 /\ q.total_bad = 0 /\ ~q.data /\ ~q.heard
        /\ q.session = {} /\ q.last_connect = p.last_connect
        /\ q.attempts = p.attempts /\ q.frames = p.frames
    BY <1>4, ResetIs
  <2>2. pol' = q /\ pc' = "check"
    BY <1>4 DEF LeaveSteady
  <2> HIDE DEF q
  <2> QED
    BY <1>3, <1>4, <2>1, <2>2
<1>5. CASE SteadyEnds \/ HeartbeatTimer
  BY <1>0, <1>4, <1>5 DEF SteadyEnds, HeartbeatTimer, RateOK
<1>6. CASE OwnSend
  <2> DEFINE p == [pol EXCEPT !.data = TRUE]
  <2>1. /\ p \in Policy /\ p.last_connect = pol.last_connect /\ p.attempts = pol.attempts
        /\ p.frames = pol.frames /\ p.bad = pol.bad /\ p.total_bad = pol.total_bad
    BY <1>0 DEF Policy
  <2>2. pol' = p /\ pc' = pc /\ passed' = passed
    BY <1>6 DEF OwnSend
  <2> HIDE DEF p
  <2> QED
    BY <1>0, <1>1, <1>3, <2>1, <2>2 DEF RateOK, BadFramesEndSession
<1> DEFINE fr == FrameRate.pol
<1>7. /\ fr \in Policy /\ fr.last_connect = pol.last_connect /\ fr.attempts = pol.attempts
      /\ fr.bad = pol.bad /\ fr.total_bad = pol.total_bad
      /\ FrameRate.allow => fr.frames <= MinOf(passed + 1, RateMax)
      /\ ~FrameRate.allow => fr.frames = 0
  BY <1>0, RateIs
<1>8. CASE FrameDropped
  <2>1. pol' = fr /\ pc' = pc /\ passed' = 0 /\ fr.frames = 0
    BY <1>7, <1>8 DEF FrameDropped
  <2> HIDE DEF fr
  <2>2. passed' \in 0 .. RateMax /\ fr.frames <= passed'
    BY <1>0, <2>1
  <2> QED
    BY <1>0, <1>1, <1>3, <1>7, <2>1, <2>2 DEF BadFramesEndSession
<1>9. CASE GraceFrame
  <2>1. /\ pol' = fr /\ pc' = pc /\ passed' = MinOf(passed + 1, RateMax)
        /\ fr.frames <= passed'
    BY <1>7, <1>9 DEF GraceFrame
  <2> HIDE DEF fr
  <2> QED
    BY <1>0, <1>1, <1>2, <1>3, <1>7, <2>1 DEF BadFramesEndSession
<1>10. CASE GoodFrame
  <2>1. PICK kind \in {"heartbeat", "answered", "unanswered"} :
          pol' = [fr EXCEPT !.bad = 0, !.heard = fr.heard \/ kind = "heartbeat",
                            !.data = fr.data \/ kind = "answered"]
    BY <1>10 DEF GoodFrame
  <2>2. pc' = pc /\ passed' = MinOf(passed + 1, RateMax) /\ fr.frames <= passed'
    BY <1>7, <1>10 DEF GoodFrame
  <2> HIDE DEF fr
  <2>3. /\ pol' \in Policy /\ pol'.last_connect = fr.last_connect
        /\ pol'.attempts = fr.attempts /\ pol'.frames = fr.frames
        /\ pol'.bad = 0 /\ pol'.total_bad = fr.total_bad
    <3> DEFINE h == fr.heard \/ kind = "heartbeat"
               d == fr.data \/ kind = "answered"
    <3>1. h \in BOOLEAN /\ d \in BOOLEAN
      OBVIOUS
    <3>2. pol' = [fr EXCEPT !.bad = 0, !.heard = h, !.data = d]
      BY <2>1
    <3> HIDE DEF h, d
    <3> QED
      BY <1>7, <3>1, <3>2 DEF Policy
  <2>4. 0 < MaxBad
    BY PolicyAssumption
  <2> QED
    BY <1>0, <1>1, <1>2, <1>3, <1>7, <2>2, <2>3, <2>4 DEF BadFramesEndSession
<1>11. CASE BadFrame
  <2> DEFINE p == [fr EXCEPT !.bad = fr.bad + 1, !.total_bad = fr.total_bad + 1]
  <2>1. /\ passed' = MinOf(passed + 1, RateMax) /\ fr.frames <= passed'
        /\ IF p.bad >= MaxBad \/ p.total_bad >= MaxTotalBad
           THEN LeaveSteady(p) ELSE pol' = p /\ pc' = pc
    BY <1>7, <1>11 DEF BadFrame
  <2> HIDE DEF fr
  <2>2. fr.bad + 1 \in Nat /\ fr.total_bad + 1 \in Nat
    BY <1>7 DEF Policy
  <2>3. /\ p \in Policy /\ p.last_connect = fr.last_connect /\ p.attempts = fr.attempts
        /\ p.frames = fr.frames
    BY <1>7, <2>2 DEF Policy
  <2>4. p.bad \in Nat /\ p.total_bad \in Nat
    BY <2>3 DEF Policy
  <2> HIDE DEF p
  <2>5. CASE p.bad >= MaxBad \/ p.total_bad >= MaxTotalBad
    BY <1>2, <1>4, <1>7, <2>1, <2>3, <2>5
  <2>6. CASE ~(p.bad >= MaxBad \/ p.total_bad >= MaxTotalBad)
    <3>1. p.bad < MaxBad /\ p.total_bad < MaxTotalBad
      BY <2>4, <2>6, PolicyAssumption
    <3> QED
      BY <1>1, <1>2, <1>3, <1>7, <2>1, <2>3, <2>6, <3>1
  <2> QED
    BY <2>5, <2>6
<1> QED
  BY <1>5, <1>6, <1>8, <1>9, <1>10, <1>11

-----------------------------------------------------------------------------
(* Theorems *)

LEMMA PolInvInductive ==
    /\ PolInit => PolInv
    /\ PolInv /\ [PolNext]_polVars => PolInv'
<1>1. ASSUME PolInit PROVE PolInv
  <2>1. NewPolicy \in Policy /\ pol = NewPolicy
    BY <1>1, NewAges, Timing DEF PolInit, NewPolicy, Policy
  <2>2. PolTypeOK
    BY <1>1, <2>1, NewAges, PolicyAssumption DEF PolInit, PolTypeOK
  <2>3. BudgetOK /\ SpacingOK /\ RateOK /\ BadFramesEndSession
    BY <1>1, PolicyAssumption
    DEF PolInit, NewPolicy, BudgetOK, SpacingOK, RateOK, BadFramesEndSession
  <2> QED
    BY <2>2, <2>3 DEF PolInv
<1>2. ASSUME PolInv, [PolNext]_polVars PROVE PolInv'
  <2>1. CASE Tick
    BY <1>2, <2>1, TickKeeps
  <2>2. CASE RunStep
    BY <1>2, <2>2, RunKeeps
  <2>3. CASE SessionStep
    BY <1>2, <2>3, HandshakeKeeps, SteadyKeeps DEF SessionStep
  <2>4. CASE UNCHANGED polVars
    BY <1>2, <2>4 DEF polVars, PolInv, PolTypeOK, BudgetOK, SpacingOK, RateOK,
                      BadFramesEndSession, Required, FailureBackoff
  <2> QED
    BY <1>2, <2>1, <2>2, <2>3, <2>4 DEF PolNext
<1> QED
  BY <1>1, <1>2

\* check_reconnect never lets more than MAX_TOTAL_RECONNECT_ATTEMPTS handshakes
\* fail without a success between them, whatever the failure window forgets.
THEOREM BudgetHolds == PolSpec => []FailureBudget
<1>1. PolInv => FailureBudget
  BY DEF PolInv, BudgetOK, FailureBudget
<1> QED
  BY <1>1, PolInvInductive, PTL DEF PolSpec

\* A session that stays open is below both limits on bad frames, and
\* reset_session leaves nothing of it behind.
THEOREM BadFramesBounded == PolSpec => []BadFramesEndSession
<1>1. PolInv => BadFramesEndSession
  BY DEF PolInv
<1> QED
  BY <1>1, PolInvInductive, PTL DEF PolSpec

\* A step that begins a connection is one of two, and both have waited.
LEMMA SpacedConnect ==
    ASSUME PolInv, [PolNext]_polVars, Connects
    PROVE  /\ \A a \in tried : a >= RetryBase * TicksPerSec
           /\ \A a \in pol.last_connect : a >= FailureBackoff(pol'.failures)
<1>0. /\ PolTypeOK /\ pol \in Policy /\ SpacingOK
      /\ \A a \in pol.last_connect : a \in 0 .. TickCap
      /\ \A t \in tried : t \in 0 .. TickCap
      /\ TickCap \in Nat /\ RetryBase * TicksPerSec \in Nat
  BY Timing DEF PolInv, PolTypeOK, Policy, Age
<1>1. ASSUME NEW f \in Nat, pol'.failures = f, \A a \in pol.last_connect : a >= Required(f)
      PROVE  /\ \A a \in tried : a >= RetryBase * TicksPerSec
             /\ \A a \in pol.last_connect : a >= FailureBackoff(pol'.failures)
  <2>1. /\ FailureBackoff(f) \in Nat /\ Required(f) \in Nat
        /\ Required(f) >= RetryBase * TicksPerSec /\ Required(f) >= FailureBackoff(f)
    BY RequiredIs
  <2>2. \A a \in pol.last_connect : a >= RetryBase * TicksPerSec /\ a >= FailureBackoff(f)
    BY <1>0, <1>1, <2>1
  <2>3. ASSUME NEW t \in tried PROVE t >= RetryBase * TicksPerSec
    <3>1. PICK a \in pol.last_connect : a <= t
      BY <1>0 DEF SpacingOK
    <3> QED
      BY <1>0, <2>2, <3>1
  <2> QED
    BY <1>1, <2>2, <2>3
<1>2. CASE BackoffOver
  <2>1. sleep = 0 /\ pc = "backoff" /\ pol' = [pol EXCEPT !.last_connect = {0}]
    BY <1>2 DEF BackoffOver
  <2>2. pol'.failures = pol.failures /\ pol.failures \in Nat
    BY <1>0, <2>1 DEF Policy
  <2>3. \A a \in pol.last_connect : a >= Required(pol.failures)
    BY <1>0, <2>1 DEF SpacingOK
  <2> QED
    BY <1>1, <2>2, <2>3
<1>3. CASE CheckAllow
  <2>1. /\ \A a \in pol.last_connect : a >= Required(FailuresSeen)
        /\ pol' = [ForgetFailures EXCEPT !.last_connect = {0}]
    BY <1>3 DEF CheckAllow
  <2>2. FailuresSeen \in Nat /\ pol'.failures = FailuresSeen
    BY <1>0, <2>1, ForgetIs DEF Policy
  <2> QED
    BY <1>1, <2>1, <2>2
<1>4. BackoffOver \/ CheckAllow
  BY DEF Connects, PolNext, polVars, RunStep, SessionStep, Tick, CheckReject, RejectOver,
         CheckBackoff, NotReady, Ready, HandshakeOk, HandshakeFailed, SteadyEnds, FrameDropped,
         GoodFrame, GraceFrame, BadFrame, OwnSend, HeartbeatTimer, LeaveSteady
<1> QED
  BY <1>2, <1>3, <1>4

\* run() waits out the base interval between any two attempts to connect and the
\* exponential backoff after failures, for every timing configuration.
THEOREM AttemptsSpaced == PolSpec => ReconnectSpacing
<1>1. PolInv /\ [PolNext]_polVars =>
        [Connects =>
           /\ \A a \in tried : a >= RetryBase * TicksPerSec
           /\ \A a \in pol.last_connect : a >= FailureBackoff(pol'.failures)]_polVars
  BY SpacedConnect
<1> QED
  BY <1>1, PolInvInductive, PTL DEF PolSpec, ReconnectSpacing

\* check_frame_rate never drops two frames with fewer than FRAME_RATE_MAX let
\* through between them.
THEOREM RateDropsIsolated == PolSpec => DropsAreIsolated
<1>1. PolInv /\ [PolNext]_polVars => [FrameDropped => passed = RateMax]_polVars
  BY RateIs DEF PolInv, FrameDropped
<1> QED
  BY <1>1, PolInvInductive, PTL DEF PolSpec, DropsAreIsolated
=============================================================================
