----------------------------- MODULE PeerPolicy -----------------------------
(***************************************************************************)
(* PeerPolicy and the loop that obeys it: Node::run, which asks for leave  *)
(* to reconnect, Node::session, which reports the outcome, and the places  *)
(* of Node::steady that count frames.                                      *)
(*                                                                         *)
(* An Instant is kept as its age.  The policy compares some differences in *)
(* milliseconds and some in whole seconds (as_secs of both ends), so there *)
(* are two granularities: ticks, and seconds of TicksPerSec ticks that end *)
(* when `subsec' wraps.  Ages stop growing at TickCap and SecCap, above    *)
(* every threshold of the policy.  Time passes at any moment, so a timer   *)
(* may be served late and every await may take long.                       *)
(***************************************************************************)
EXTENDS Naturals

CONSTANTS
    TicksPerSec,
    RetryBase,          \* retry_base_interval_secs
    RetryMax,           \* retry_max_backoff_secs
    MaxFailures,        \* MAX_CONSECUTIVE_FAILURES
    MaxAttempts,        \* MAX_TOTAL_RECONNECT_ATTEMPTS
    FailureReset,       \* FAILURE_RESET_WINDOW_SECS
    RateWindow,         \* frame_rate_window_ms, in ticks
    RateMax,            \* FRAME_RATE_MAX
    LinkDead,           \* link_dead_timeout_secs
    MaxBad,             \* MAX_CONSECUTIVE_BAD
    MaxTotalBad,        \* MAX_TOTAL_BAD_FRAMES
    TickCap, SecCap     \* bounds: ages beyond these are not told apart

ASSUME PolicyAssumption ==
    /\ TicksPerSec \in Nat \ {0}
    /\ RetryBase \in Nat \ {0} /\ RetryMax \in Nat
    /\ MaxFailures \in Nat \ {0} /\ MaxAttempts \in Nat \ {0}
    /\ FailureReset \in Nat /\ LinkDead \in Nat
    /\ RateWindow \in Nat \ {0} /\ RateMax \in Nat \ {0}
    /\ MaxBad \in Nat \ {0} /\ MaxTotalBad \in Nat \ {0}
    /\ TickCap \in Nat /\ SecCap \in Nat
    /\ TickCap >= RateWindow
    /\ TickCap >= RetryBase * TicksPerSec
    /\ TickCap >= RetryMax * TicksPerSec
    /\ SecCap > FailureReset /\ SecCap > LinkDead

VARIABLES
    pol,      \* the PeerPolicy
    pc,       \* where run() is
    sleep,    \* ticks left of the Timer run() sleeps on
    subsec,   \* ticks since the last whole second
    tried,    \* history: age of the last attempt to connect, as a set
    misses,   \* history: handshakes failed since the last that succeeded
    passed    \* history: frames let through since the last one dropped

polVars == <<pol, pc, sleep, subsec, tried, misses, passed>>

-----------------------------------------------------------------------------
Age(cap) == {o \in SUBSET (0 .. cap) : \A x, y \in o : x = y}

(* `heard' and `data' stand for heartbeats_recv > 0 and                    *)
(* data_frames_recv >= SILENT_PEER_MIN_DATA_RATIO, the only uses of the    *)
(* two counters.                                                           *)
Policy ==
    [last_connect : Age(TickCap),
     failures : Nat,                  \* consecutive_failures
     attempts : Nat,                  \* total_reconnect_attempts
     first_failure : Age(SecCap),
     frames : Nat,                    \* frame_count
     window : 0 .. TickCap,           \* frame_window_start
     data : BOOLEAN, heard : BOOLEAN,
     session : Age(SecCap),           \* session_start
     bad : Nat, total_bad : Nat]

(* PeerPolicy::with_timing                                                 *)
NewPolicy ==
    [last_connect |-> {}, failures |-> 0, attempts |-> 0,
     first_failure |-> {}, frames |-> 0, window |-> 0,
     data |-> FALSE, heard |-> FALSE, session |-> {},
     bad |-> 0, total_bad |-> 0]

PolInit ==
    /\ pol = NewPolicy
    /\ pc = "check" /\ sleep = 0 /\ subsec = 0
    /\ tried = {} /\ misses = 0 /\ passed = RateMax

MinOf(a, b) == IF a <= b THEN a ELSE b
MaxOf(a, b) == IF a >= b THEN a ELSE b

-----------------------------------------------------------------------------
(* Time.                                                                   *)
Older(o, cap) == {MinOf(a + 1, cap) : a \in o}

Tick ==
    LET second == subsec + 1 = TicksPerSec IN
    /\ subsec' = IF second THEN 0 ELSE subsec + 1
    /\ sleep' = IF sleep = 0 THEN 0 ELSE sleep - 1
    /\ tried' = Older(tried, TickCap)
    /\ pol' = [pol EXCEPT
         !.last_connect = Older(@, TickCap),
         !.window = MinOf(@ + 1, TickCap),
         !.first_failure = IF second THEN Older(@, SecCap) ELSE @,
         !.session = IF second THEN Older(@, SecCap) ELSE @]
    /\ UNCHANGED <<pc, misses, passed>>

-----------------------------------------------------------------------------
(* check_reconnect: the budget, then the failure window, then the wait.    *)
FailuresExpired == \E a \in pol.first_failure : a > FailureReset

FailuresSeen == IF FailuresExpired THEN 0 ELSE pol.failures

FailureBackoff(f) ==
    IF f >= MaxFailures THEN RetryMax * TicksPerSec
    ELSE IF f = 0 THEN 0
    ELSE MinOf(RetryBase * TicksPerSec * 2^MinOf(f - 1, 15), RetryMax * TicksPerSec)

Required(f) == MaxOf(RetryBase * TicksPerSec, FailureBackoff(f))

ForgetFailures ==
    [pol EXCEPT !.failures = FailuresSeen,
                !.first_failure = IF FailuresExpired THEN {} ELSE @]

(* run(): Reject sleeps retry_base_interval_secs and asks again.           *)
CheckReject ==
    /\ pc = "check"
    /\ pol.attempts >= MaxAttempts
    /\ pc' = "rejected" /\ sleep' = RetryBase * TicksPerSec
    /\ UNCHANGED <<pol, subsec, tried, misses, passed>>

RejectOver ==
    /\ pc = "rejected" /\ sleep = 0
    /\ pc' = "check"
    /\ UNCHANGED <<pol, sleep, subsec, tried, misses, passed>>

(* run(): Backoff sleeps the rest of the required interval ...             *)
CheckBackoff ==
    /\ pc = "check"
    /\ pol.attempts < MaxAttempts
    /\ \E age \in pol.last_connect :
         /\ age < Required(FailuresSeen)
         /\ sleep' = Required(FailuresSeen) - age
    /\ pol' = ForgetFailures
    /\ pc' = "backoff"
    /\ UNCHANGED <<subsec, tried, misses, passed>>

(* A plausible slip: the attempt is recorded, and leave is asked again.     *)
BackoffOverAsksAgain ==
    /\ pc = "backoff" /\ sleep = 0
    /\ pol' = [pol EXCEPT !.last_connect = {0}]
    /\ pc' = "check"
    /\ UNCHANGED <<sleep, subsec, tried, misses, passed>>

(* ... and connects without asking again (record_connect_attempt).         *)
BackoffOver ==
    /\ pc = "backoff" /\ sleep = 0
    /\ pol' = [pol EXCEPT !.last_connect = {0}]
    /\ pc' = "wait_ready" /\ tried' = {0}
    /\ UNCHANGED <<sleep, subsec, misses, passed>>

CheckAllow ==
    /\ pc = "check"
    /\ pol.attempts < MaxAttempts
    /\ \A age \in pol.last_connect : age >= Required(FailuresSeen)
    /\ pol' = [ForgetFailures EXCEPT !.last_connect = {0}]
    /\ pc' = "wait_ready" /\ tried' = {0}
    /\ UNCHANGED <<sleep, subsec, misses, passed>>

-----------------------------------------------------------------------------
(* session().                                                              *)
ResetSession(p) ==
    [p EXCEPT !.data = FALSE, !.heard = FALSE, !.session = {},
              !.bad = 0, !.total_bad = 0]

(* wait_ready fails: session() returns before anything is recorded.        *)
NotReady ==
    /\ pc = "wait_ready"
    /\ pc' = "check"
    /\ UNCHANGED <<pol, sleep, subsec, tried, misses, passed>>

(* The Connected event, then handshake(): it may succeed at once or not.   *)
Ready ==
    /\ pc = "wait_ready"
    /\ pc' = "handshake"
    /\ UNCHANGED <<pol, sleep, subsec, tried, misses, passed>>

(* A plausible slip: a success forgets when it was attempted (#77).         *)
HandshakeOkForgets ==
    /\ pc = "handshake"
    /\ pol' = [ResetSession(pol) EXCEPT
         !.failures = 0, !.attempts = 0, !.first_failure = {},
         !.last_connect = {}, !.session = {0}]
    /\ pc' = "steady" /\ misses' = 0
    /\ UNCHANGED <<sleep, subsec, tried, passed>>

(* record_handshake_ok: last_connect deliberately stays (#77).             *)
HandshakeOk ==
    /\ pc = "handshake"
    /\ pol' = [ResetSession(pol) EXCEPT
         !.failures = 0, !.attempts = 0, !.first_failure = {},
         !.session = {0}]
    /\ pc' = "steady" /\ misses' = 0
    /\ UNCHANGED <<sleep, subsec, tried, passed>>

(* record_handshake_failure, then reset_session.                           *)
HandshakeFailed ==
    /\ pc = "handshake"
    /\ pol' = [ResetSession(pol) EXCEPT
         !.failures = @ + 1, !.attempts = @ + 1,
         !.first_failure = IF @ = {} THEN {0} ELSE @,
         !.last_connect = {0}]
    /\ pc' = "check" /\ misses' = misses + 1
    /\ UNCHANGED <<sleep, subsec, tried, passed>>

LeaveSteady(p) == pol' = ResetSession(p) /\ pc' = "check"

(* The transport fails, either side disconnects, or the link is dead.      *)
SteadyEnds ==
    /\ pc = "steady"
    /\ LeaveSteady(pol)
    /\ UNCHANGED <<sleep, subsec, tried, misses, passed>>

-----------------------------------------------------------------------------
(* steady(): every frame passes check_frame_rate first.                    *)
RateRestarted ==
    IF pol.window >= RateWindow THEN [pol EXCEPT !.window = 0, !.frames = 0]
    ELSE pol

FrameRate ==
    LET p == RateRestarted IN
    IF p.frames >= RateMax
    THEN [allow |-> FALSE, pol |-> [p EXCEPT !.window = 0, !.frames = 0]]
    ELSE [allow |-> TRUE, pol |-> [p EXCEPT !.frames = @ + 1]]

FrameDropped ==
    /\ pc = "steady" /\ ~FrameRate.allow
    /\ pol' = FrameRate.pol /\ passed' = 0
    /\ UNCHANGED <<pc, sleep, subsec, tried, misses>>

(* A frame that opens: record_good_frame, and record_heartbeat for a       *)
(* heartbeat.  record_data_frame is called when the node answers or sends, *)
(* so `data' becomes true only for a frame that draws an answer.           *)
GoodFrame ==
    /\ pc = "steady" /\ FrameRate.allow
    /\ \E kind \in {"heartbeat", "answered", "unanswered"} :
         pol' = [FrameRate.pol EXCEPT !.bad = 0,
                   !.heard = @ \/ kind = "heartbeat",
                   !.data = @ \/ kind = "answered"]
    /\ passed' = MinOf(passed + 1, RateMax)
    /\ UNCHANGED <<pc, sleep, subsec, tried, misses>>

(* A frame no epoch opens, inside the grace period: dropped, not charged.  *)
GraceFrame ==
    /\ pc = "steady" /\ FrameRate.allow
    /\ pol' = FrameRate.pol
    /\ passed' = MinOf(passed + 1, RateMax)
    /\ UNCHANGED <<pc, sleep, subsec, tried, misses>>

(* Outside it: record_bad_frame and the two limits.                        *)
BadFrame ==
    /\ pc = "steady" /\ FrameRate.allow
    /\ LET p == [FrameRate.pol EXCEPT !.bad = @ + 1, !.total_bad = @ + 1] IN
       IF p.bad >= MaxBad \/ p.total_bad >= MaxTotalBad
       THEN LeaveSteady(p)
       ELSE pol' = p /\ UNCHANGED pc
    /\ passed' = MinOf(passed + 1, RateMax)
    /\ UNCHANGED <<sleep, subsec, tried, misses>>

(* The node sends a datagram or a link message of its own.                 *)
OwnSend ==
    /\ pc = "steady"
    /\ pol' = [pol EXCEPT !.data = TRUE]
    /\ UNCHANGED <<pc, sleep, subsec, tried, misses, passed>>

(* The heartbeat timer of steady() asks check_silent_peer; a heartbeat     *)
(* that is sent after a received frame does not.                           *)
Silent(p) == p.heard /\ ~p.data /\ \E a \in p.session : a > LinkDead

HeartbeatTimer ==
    /\ pc = "steady" /\ Silent(pol)
    /\ LeaveSteady(pol)
    /\ UNCHANGED <<sleep, subsec, tried, misses, passed>>

-----------------------------------------------------------------------------
RunStep == CheckReject \/ RejectOver \/ CheckBackoff \/ BackoffOver
           \/ CheckAllow

SessionStep == NotReady \/ Ready \/ HandshakeOk \/ HandshakeFailed
               \/ SteadyEnds \/ FrameDropped \/ GoodFrame \/ GraceFrame
               \/ BadFrame \/ OwnSend \/ HeartbeatTimer

PolNext == Tick \/ RunStep \/ SessionStep

PolSpec == PolInit /\ [][PolNext]_polVars

(* The executor keeps time and serves expired timers.  Nothing is assumed  *)
(* of the transport or the peer.                                           *)
PolFairness == WF_polVars(Tick) /\ WF_polVars(RunStep)
PolFair == PolSpec /\ PolFairness

-----------------------------------------------------------------------------
(* Every variable keeps its shape: ages stay in range, and the timer is     *)
(* never set to a negative wait.                                           *)
PolTypeOK ==
    /\ pol \in Policy
    /\ pc \in {"check", "rejected", "backoff", "wait_ready", "handshake",
               "steady"}
    /\ sleep \in Nat /\ subsec \in 0 .. TicksPerSec - 1
    /\ tried \in Age(TickCap)
    /\ misses \in Nat /\ passed \in 0 .. RateMax

Connects == pc # "wait_ready" /\ pc' = "wait_ready"

(* Connecting again waits out the base interval since the last attempt,    *)
(* whatever came of it (a transport that fails at once, a peer that ends   *)
(* every session, #77), and after f failures in a row at least             *)
(* base * 2^(f-1), up to the maximum, since the last failure.              *)
ReconnectSpacing ==
    [][Connects =>
         /\ \A a \in tried : a >= RetryBase * TicksPerSec
         /\ \A a \in pol.last_connect : a >= FailureBackoff(pol'.failures)]_polVars

(* The failure budget: never more than MaxAttempts failed handshakes       *)
(* without a success between them, although check_reconnect forgets the    *)
(* consecutive failures whenever the failure window has passed.            *)
FailureBudget == misses <= MaxAttempts

(* A session that is kept open is below both bad-frame limits, and none of *)
(* its counters survive it: reset_session runs on every way out.           *)
BadFramesEndSession ==
    /\ pc = "steady" => pol.bad < MaxBad /\ pol.total_bad < MaxTotalBad
    /\ pc # "steady" => /\ pol.bad = 0 /\ pol.total_bad = 0
                        /\ ~pol.data /\ ~pol.heard /\ pol.session = {}

(* check_frame_rate drops at most one frame in RateMax + 1: a drop opens a *)
(* new window, so even a peer above the rate, in whatever bursts and       *)
(* across sessions (the count is not part of reset_session), loses only    *)
(* isolated frames.                                                        *)
DropsAreIsolated ==
    [][FrameDropped => passed = RateMax]_polVars

(* run() never stops trying while the budget lasts: from every check some  *)
(* attempt to connect follows.                                             *)
RetriesWithinBudget ==
    (pc = "check" /\ pol.attempts < MaxAttempts) ~> (pc = "wait_ready")
=============================================================================
