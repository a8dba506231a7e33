---------------------------- MODULE LinkDispatch ----------------------------
(***************************************************************************)
(* What a node does with a decrypted link message in steady state           *)
(* (node.rs: dispatch_link_message, process_frame_action, the throughput    *)
(* test of benchmark builds, the send_* functions) with the sizes of the    *)
(* buffers every answer passes through.                                     *)
(*                                                                         *)
(* A message is known by its type and the size of its payload; elapsed time  *)
(* is in ticks.  The state keeps the last answer and whether it left the    *)
(* node, and, for the properties, the test the peer last asked for in this   *)
(* session with what was received of it.                                    *)
(***************************************************************************)
EXTENDS Naturals, FiniteSets

CONSTANTS
    TestId,        \* test ids of throughput requests
    Durations,     \* requested durations, in seconds
    TestTicks,     \* ticks per second
    StreamSizes,   \* payload sizes of stream frames
    EchoSizes,     \* payload sizes of echo requests
    AnswerSizes,   \* sizes of the answers an application handler writes
    FramesMax,     \* u32::MAX
    MaxBytes,      \* bound on the bytes of a test
    MaxElapsed     \* ages saturate here

ASSUME LdAssumption ==
    /\ \A S \in {Durations, StreamSizes, EchoSizes, AnswerSizes} : S \subseteq Nat
    /\ {TestTicks, FramesMax, MaxElapsed} \subseteq Nat \ {0}

VARIABLES
    throughput,   \* ThroughputState; age is the time since started_at
    ldLink,         \* "steady" or "down"
    answer,       \* the last message handed to a send function, or none
    left,         \* it left the node
    asked         \* the test asked for in this session: id, frames, bytes, reports

ldVars == <<throughput, ldLink, answer, left, asked>>

RespBuf == 320
OutBuf == 256
ReportBody == 67
NoTest == [id |-> 0, frames |-> 0, bytes |-> 0, started |-> FALSE, age |-> 0, dur |-> 0, active |-> FALSE]

LeastOf(a, b) == IF a < b THEN a ELSE b

----------------------------------------------------------------------------
(* Sending *)

\* send_session_datagram and send_link_message: type and timestamp in front, 16
\* bytes of header and of tag around; what does not fit into the output buffer is
\* not sent.
Leaves(len) == 16 + 4 + 1 + len + 16 <= OutBuf

SendLinkMessage(type, len, more) ==
    /\ answer' = {[type |-> type, len |-> len, data |-> more]}
    /\ left' = Leaves(len)

\* FrameAction::Continue and HeartbeatRecv
NoAnswer == answer' = {} /\ left' = FALSE

----------------------------------------------------------------------------
(* dispatch_link_message *)

\* A heartbeat is recorded, a receiver report ignored.
OnHeartbeat ==
    /\ ldLink = "steady"
    /\ NoAnswer
    /\ UNCHANGED <<throughput, ldLink, asked>>

\* PeerDC ends steady; nothing is sent.
OnDisconnectMessage ==
    /\ ldLink = "steady"
    /\ ldLink' = "down"
    /\ NoAnswer
    /\ UNCHANGED <<throughput, asked>>

\* build_receiver_report_response on a sender report with a payload of n bytes
OnSenderReport ==
    /\ ldLink = "steady"
    /\ \E n \in {26, 27} :
         IF n >= 27 /\ RespBuf >= ReportBody
         THEN SendLinkMessage("receiver_report", ReportBody, {})
         ELSE NoAnswer
    /\ UNCHANGED <<throughput, ldLink, asked>>

\* parse_echo_request and build_echo_response
EchoResponse(n) ==
    IF n < 12 \/ RespBuf < 20 + (n - 12) \/ n - 12 > 256 THEN {} ELSE {20 + (n - 12)}

OnEchoRequest ==
    /\ ldLink = "steady"
    /\ \E n \in EchoSizes :
         IF EchoResponse(n) = {} THEN NoAnswer
         ELSE \E len \in EchoResponse(n) : SendLinkMessage("echo_response", len, {n})
    /\ UNCHANGED <<throughput, ldLink, asked>>

\* handle_throughput_request: only the upload direction is served; a new request
\* replaces a running test.
HandleThroughputRequest ==
    /\ ldLink = "steady"
    /\ \E id \in TestId, dir \in {0, 1}, dur \in Durations :
         IF dir = 0
         THEN /\ throughput' = [NoTest EXCEPT !.id = id, !.started = TRUE, !.dur = dur, !.active = TRUE]
              /\ asked' = {[id |-> id, dur |-> dur, frames |-> 0, bytes |-> 0, reports |-> 0]}
         ELSE UNCHANGED <<throughput, asked>>
    /\ NoAnswer
    /\ UNCHANGED ldLink

\* A stream frame the test does not count.
Foreign(id, n) == ~throughput.active \/ n < 8 \/ id # throughput.id

\* The counters with one more frame of n bytes; both saturate, the bytes far out
\* of reach.
Counted(n) == [throughput EXCEPT !.frames = LeastOf(@ + 1, FramesMax), !.bytes = @ + n]

\* The peer's own account of a frame of its test.
Account(id, n, reported) ==
    asked' = {[t EXCEPT !.frames = IF t.id = id THEN @ + 1 ELSE @,
                        !.bytes = IF t.id = id THEN @ + n ELSE @,
                        !.reports = IF reported THEN @ + 1 ELSE @] : t \in asked}

\* handle_throughput_stream: counters saturate; the first counted frame at or
\* after the requested duration ends the test with a report.
HandleThroughputStream ==
    /\ ldLink = "steady"
    /\ \E id \in TestId, n \in StreamSizes :
         IF Foreign(id, n) THEN NoAnswer /\ UNCHANGED <<throughput, asked>>
         ELSE LET t == Counted(n)
                  done == t.started /\ t.age >= t.dur * TestTicks
              IN  /\ t.bytes <= MaxBytes
                  /\ throughput' = [t EXCEPT !.active = ~done]
                  /\ IF done
                     THEN SendLinkMessage("throughput_report", 36, {[id |-> t.id, frames |-> t.frames, age |-> t.age]})
                     ELSE NoAnswer
                  /\ Account(id, n, done)
    /\ UNCHANGED ldLink

\* Every other type goes to the application handler: no answer, a session datagram
\* of up to the response buffer, or a disconnect, which is sent before leaving.
OnMessage ==
    /\ ldLink = "steady"
    /\ \/ NoAnswer /\ UNCHANGED ldLink
       \/ (\E len \in AnswerSizes : SendLinkMessage("session_datagram", len, {})) /\ UNCHANGED ldLink
       \/ SendLinkMessage("disconnect", 1, {}) /\ ldLink' = "down"
    /\ UNCHANGED <<throughput, asked>>

\* The handler's timer: only a datagram has an effect.
OnTick ==
    /\ ldLink = "steady"
    /\ \/ NoAnswer
       \/ \E len \in AnswerSizes : SendLinkMessage("session_datagram", len, {})
    /\ UNCHANGED <<throughput, ldLink, asked>>

\* A plausible slip: the throughput state survives into the next session.
NextSessionKeepsTest ==
    /\ ldLink = "down"
    /\ ldLink' = "steady"
    /\ asked' = {}
    /\ NoAnswer
    /\ UNCHANGED throughput

\* session(): the next one starts without a test.
NextSession ==
    /\ ldLink = "down"
    /\ ldLink' = "steady"
    /\ throughput' = NoTest
    /\ asked' = {}
    /\ NoAnswer

LdTick ==
    /\ throughput.started /\ throughput.age < MaxElapsed
    /\ throughput' = [throughput EXCEPT !.age = @ + 1]
    /\ UNCHANGED <<ldLink, answer, left, asked>>

LdInit ==
    /\ throughput = NoTest /\ ldLink = "steady"
    /\ answer = {} /\ left = FALSE /\ asked = {}

LdNext ==
    \/ OnHeartbeat \/ OnDisconnectMessage \/ OnSenderReport \/ OnEchoRequest
    \/ HandleThroughputRequest \/ HandleThroughputStream
    \/ OnMessage \/ OnTick \/ NextSession \/ LdTick

LdSpec == LdInit /\ [][LdNext]_ldVars

----------------------------------------------------------------------------
(* Properties *)

\* A throughput report answers a request of this session: it names the test, was
\* sent once, not before the requested duration, and counts just the frames that
\* arrived for this test since the request, whatever was left over from an
\* earlier test or session.
ReportIsHonest ==
    \A a \in answer : a.type = "throughput_report" =>
        \E t \in asked : \A r \in a.data :
            /\ r.id = t.id /\ t.reports = 1
            /\ r.frames = LeastOf(t.frames, FramesMax)
            /\ r.age >= t.dur * TestTicks

\* An echo response carries all of the request's payload and leaves unless it is one
\* of the 220 to 276 bytes that build_echo_response writes but send_link_message's
\* 256-byte buffer does not take; no other answer of dispatch_link_message is lost.
LinkAnswersLeave ==
    \A a \in answer :
        /\ a.type \in {"receiver_report", "throughput_report", "disconnect"} => left
        /\ a.type = "echo_response" => (left <=> a.len <= 219) /\ a.data = {a.len - 8}

\* What dispatch_link_message answers is true and reaches the peer.
LinkAnswersAreRight == ReportIsHonest /\ LinkAnswersLeave

=============================================================================
