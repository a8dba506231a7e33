---------------------------- MODULE BleUdpBridge ----------------------------
(***************************************************************************)
(* tools/ble_udp_bridge.py: one BLE session after another, each with two    *)
(* coroutines.  _udp_to_ble receives in an executor thread, which cannot be *)
(* cancelled: when the session ends, the thread stays in recvfrom until its *)
(* one-second timeout or a datagram.  Notifications wait in a queue that    *)
(* outlives the session; a notification is the number of its session.       *)
(***************************************************************************)
EXTENDS Naturals, Sequences

CONSTANTS
    SocketTimeout,   \* settimeout(1.0), in seconds
    ReconnectDelay,  \* RECONNECT_DELAY, in seconds
    MaxNotes,        \* notifications waiting (bound of the model)
    SessionMod       \* sessions are told apart modulo this

ASSUME BbAssumption ==
    /\ SocketTimeout \in Nat \ {0} /\ ReconnectDelay \in Nat
    /\ MaxNotes \in Nat \ {0} /\ SessionMod \in Nat \ {0, 1}

VARIABLES
    bbStage,   \* "scan", "connect", "drain", "run", "delay"
    bbLinked,  \* the peripheral is connected and subscribed to
    bbSess,    \* the number of the session
    bbQueue,   \* _notify_queue
    bbStop,    \* the session's stop event
    bbRecv,    \* executor threads in recvfrom: how long each has waited
    bbDelay,   \* seconds of the pause that are left
    bbSent     \* the session of the last frame forwarded, and during which one

bbVars == <<bbStage, bbLinked, bbSess, bbQueue, bbStop, bbRecv, bbDelay, bbSent>>

\* run: _scan until a device answers.
Scan ==
    /\ bbStage = "scan"
    /\ bbStage' = "connect"
    /\ UNCHANGED <<bbLinked, bbSess, bbQueue, bbStop, bbRecv, bbDelay, bbSent>>

\* A session ends, by return or by exception, and run sleeps before the next.
Pause ==
    /\ bbStage' = "delay" /\ bbDelay' = ReconnectDelay /\ bbLinked' = FALSE
    /\ UNCHANGED <<bbSess, bbQueue, bbRecv, bbSent>>

\* _run_session: connect and start_notify, with a new stop event; or fail.
Connect ==
    /\ bbStage = "connect"
    /\ \/ /\ bbStage' = "drain" /\ bbLinked' = TRUE /\ bbStop' = FALSE
          /\ bbSess' = (bbSess + 1) % SessionMod
          /\ UNCHANGED <<bbQueue, bbRecv, bbDelay, bbSent>>
       \/ Pause /\ UNCHANGED bbStop

\* _on_notify
OnNotify ==
    /\ bbLinked /\ Len(bbQueue) < MaxNotes
    /\ bbQueue' = Append(bbQueue, bbSess)
    /\ UNCHANGED <<bbStage, bbLinked, bbSess, bbStop, bbRecv, bbDelay, bbSent>>

\* The queue is drained and both coroutines start; _udp_to_ble enters recvfrom.
Drain ==
    /\ bbStage = "drain"
    /\ bbQueue' = <<>>
    /\ bbStage' = "run" /\ bbRecv' = bbRecv \o <<0>>
    /\ UNCHANGED <<bbLinked, bbSess, bbStop, bbDelay, bbSent>>

\* on_disconnect
OnDisconnect ==
    /\ bbLinked
    /\ bbLinked' = FALSE /\ bbStop' = TRUE
    /\ UNCHANGED <<bbStage, bbSess, bbQueue, bbRecv, bbDelay, bbSent>>

\* _ble_to_udp: the next notification is parsed and sent on, or skipped (short,
\* empty or truncated).
BleToUdp ==
    /\ bbStage = "run" /\ bbQueue # <<>>
    /\ bbQueue' = Tail(bbQueue)
    /\ \E sent \in {bbSent, [note |-> Head(bbQueue), during |-> bbSess]} : bbSent' = sent
    /\ UNCHANGED <<bbStage, bbLinked, bbSess, bbStop, bbRecv, bbDelay>>

\* _udp_to_ble after recvfrom timed out or gave a datagram that was written, or
\* was too large: it receives again unless stop is set.
UdpToBle ==
    /\ bbStage = "run" /\ ~bbStop
    /\ bbRecv' = [bbRecv EXCEPT ![Len(bbRecv)] = 0]
    /\ UNCHANGED <<bbStage, bbLinked, bbSess, bbQueue, bbStop, bbDelay, bbSent>>

\* It ends: stop is set, or the socket or the BLE write failed.  The session's
\* other task is cancelled in its queue.
UdpToBleEnds ==
    /\ bbStage = "run"
    /\ bbStop' = TRUE
    /\ bbStage' = "delay" /\ bbDelay' = ReconnectDelay /\ bbLinked' = FALSE
    /\ bbRecv' = SubSeq(bbRecv, 1, Len(bbRecv) - 1)
    /\ UNCHANGED <<bbSess, bbQueue, bbSent>>

\* _ble_to_udp ends first (it saw stop, or sendto failed): the other task is
\* cancelled, but its thread stays in recvfrom.
BleToUdpEnds ==
    /\ bbStage = "run"
    /\ bbStop' = TRUE
    /\ Pause

\* A thread that no session waits for returns from recvfrom and is gone; a
\* datagram it received is lost.
OrphanReturns ==
    /\ bbRecv # <<>> /\ (bbStage # "run" \/ Len(bbRecv) > 1)
    /\ bbRecv' = Tail(bbRecv)
    /\ UNCHANGED <<bbStage, bbLinked, bbSess, bbQueue, bbStop, bbDelay, bbSent>>

\* A plausible slip: the pause is skipped after an error.
ResumeAtOnce ==
    /\ bbStage = "delay"
    /\ bbStage' = "scan" /\ bbDelay' = 0
    /\ UNCHANGED <<bbLinked, bbSess, bbQueue, bbStop, bbRecv, bbSent>>

\* The pause is over.
Resume ==
    /\ bbStage = "delay" /\ bbDelay = 0
    /\ bbStage' = "scan"
    /\ UNCHANGED <<bbLinked, bbSess, bbQueue, bbStop, bbRecv, bbDelay, bbSent>>

\* A second passes; no recvfrom outlasts its timeout.
BbTick ==
    /\ \A i \in DOMAIN bbRecv : bbRecv[i] < SocketTimeout
    /\ bbRecv' = [i \in DOMAIN bbRecv |-> bbRecv[i] + 1]
    /\ bbDelay' = IF bbDelay > 0 THEN bbDelay - 1 ELSE 0
    /\ UNCHANGED <<bbStage, bbLinked, bbSess, bbQueue, bbStop, bbSent>>

----------------------------------------------------------------------------
BbInit ==
    /\ bbStage = "scan" /\ bbLinked = FALSE /\ bbSess = 0 /\ bbQueue = <<>>
    /\ bbStop = FALSE /\ bbRecv = <<>> /\ bbDelay = 0
    /\ bbSent = [note |-> 0, during |-> 0]

BbNext ==
    \/ Scan \/ Connect \/ OnNotify \/ Drain \/ OnDisconnect \/ BleToUdp \/ UdpToBle
    \/ UdpToBleEnds \/ BleToUdpEnds \/ OrphanReturns \/ Resume \/ BbTick

BbSpec == BbInit /\ [][BbNext]_bbVars

\* Time passes and the program's own steps are taken; the peripheral owes nothing.
BbRuns == (bbStop /\ UdpToBleEnds) \/ Connect \/ Drain \/ Resume

BbFairness == WF_bbVars(BbTick) /\ WF_bbVars(OrphanReturns) /\ WF_bbVars(BbRuns)

BbFair == BbSpec /\ BbFairness

----------------------------------------------------------------------------
(* Properties *)

\* A frame that is forwarded was notified in the session it is forwarded in:
\* nothing the queue kept from an earlier session reaches the peer.
FramesOfThisSession == bbSent.note = bbSent.during

\* Two threads never wait for datagrams at once: the thread that a cancelled
\* session left in recvfrom is gone before the next session starts its own,
\* because the pause between sessions outlasts the socket's timeout.
OneReceiver == Len(bbRecv) <= 1

\* A lost peripheral is looked for again.
ScansAgain == (bbStage = "run" /\ ~bbLinked) ~> (bbStage = "scan")

\* Sessions stay apart: no notification of an earlier one is
\* forwarded, and no thread of an earlier one takes a datagram.
SessionsStayApart == FramesOfThisSession /\ OneReceiver

=============================================================================
