------------------------------ MODULE BleLink ------------------------------
(***************************************************************************)
(* The two BLE transports of the ESP node: GATT (ble_host.rs,              *)
(* ble_transport.rs) and L2CAP (l2cap_host.rs, l2cap_transport.rs,         *)
(* backoff.rs).  In both a host task owns the radio, and the node task     *)
(* talks to it through two bounded channels, a link-up flag and a ready    *)
(* signal.  Both tasks run on one cooperative executor, so what lies       *)
(* between two awaits is one action.                                       *)
(*                                                                         *)
(* A frame is the number of the link for which it was queued.              *)
(***************************************************************************)
EXTENDS Naturals, Sequences, SequencesExt

CONSTANTS
    Flavours,      \* subset of {"gatt", "l2cap"}
    BlePeer,       \* x-only keys of the devices that may connect
    AllowedKeys,   \* FIPS_ALLOWED_PUBKEYS and the build's extra key
    TxCap, RxCap,  \* capacities of the two channels
    Attempts,      \* tries of the pubkey exchange (3)
    BackoffBase,   \* BASE_SECS, in ticks
    BackoffMax,    \* MAX_SECS
    FailureLimit,  \* MAX_FAILURES
    DenyTicks,     \* DENY_SECS
    HealthyTicks,  \* HEALTHY_THRESHOLD_SECS
    MaxLinks       \* bound: connections in a behaviour

ASSUME BleAssumption ==
    /\ AllowedKeys \subseteq BlePeer
    /\ TxCap \in Nat \ {0} /\ RxCap \in Nat \ {0}
    /\ FailureLimit \in Nat \ {0} /\ HealthyTicks < DenyTicks

VARIABLES
    flavour,   \* which transport this build has
    host,      \* the host task: [at, peer, attempt, held]
    link,      \* number of the latest connection
    up,        \* the LINK_UP flag
    ready,     \* the READY signal: {} or the one key it carries
    tx, rx,    \* the two channels
    node,      \* the node task: [at, key, pub, link]
    client,    \* GATT: the client's notification setting: "off", "asks", "on"
    backoff,   \* [failures, wait, denied], the times in ticks from now
    age        \* ticks since this attempt began, saturating

bleVars == <<flavour, host, link, up, ready, tx, rx, node, client, backoff, age>>

Nobody == [at |-> "loop", peer |-> {}, attempt |-> 0, held |-> {}]
NoBackoff == [failures |-> 0, wait |-> 0, denied |-> 0]

----------------------------------------------------------------------------
(* L2capBackoff *)

Least(a, b) == IF a < b THEN a ELSE b

CappedDelay(f) == Least(2^f * BackoffBase, BackoffMax)

\* record_failure; the jitter is a hash of the failure count.
RecordFailure(b) ==
    IF b.failures + 1 >= FailureLimit
    THEN {[NoBackoff EXCEPT !.denied = DenyTicks]}
    ELSE LET d == CappedDelay(b.failures + 1)
         IN  {[b EXCEPT !.failures = b.failures + 1, !.wait = d + j] : j \in 0..(d \div 5)}

BleTick ==
    /\ age' = Least(age + 1, HealthyTicks + 1)
    /\ backoff' = [backoff EXCEPT !.wait = IF @ = 0 THEN 0 ELSE @ - 1,
                                  !.denied = IF @ = 0 THEN 0 ELSE @ - 1]
    /\ UNCHANGED <<flavour, host, link, up, ready, tx, rx, node, client>>

\* The loop sleeps while denied or in backoff, then marks the link down and
\* starts an attempt (do_peripheral).
Advertise ==
    /\ host.at = "loop"
    /\ backoff.denied = 0 /\ backoff.wait = 0
    /\ host' = [Nobody EXCEPT !.at = "advertise"]
    /\ up' = IF flavour = "l2cap" THEN FALSE ELSE up
    /\ age' = 0
    /\ UNCHANGED <<flavour, link, ready, tx, rx, node, client, backoff>>

\* How every attempt ends: the outcome feeds the backoff, the link is marked
\* down and both channels are drained.  The task then settles for at least
\* BLE_DISCONNECT_SETTLE_MS.
AttemptOver ==
    /\ host' = [Nobody EXCEPT !.at = "settle"]
    /\ up' = FALSE /\ tx' = <<>> /\ rx' = <<>>
    /\ client' = "off"
    /\ IF flavour # "l2cap" THEN UNCHANGED backoff
       ELSE IF age > HealthyTicks THEN backoff' = NoBackoff
       ELSE backoff' \in RecordFailure(backoff)
    /\ UNCHANGED <<flavour, link, ready, node, age>>

\* The node polls its transport every RECV_RETRY_DELAY_MS, far more often than
\* the settle time: it has seen the link down before the task goes on.
NodeSawDown == node.at \notin {"session", "sending"}

Settled ==
    /\ host.at = "settle"
    /\ flavour = "l2cap" => NodeSawDown
    /\ host' = Nobody
    /\ UNCHANGED <<flavour, link, up, ready, tx, rx, node, client, backoff, age>>

\* advertise() or one of the two accepts fails, the second also because the
\* central is gone.  (GATT: the loop just goes round.)
AcceptFails ==
    host.at \in {"advertise", "listen"} /\ flavour = "l2cap" /\ AttemptOver

\* A central connects; over GATT that is already the link.  Over L2CAP the host
\* waits for its channel, with no timeout.
BleAccept(p) ==
    /\ host.at = "advertise" /\ link < MaxLinks
    /\ link' = link + 1
    /\ IF flavour = "gatt"
       THEN /\ host' = [host EXCEPT !.at = "relay", !.peer = {p}]
            /\ up' = TRUE /\ ready' = {p}
       ELSE /\ host' = [host EXCEPT !.at = "listen", !.peer = {p}]
            /\ UNCHANGED <<up, ready>>
    /\ client' = "off"
    /\ UNCHANGED <<flavour, tx, rx, node, backoff, age>>

ChannelAccept ==
    /\ host.at = "listen"
    /\ host' = [host EXCEPT !.at = "exchange"]
    /\ UNCHANGED <<flavour, link, up, ready, tx, rx, node, client, backoff, age>>

\* exchange_pubkeys: one of the Attempts tries fails (send, timeout, or a
\* message that is neither dialect).
ExchangeFails ==
    /\ host.at = "exchange"
    /\ IF host.attempt + 1 < Attempts
       THEN /\ host' = [host EXCEPT !.attempt = @ + 1]
            /\ UNCHANGED <<flavour, link, up, ready, tx, rx, node, client, backoff, age>>
       ELSE AttemptOver

\* A plausible slip: the channels are not drained.
ExchangeOkNoDrain ==
    /\ host.at = "exchange"
    /\ IF host.peer \subseteq AllowedKeys
       THEN /\ host' = [host EXCEPT !.at = "accepted"]
            /\ UNCHANGED <<flavour, link, up, ready, tx, rx, node, client, backoff, age>>
       ELSE AttemptOver

\* ... or succeeds: an unknown key is turned away (peer_is_fips); for a known
\* one the channels are drained and the channel settles for 200 ms.
ExchangeOk ==
    /\ host.at = "exchange"
    /\ IF host.peer \subseteq AllowedKeys
       THEN /\ host' = [host EXCEPT !.at = "accepted"]
            /\ tx' = <<>> /\ rx' = <<>>
            /\ UNCHANGED <<flavour, link, up, ready, node, client, backoff, age>>
       ELSE AttemptOver

MarkLinkReady ==
    /\ host.at = "accepted"
    /\ up' = TRUE /\ ready' = host.peer
    /\ host' = [host EXCEPT !.at = "relay"]
    /\ UNCHANGED <<flavour, link, tx, rx, node, client, backoff, age>>

----------------------------------------------------------------------------
(* The relay loop of the host task *)

InRelay == host.at = "relay" /\ host.held = {}

\* The peer's frame: L2CAP drops it when the channel is full, GATT waits with
\* the frame in hand.
PeerFrame ==
    /\ InRelay
    /\ IF Len(rx) < RxCap
       THEN rx' = Append(rx, link) /\ UNCHANGED host
       ELSE /\ UNCHANGED rx
            /\ host' = [host EXCEPT !.held = IF flavour = "gatt" THEN {"rx"} ELSE {}]
    /\ UNCHANGED <<flavour, link, up, ready, tx, node, client, backoff, age>>

HeldFrameIn ==
    /\ host.held = {"rx"} /\ Len(rx) < RxCap
    /\ rx' = Append(rx, link)
    /\ host' = [host EXCEPT !.held = {}]
    /\ UNCHANGED <<flavour, link, up, ready, tx, node, client, backoff, age>>

\* A frame of the node goes out.  Over GATT the host awaits notify() with the
\* frame in hand.
TakeTx ==
    /\ InRelay /\ tx # <<>>
    /\ tx' = Tail(tx)
    /\ host' = [host EXCEPT !.held = IF flavour = "gatt" THEN {"notify"} ELSE {}]
    /\ UNCHANGED <<flavour, link, up, ready, rx, node, client, backoff, age>>

\* notify() delivers to a client that enabled notifications.  To one that has
\* not, it fails: BLE_NOTIFICATIONS_ENABLED, which nothing ever sets, is false,
\* so the frame goes back to the end of the channel once there is room.
NotifyDone ==
    /\ host.held = {"notify"}
    /\ host' = [host EXCEPT !.held = IF client = "on" THEN {} ELSE {"again"}]
    /\ UNCHANGED <<flavour, link, up, ready, tx, rx, node, client, backoff, age>>

NotifyAgain ==
    /\ host.held = {"again"} /\ Len(tx) < TxCap
    /\ tx' = Append(tx, link)
    /\ host' = [host EXCEPT !.held = {}]
    /\ UNCHANGED <<flavour, link, up, ready, rx, node, client, backoff, age>>

\* The client asks for notifications (writes the CCCD); the host task answers
\* when it next looks at the connection's events.
ClientAsks ==
    /\ flavour = "gatt" /\ host.at = "relay" /\ client = "off"
    /\ client' = "asks"
    /\ UNCHANGED <<flavour, host, link, up, ready, tx, rx, node, backoff, age>>

ClientServed ==
    /\ InRelay /\ client = "asks"
    /\ client' = "on"
    /\ UNCHANGED <<flavour, host, link, up, ready, tx, rx, node, backoff, age>>

\* The connection is lost, times out, or carries a malformed SDU.  A GATT task
\* that waits with a frame in hand does not see it.
LinkLost == InRelay /\ AttemptOver

----------------------------------------------------------------------------
(* The node task *)

\* What follows wait_ready without an await.  run_l2cap_node builds the node
\* once, with the first key it is told, and gives up without one;
\* run_ble_node has a fixed key.
Enter(n) ==
    IF flavour = "gatt" \/ n.key # {} THEN [n EXCEPT !.at = "session", !.link = link]
    ELSE IF n.pub = {} THEN [n EXCEPT !.at = "gaveup"]
    ELSE [n EXCEPT !.at = "session", !.link = link, !.key = n.pub, !.pub = {}]

\* A plausible slip: the node waits for a signal even when the link is up.
WaitReadyAlways ==
    /\ node.at = "waiting"
    /\ host' = IF host.at = "unborn" THEN Nobody ELSE host
    /\ node' = [node EXCEPT !.at = "blocked", !.pub = {}]
    /\ UNCHANGED <<flavour, link, up, ready, tx, rx, client, backoff, age>>

\* wait_ready: the first call spawns the host task; a link that is up is taken
\* as it is; otherwise the node waits for the signal ...
WaitReady ==
    /\ node.at = "waiting"
    /\ host' = IF host.at = "unborn" THEN Nobody ELSE host
    /\ node' = IF up THEN Enter(node) ELSE [node EXCEPT !.at = "blocked", !.pub = {}]
    /\ UNCHANGED <<flavour, link, up, ready, tx, rx, client, backoff, age>>

\* ... and takes signals until the flag agrees with one.
TakeSignal ==
    /\ node.at = "blocked" /\ ready # {}
    /\ ready' = {}
    /\ LET heard == [node EXCEPT !.pub = ready]
       IN  node' = IF up THEN Enter(heard) ELSE heard
    /\ UNCHANGED <<flavour, host, link, up, tx, rx, client, backoff, age>>

\* Transport::send: refused when the flag is down, else queued, waiting for
\* room if need be.
NodeSend ==
    /\ node.at = "session" /\ up
    /\ node' = [node EXCEPT !.at = "sending"]
    /\ UNCHANGED <<flavour, host, link, up, ready, tx, rx, client, backoff, age>>

NodeQueued ==
    /\ node.at = "sending" /\ Len(tx) < TxCap
    /\ tx' = Append(tx, node.link)
    /\ node' = [node EXCEPT !.at = "session"]
    /\ UNCHANGED <<flavour, host, link, up, ready, rx, client, backoff, age>>

\* L2CAP only: the send times out after L2CAP_SEND_TIMEOUT_SECS.
SendTimesOut ==
    /\ node.at = "sending" /\ flavour = "l2cap" /\ Len(tx) = TxCap
    /\ node' = [node EXCEPT !.at = "waiting"]
    /\ UNCHANGED <<flavour, host, link, up, ready, tx, rx, client, backoff, age>>

NodeReceive ==
    /\ node.at = "session" /\ up /\ rx # <<>>
    /\ rx' = Tail(rx)
    /\ UNCHANGED <<flavour, host, link, up, ready, tx, node, client, backoff, age>>

\* The transport reports the link down, or the node ends the session itself.
NodeLeaves ==
    /\ node.at = "session"
    /\ node' = [node EXCEPT !.at = "waiting"]
    /\ UNCHANGED <<flavour, host, link, up, ready, tx, rx, client, backoff, age>>

----------------------------------------------------------------------------
BleInit ==
    /\ flavour \in Flavours
    /\ host = [Nobody EXCEPT !.at = "unborn"] /\ link = 0
    /\ up = FALSE /\ ready = {} /\ tx = <<>> /\ rx = <<>>
    /\ node = [at |-> "waiting", key |-> {}, pub |-> {}, link |-> 0]
    /\ client = "off" /\ backoff = NoBackoff
    /\ age = 0

HostStep ==
    \/ Advertise \/ AcceptFails \/ Settled \/ (\E p \in BlePeer : BleAccept(p))
    \/ ChannelAccept \/ ExchangeFails \/ ExchangeOk \/ MarkLinkReady
    \/ PeerFrame \/ HeldFrameIn \/ TakeTx \/ NotifyDone \/ NotifyAgain
    \/ ClientServed \/ LinkLost

NodeStep ==
    \/ WaitReady \/ TakeSignal \/ NodeSend \/ NodeQueued
    \/ SendTimesOut \/ NodeReceive \/ NodeLeaves

BleNext == BleTick \/ HostStep \/ ClientAsks \/ NodeStep

BleSpec == BleInit /\ [][BleNext]_bleVars

\* Time passes and both tasks keep running; an exchange ends one way or the other,
\* a node whose link is down notices, and its sessions read what has come.  Nobody
\* has to connect, open a channel, send or disconnect.
HostRuns ==
    \/ Advertise \/ Settled \/ ExchangeFails \/ ExchangeOk \/ MarkLinkReady
    \/ HeldFrameIn \/ TakeTx \/ NotifyDone \/ NotifyAgain \/ ClientServed

NodeRuns == WaitReady \/ TakeSignal \/ NodeQueued \/ (~up /\ NodeLeaves)

BleFairness ==
    /\ WF_bleVars(BleTick) /\ WF_bleVars(HostRuns) /\ WF_bleVars(NodeRuns)
    /\ SF_bleVars(NodeReceive)

BleFair == BleSpec /\ BleFairness

----------------------------------------------------------------------------
(* Properties *)

\* No frame crosses from one connection to the next: what the host relays over
\* L2CAP was queued by a session of this very link, and what the node can
\* still read (over either transport) came in over it.  The two drains and the
\* order of flag, drain and signal in l2cap_host.rs are for this.
FramesBelongToLink ==
    host.at = "relay" =>
        /\ Range(rx) \subseteq {link}
        /\ flavour = "l2cap" => /\ Range(tx) \subseteq {link}
                                /\ node.at \in {"session", "sending"} => node.link = link

\* The key that wait_ready hands over is the key of the connection that is up:
\* a signal left over from a lost connection is never believed.
TakesOwnKey ==
    flavour = "l2cap" /\ node.at = "blocked" /\ node'.at = "session" => up /\ ready = host.peer

\* A node whose link is up gets to use it: no wakeup is lost between the flag, the
\* signal and wait_ready, however often either side gives up.  Over L2CAP it is a
\* session of that very link.
NodeFollowsLink ==
    up ~> \/ ~up
          \/ node.at \in {"session", "sending"} /\ (flavour = "l2cap" => node.link = link)

\* GATT: the host, a refused notification in hand, waits for room in the channel
\* that only it empties; or the two tasks wait for each other, the host for room in
\* rx and the node for room in tx.
HostStuck ==
    /\ Len(tx) = TxCap
    /\ \/ host.held = {"again"}
       \/ host.held = {"rx"} /\ Len(rx) = RxCap /\ node.at = "sending"

\* However its attempts end, the host is back to advertising or to its relay loop,
\* again and again, with two exceptions: an L2CAP central that connects and never
\* opens its channel keeps the host for as long as it stays, and a GATT host can
\* get stuck with a frame in hand, where it does not even see the link go.
HostComesBack ==
    \/ []<>(host.at = "advertise" \/ InRelay)
    \/ flavour = "l2cap" /\ <>[](host.at = "listen")
    \/ flavour = "gatt" /\ <>[]HostStuck

\* Nothing of an earlier connection is taken for one of this one: neither a frame
\* nor a key.
NothingOfAnEarlierLink == [][FramesBelongToLink' /\ TakesOwnKey]_bleVars

============================================================================
