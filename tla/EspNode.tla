------------------------------ MODULE EspNode ------------------------------
(***************************************************************************)
(* An ESP32 node from boot to reset: the start-up sequences of run_tasks.rs *)
(* and runner.rs, the event handler that keeps STATS.state and the LED       *)
(* (handler.rs), and the serial console that reports on them (control.rs).  *)
(*                                                                         *)
(* The tasks share one executor: what runs between two awaits is one step.   *)
(* Counters of STATS, the words of the answers and the hardware registers    *)
(* are left out.                                                            *)
(***************************************************************************)
EXTENDS Naturals

CONSTANTS
    Modes,      \* firmware variants: "ble", "l2cap", "wifi", "hybrid", "esp_now"
    VpsNpub,        \* VPS_NPUB
    Found,      \* keys a discovery or a pubkey exchange may yield
    LineBuf,    \* LINE_BUF_SIZE
    LineSizes,  \* lengths of the lines typed
    MaxEpoch    \* bound on session attempts

ASSUME EspAssumption ==
    /\ Modes \subseteq {"ble", "l2cap", "wifi", "hybrid", "esp_now"}
    /\ LineBuf \in Nat \ {0} /\ LineSizes \subseteq Nat \ {0} /\ MaxEpoch \in Nat

VARIABLES
    mode,      \* the firmware
    boot,      \* "start", "wait" (for the transport), "stuck", "running"
    ctl,       \* the cells of control.rs and whether control_task runs
    device,    \* the Node: its peer, phase, epoch and the FSP epoch it was given
    stats,     \* STATS.state
    led,       \* whether the LED is on
    line,      \* line_buf: how many bytes, and from where in the typed line
    typed,     \* the line being typed
    said       \* the last answer

espVars == <<mode, boot, ctl, device, stats, led, line, typed, said>>

nodeVars == <<device, stats, led>>
consoleVars == <<line, typed, said>>

States == <<"boot", "connected", "handshake", "handshake_ok", "steady", "disconnected", "error">>

NoNode == [peer |-> {}, phase |-> "idle", epoch |-> 0]
NoControl == [identity |-> FALSE, transport |-> {}, peer |-> {}, spawned |-> FALSE]

----------------------------------------------------------------------------
(* Start-up *)

\* init_control and set_peer_pub fill a cell once; a second value is ignored.
InitControl(c) ==
    [c EXCEPT !.identity = TRUE, !.transport = IF @ = {} THEN {mode} ELSE @]
SetPeerPub(c, key) == [c EXCEPT !.peer = IF @ = {} THEN {key} ELSE @]
Spawn(c) == [c EXCEPT !.spawned = TRUE]

\* run_node: the node is built for one peer.
RunNode(key) ==
    /\ device' = [NoNode EXCEPT !.peer = {key}]
    /\ boot' = "running"

\* run_ble_node and run_esp_now_node
RunFixed ==
    /\ boot = "start" /\ mode \in {"ble", "esp_now"}
    /\ ctl' = Spawn(SetPeerPub(InitControl(ctl), VpsNpub))
    /\ RunNode(VpsNpub)
    /\ UNCHANGED <<mode, stats, led, consoleVars>>

\* run_l2cap_node starts the console, then awaits the first peer.
RunL2cap ==
    /\ boot = "start" /\ mode = "l2cap"
    /\ ctl' = Spawn(InitControl(ctl))
    /\ boot' = "wait"
    /\ UNCHANGED <<mode, nodeVars, consoleVars>>

L2capReady ==
    /\ boot = "wait" /\ mode = "l2cap"
    /\ \E key \in Found : ctl' = SetPeerPub(ctl, key) /\ RunNode(key)
    /\ UNCHANGED <<mode, stats, led, consoleVars>>

\* run_hybrid_node: the console starts with the transport.
RunHybrid ==
    /\ boot = "start" /\ mode = "hybrid"
    /\ ctl' = InitControl(ctl)
    /\ boot' = "wait"
    /\ UNCHANGED <<mode, nodeVars, consoleVars>>

HybridReady ==
    /\ boot = "wait" /\ mode = "hybrid"
    /\ \E key \in Found \cup {VpsNpub} :
         ctl' = Spawn(SetPeerPub(ctl, key)) /\ RunNode(key)
    /\ UNCHANGED <<mode, stats, led, consoleVars>>

\* run_wifi_node brings the transport up first; without it the LED blinks for ever.
RunWifi ==
    /\ boot = "start" /\ mode = "wifi"
    /\ boot' = "wait"
    /\ UNCHANGED <<mode, ctl, nodeVars, consoleVars>>

EspWifiReady ==
    /\ boot = "wait" /\ mode = "wifi"
    /\ \E key \in Found \cup {VpsNpub} :
         ctl' = Spawn(SetPeerPub(InitControl(ctl), key)) /\ RunNode(key)
    /\ UNCHANGED <<mode, stats, led, consoleVars>>

WifiFails ==
    /\ boot = "wait" /\ mode = "wifi"
    /\ boot' = "stuck" /\ led' = FALSE
    /\ UNCHANGED <<mode, ctl, device, stats, consoleVars>>

Blink ==
    /\ boot = "stuck" /\ led' = ~led
    /\ UNCHANGED <<mode, boot, ctl, device, stats, consoleVars>>

----------------------------------------------------------------------------
(* The node's sessions and SharedEspHandler::on_event *)

\* A plausible slip: an error leaves the LED as it is.
OnEventKeepsLed(e) ==
    /\ stats' = CASE e = "Connected" -> 1 [] e = "Msg1Sent" -> 2 [] e = "HandshakeOk" -> 3
                  [] e = "HeartbeatSent" -> 4 [] e = "HeartbeatRecv" -> stats
                  [] e = "Disconnected" -> 5 [] e = "Error" -> 6
    /\ led' = CASE e \in {"Connected", "Msg1Sent", "HandshakeOk"} -> TRUE
                [] e = "Disconnected" -> FALSE
                [] OTHER -> led

OnEvent(e) ==
    /\ stats' = CASE e = "Connected" -> 1 [] e = "Msg1Sent" -> 2 [] e = "HandshakeOk" -> 3
                  [] e = "HeartbeatSent" -> 4 [] e = "HeartbeatRecv" -> stats
                  [] e = "Disconnected" -> 5 [] e = "Error" -> 6
    /\ led' = CASE e \in {"Connected", "Msg1Sent", "HandshakeOk"} -> TRUE
                [] e \in {"Disconnected", "Error"} -> FALSE
                [] OTHER -> led

\* The session's part between two events: from, the event, to.
Step(from, e, to) ==
    /\ boot = "running" /\ device.phase = from
    /\ device' = [device EXCEPT !.phase = to]
    /\ OnEvent(e)
    /\ UNCHANGED <<mode, boot, ctl, consoleVars>>

\* session(): wait_ready, advance_epoch, the delay before Connected.
StartSession ==
    /\ boot = "running" /\ device.phase = "idle" /\ device.epoch < MaxEpoch
    /\ device' = [device EXCEPT !.phase = "delay", !.epoch = @ + 1]
    /\ UNCHANGED <<mode, boot, ctl, stats, led, consoleVars>>

Connect == Step("delay", "Connected", "connected")
SendMsg1 == Step("connected", "Msg1Sent", "handshake")
FinishHandshake == Step("handshake", "HandshakeOk", "up") \/ Step("connected", "HandshakeOk", "up")
FailHandshake == Step("handshake", "Error", "idle") \/ Step("connected", "Error", "idle")
Heartbeat == Step("up", "HeartbeatSent", "up") \/ Step("up", "HeartbeatRecv", "up")
EndSession == Step("up", "Disconnected", "idle")

----------------------------------------------------------------------------
(* The console *)

Commands == {"show_status", "show_peers", "show_stats", "help", "version", "reset",
             "unknown", "blank", "not_utf8"}

Error(text) == [kind |-> "error", text |-> text]

HandleShowStatus ==
    IF ~ctl.identity THEN Error("control not initialized")
    ELSE [kind |-> "status", state |-> States[stats + 1], transport |-> ctl.transport]

HandleShowPeers ==
    IF ctl.peer = {} THEN Error("no peer connected") ELSE [kind |-> "peers", peer |-> ctl.peer]

\* handle_command: the answer, none for a blank line.
HandleCommand(cmd) ==
    CASE cmd = "show_status" -> {HandleShowStatus}
      [] cmd = "show_peers" -> {HandleShowPeers}
      [] cmd \in {"show_stats", "reset"} -> {[kind |-> "ok"]}
      [] cmd \in {"help", "version"} -> {[kind |-> "text"]}
      [] cmd = "unknown" -> {Error("unknown command")}
      [] cmd = "not_utf8" -> {Error("invalid utf8 command")}
      [] cmd = "blank" -> {}

\* The operator begins a line.
TypeLine ==
    /\ typed.size = 0
    /\ \E cmd \in Commands, n \in LineSizes :
         typed' = [cmd |-> cmd, size |-> n, at |-> 0]
    /\ UNCHANGED <<mode, boot, ctl, nodeVars, line, said>>

\* control_task on a byte of a line: it is appended, or it and the bytes before it
\* are dropped.
ReadByte ==
    /\ ctl.spawned /\ typed.size > 0 /\ typed.at < typed.size
    /\ IF line.len < LineBuf
       THEN /\ line' = [len |-> line.len + 1,
                        from |-> IF line.len = 0 THEN typed.at ELSE line.from]
            /\ UNCHANGED said
       ELSE line' = [len |-> 0, from |-> 0] /\ said' = Error("command too long")
    /\ typed' = [typed EXCEPT !.at = @ + 1]
    /\ UNCHANGED <<mode, boot, ctl, nodeVars>>

\* What the buffer holds at the end of a line: the line, or the rest of one that was
\* too long, which may read like any command.
Held == IF line.from = 0 /\ line.len = typed.size THEN {typed.cmd} ELSE Commands

\* control_task at the end of a line; reset starts everything anew.
ReadNewline(cmd) ==
    /\ ctl.spawned /\ typed.size > 0 /\ typed.at = typed.size
    /\ cmd \in Held
    /\ LET answer == IF line.len = 0 THEN {} ELSE HandleCommand(cmd)
       IN  said' = IF answer = {} THEN said ELSE CHOOSE a \in answer : TRUE
    /\ typed' = [typed EXCEPT !.size = 0, !.at = 0]
    /\ line' = [len |-> 0, from |-> 0]
    /\ IF cmd = "reset" /\ line.len > 0
       THEN boot' = "start" /\ ctl' = NoControl /\ device' = NoNode /\ stats' = 0 /\ led' = FALSE
       ELSE UNCHANGED <<boot, ctl, nodeVars>>
    /\ UNCHANGED mode

----------------------------------------------------------------------------
EspInit ==
    /\ mode \in Modes
    /\ boot = "start" /\ ctl = NoControl /\ device = NoNode
    /\ stats = 0 /\ led = FALSE
    /\ line = [len |-> 0, from |-> 0]
    /\ typed = [cmd |-> "blank", size |-> 0, at |-> 0]
    /\ said = [kind |-> "none"]

EspNext ==
    \/ RunFixed \/ RunL2cap \/ L2capReady \/ RunHybrid \/ HybridReady
    \/ RunWifi \/ EspWifiReady \/ WifiFails \/ Blink
    \/ StartSession \/ Connect \/ SendMsg1 \/ FinishHandshake \/ FailHandshake
    \/ Heartbeat \/ EndSession
    \/ TypeLine \/ ReadByte \/ \E cmd \in Commands : ReadNewline(cmd)

EspSpec == EspInit /\ [][EspNext]_espVars

----------------------------------------------------------------------------
(* Properties *)

\* show_peers names the peer the node was built for, and an answer never says that
\* the console was started before its cells were filled: whatever the variant awaits
\* in between, the first value of a cell is the one the node runs with.
ConsoleTellsTruth ==
    /\ said.kind = "error" => said.text # "control not initialized"
    /\ boot = "running" => ctl.peer = device.peer
    /\ ctl.spawned => ctl.identity /\ ctl.transport = {mode}

\* While the node runs the LED is on exactly in the states between Connected and the
\* end of the session, and STATS.state says handshake_ok or steady exactly while the
\* session is up: no order of events leaves one of them behind.
LedFollowsSession ==
    boot = "running" =>
        /\ led <=> stats \in 1..4
        /\ stats \in {3, 4} <=> device.phase = "up"

\* A line that fits the buffer runs as it was typed, also right after one that did
\* not fit: nothing of an earlier line is left in the buffer.
LinesRunWhole ==
    ctl.spawned /\ typed.size > 0 /\ typed.size <= LineBuf =>
        line.len = typed.at /\ line.from = 0

\* What the node shows is how things are: its LED and STATS follow the session, its
\* console tells the truth and runs what was typed.
NodeShowsItsState == LedFollowsSession /\ ConsoleTellsTruth /\ LinesRunWhole

=============================================================================
