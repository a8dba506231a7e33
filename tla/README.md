# microfips in TLA+

A TLA+ model of [microfips](../src/README.md), the `no_std` Rust leaf node of the
FIPS mesh: modules for the parts whose correctness depends on the order of
events, TLC configurations that check them on small instances, and TLAPS proofs
of the properties that matter most. Definitions keep the names of the Rust code,
and `PROJECT.json` gives the source lines of each one.

## The system

A node talks to one peer (normally the FIPS daemon) through a stack of layers:

| layer | code | role |
|---|---|---|
| transport | `microfips-protocol/src/transport.rs`, `microfips-esp-transport/*` | UDP, serial, BLE/L2CAP, ESP-NOW, hybrid WiFi/ESP-NOW |
| framing | `node.rs` (`recv_frame`, `extract_*`), `framing.rs` | raw datagrams or 2-byte length prefixes |
| FMP link | `node.rs`, `fips-fmp`, `fips-noise` | Noise IK or XX handshake, established frames, key epochs and rekey, heartbeats, link-death watchdog |
| policy | `peer_policy.rs`, `Node::run` | reconnect backoff, frame-rate, bad-frame and silent-peer limits |
| FSP session | `microfips-core/src/fsp.rs`, `fsp_handler.rs` | end-to-end Noise XK/XX session in link datagrams |
| metrics | `mmp/*` | loss, jitter and RTT from sender and receiver reports |
| applications | `microfips-service`, `microfips-http-demo`, `ipv6_shim.rs` | request router, HTTP adapter, ICMPv6 echo |
| node | `run_tasks.rs`, `runner.rs`, `handler.rs`, `control.rs` | start-up, event handler, LED, serial console |
| relays | `relay_ap.rs`, `dhcp_server.rs`, `mdns*.rs`, `espnow_*gateway.rs` | access point and gateways that forward FMP frames |
| host | `tools/*.py`, `microfips-link`, `microfips-http-test`, `microfips-sim` | bridges between serial, TCP, BLE and UDP; probes |

One task runs `Node::run`: it asks the policy, then `session()` = `wait_ready`,
`handshake()`, `steady()`. `steady()` is a loop over
`select(transport.recv, Timer::at(deadline))`; everything it keeps (the three
epoch slots `cur`, `pend`, `prev`, the rekey in flight, the answer cache) is a
local variable, gone when it returns. The components of `PROJECT.json` list
every part, with the reason where a part is not modelled; its hazards list where
the order of events bites, with the properties that would notice.

## Modules

One module per component; its proofs, where it has any, are in the module named
`...Proofs`, which extends it.

| module | models |
|---|---|
| `AntiReplay` | what an anti-replay window promises: a counter is accepted once and never from below the window |
| `ReplayWindow` (proofs) | `fips-noise/src/replay.rs` with the bitmap as a set of bits; refines `AntiReplay` |
| `ReplayBitmap` | the same with the array of machine words, the word shift and the carrying bit shift; refines `ReplayWindow` |
| `NoiseHandshake` | `fips-noise/src/lib.rs`: every reader and writer of IK, XK and XX, driven as `node.rs` and `fsp.rs` drive them |
| `FmpLink` (proofs) | `session`, `handshake_ik`, `handshake_xx` and `steady` for two nodes and the transport between them |
| `FspLink` (proofs) | `FspDualHandler` with `FspSession` and `FspInitiatorSession` on two nodes and the mesh between them |
| `WireCodec` | builders and parsers of FMP, FSP, the negotiation block and the IPv6 shim, byte for byte |
| `Framing` | `recv_frame`, `FrameReader`, the buffer of `steady()`, both framings |
| `PeerPolicy` (proofs) | `peer_policy.rs` with `Node::run` and the counters of `steady()` |
| `MmpLink` | sender and receiver reports, loss, bursts, freshness, round-trip samples, the reset at a rekey |
| `MmpEstimators` (proofs) | the shift arithmetic of SRTT, jitter and report intervals |
| `LinkDispatch` | link messages, the throughput test, the buffers an answer passes |
| `ServiceLayer` | request decoding, routing, the demo routes over FSP and over HTTP |
| `EspNode` | start-up of each transport variant, event handler and LED, console |
| `LeafTransport` | ESP-NOW, WiFi and hybrid transports of a leaf and the world they meet |
| `EspNowGateway` (proofs) | fragmentation, sticky slot and both directions of both gateways |
| `GatewayUplink` | association, search and supervision of the WiFi gateway |
| `RelayAp` (proofs) | uplink task, slot table, forwarding, peer mode of the relay access point |
| `DhcpServer` (proofs) | its DHCP server, against clients over a network that loses and delays |
| `BleLink` | GATT and L2CAP hosts, their queues and signals to the node, backoff |
| `Mdns` | discovery and responder |
| `SerialBridge`, `TcpPipeline`, `BleUdpBridge` | `serial_udp_bridge.py`; `serial_tcp_proxy.py` with `fips_bridge.py`; `ble_udp_bridge.py` |
| `ProbeTools` | `microfips-link`, `microfips-http-test`, `microfips-sim --test-http` |

### Checking components together

`MCLink`, `MCNode`, `MCRadio` and `MCServices` check components that do not share
state as alternatives. Each extends its components and adds one variable, `part`,
chosen at the start (`MCNode` extends `MCRadio`, which states fairness for the radio
components, and adds those of the node): a behaviour runs the component that `part` names, and the
others rest in one initial state. The reachable states are the union of those of
the components, so an invariant of one is checked over all its states, and the
next-state relation of every component is used unchanged. Fairness is restated
there for the component that runs: `part` never changes, so weak fairness of "the
step of the part that runs" is weak fairness of that step. A liveness property
that would be false of a component at rest is guarded by `part`.

### ReplayWindow and ReplayBitmap

`highest` and the bitmap are the fields of the struct; `accepted` is a history
variable. `Accept(c)` is what `decrypt_established_frame` does: `check`, then
`accept`. Counter differences are narrowed with `as usize` in the code, so the
width of `usize` is the constant `UsizeRange`. `ReplayBitmap` models
`shift_bitmap` loop by loop and maps its words to the set of bits.

### FmpLink

`node[n]` is one record per end: the phase, the locals of `handshake()` and
`steady()`, and two sets that only grow: `sent`, everything the end has put on
the wire, and `got`, the established frames it accepted.

* **Keys.** An epoch is the pair of ephemerals of its handshake, an ephemeral is
  a node and a number; a Noise read succeeds exactly on the message that
  continues the handshake, an AEAD open exactly on a frame sealed by the other
  role of the same epoch. A session index travels with each ephemeral, so the
  comparison of `receiver_idx` is the comparison of ephemerals.
* **Negotiation.** The XX handshake appends an encrypted negotiation block to
  msg2 and msg3, a rekey does not, and the reads in `steady()` insist on the bare
  length. The field `neg` keeps the difference.
* **Transport.** A frame in `sent` may be received any number of times, in any
  order, or never: loss, duplication, reordering and delay. Frames dropped by the
  frame-rate policy or by the limit on fresh rekey answers are lost frames.
* **Time.** A deadline that may have passed is a choice: `Tick(n, rekeyDue,
  resendDue, drainDue)` is one pass of the timer branch in the order of the code
  (self cutover, trigger, resend ladder, drain, sends). `DampeningEnds` and
  `Silence` are the passage of `REKEY_DAMPENING_SECS` and of the link-death
  timeout.
* **Sends.** Heartbeats, reports, datagrams and answers are sealed by `Transmit`
  under `cur`; a step makes none or one of them.
* **Ends of a session.** Peer disconnect, handler disconnect, link death, policy
  limits and transport errors all lead to `EndSession`, which forgets the locals,
  and `StartSession` may follow; a restart of the device is the same with a later
  ephemeral.

| action | code |
|---|---|
| `Wait`, `StartSession` | `run`, `session`, entry of `handshake_*` |
| `HandshakeMsg1/Msg2/Msg3/Other/Timeout/Error` | the receive loop of `handshake_ik` / `handshake_xx` |
| `RekeyMsg1/Msg2/Msg3` | the handshake arms of `steady()`'s receive branch |
| `Established` | trial-decrypt cascade, cutover on proof, dispatch |
| `TimerFires` | the timer branch |
| `LinkDead`, `PolicyOrTransportError` | the exits of `steady()` |

### FspLink

`node[n]` is one handler: the responder session, the initiator (present in
handlers made by `new_dual`, until a link event drops it), the timer, the cached
setup, and a history set (`done`, the sessions the initiator completed). `chan[n]` is the sequence of
session datagrams on their way to `n`.

* **Keys.** A handler draws one initiator and one responder ephemeral per boot,
  named by the node and the boot. A session is the pair of the two. A SessionAck
  opens for the initiator ephemeral it answers, msg3 and data for the pair.
  `read_message2` mixes an ack into the Noise state before it opens it, so an ack
  that does not open leaves the initiator `spoiled`.
* **Link.** `LinkUp`, `LinkFail` and `LinkDown` are the events `HandshakeOk`,
  `Error` and `Disconnected` of `Node::session`; datagrams and ticks reach the
  handler only in between.
* **Dispatch.** `on_message` offers a datagram to the responder, then to the
  initiator; setup and msg3 concern only the first, acks only the second, and
  data is one of `AppReplies`, `AppDisconnects`, `ReceivePong`,
  `ReceiveQuietData`.
* **Ticks.** One action per state of the initiator (`TickIdle`,
  `TickAwaitingAck`, `TickEstablished`).
* **Mesh.** It may lose the types in `Losable` and reorder if `Reorder`; it does
  not duplicate. `send_counter`, the epoch and payloads are left out.

### The other modules

* **NoiseHandshake.** Keys are terms: a Diffie-Hellman result is the set of the two
  secrets, the chaining key the sequence of results, the hash the sequence of
  items. Each method is the sequence of its steps (`Put`, `Take`, `Mix`, `Seal`,
  `Open`), the two ends of a pattern written down separately. A step that fails
  leaves behind what the earlier ones changed, as the code does. Static keys have a
  parity, so that a missing `parity_normalize` shows. The link layer draws a responder
  ephemeral for each answer, the session layer one per boot. Starts, answers, boots
  and unread messages are bounded; late messages of other attempts arrive at any time,
  and a negotiation block may arrive as one that does not open.
* **WireCodec.** One behaviour builds one message, which may be cut or padded; the
  properties ask every parser about the bytes. Sizes and layouts are the real ones,
  values are those at boundaries (both bytes of a length, every carry of the
  checksum). The AEAD adds its tag and removes it.
* **Framing.** Four readers over one stream or over datagrams, with headers that no
  frame has (zero or too large) in between. `bad` counts these headers and `lost` says
  what an overflow threw away, the chunk and any unread backlog; `FramesInOrder` says
  of `FrameReader` when that can happen.
* **PeerPolicy.** Instants are ages. The code compares milliseconds in one place and
  whole seconds in another, so time has ticks and seconds. `misses`, `tried` and
  `passed` are history variables.
* **MmpLink, MmpEstimators.** One direction of data; each end resets at its own
  cutover. Milliseconds are clock ticks, the wire fields have the width given by
  `ByteBase` and `WordMod`. Both report layouts are modelled: the slim one of XX, and
  that of IK, which arrives with its type byte twice (`OnWire`). A frame of the
  previous epoch may be recorded after the reset: `NoPhantomLoss` counts the frames
  that were sent and did not come, and apart from them the numbers that such a frame
  alone makes look lost (`Unsent`). `FreshReportsAccepted` names the fresh report that
  is taken for a stale one (`Straddles`).
* **LinkDispatch, ServiceLayer.** Messages and bodies are known by their sizes, which
  are the real ones, since what is lost is decided by buffers of 320, 512 and 256
  bytes.
* **EspNode.** What runs between two awaits is one action. The console reads the cells
  that start-up fills.
* **LeafTransport.** `radio` is the channel the radio is on, `esp.channel` the one the
  transport believes in. What the radio hears waits in a receive queue, across hops and
  associations, until `recv` takes it; `esp.late` marks a lock made by a frame that
  waited. A search may go unanswered. Access point, daemon and gateways change at any
  time, at most `MaxChanges` times; a reset keeps the retained channel or clears it.
* **EspNowGateway.** A chunk carries the number of its frame, which no receiver reads.
  Fewer than `IdMod` (256) frames in a row lose their first fragment: with more
  losses the one-byte id comes round and two frames could be joined.
* **RelayAp, DhcpServer.** A search of the uplink task ends with the LAN daemon
  (`FoundOnLan`), with the VPS when nobody answers and DNS does (`FellBack`), or with
  neither (`NotFound`), whether or not a daemon is there. A slot of the relay may be
  given away once idle for `SLOT_IDLE_SECS`. The daemon stops sending to a silent
  station after its own timeout and datagrams live `MaxTransit`; `RelayAssumption` says
  that the three constants leave room. DHCP clients are external: they discover,
  request, renew, release, reboot with and without memory, and use an address no longer
  than they were told.
* **BleLink.** A frame is the number of the link it was queued for. An L2CAP host
  accepts a connection and then waits for its channel (`listen`); a GATT host holds a
  frame while it waits for room or for a notification. The BLE stack is external.
* **Host tools.** The actions are what a thread does between two points where another
  one can run: reading a shared attribute, a lock, a system call, an await.

## Runs

| run | instance | shows |
|---|---|---|
| `fmp_link_xx` | XX, both ends initiate and rekey, 3 ephemerals and 1 frame per epoch each | nonces fresh, no replay, distinct epochs in the slots |
| `fmp_link_follow` | IK, one end rekeys, the other follows | both settle on one epoch, cutover only on proof, every rekey cycle ends |
| `fsp_link` | one initiator, reordering, one restart and two link sessions per node, every answer of the application | a responder is established only in a session its initiator completed; no ack spoils a handler that has not restarted |
| `fsp_link_settle` | both ends initiate, in order, up to two setups or acks lost, links stay up | a resent setup never costs a session that is up; every session comes up and stays up |
| `link_parts` | `MCLink`: `WireCodec`, `Framing`, `NoiseHandshake`, `ReplayBitmap`, `PeerPolicy` | `ReadAsBuilt` and `NegotiationIsRead` (codecs), `FramesInOrder` and `NoFrameStarves` (framing), `HandshakesMeet` and `NonceOnce` (Noise), `WordsImplementWindow` (refinement), `ReconnectSpacing` and `PolicyRetries` |
| `node_parts` | `MCNode`: `MmpLink`, `MmpEstimators`, `LinkDispatch`, `ServiceLayer`, `EspNode`, `ReplayWindow`, and the radio components `LeafTransport`, `RelayAp`, `DhcpServer`, `EspNowGateway`, `GatewayUplink`, `BleLink` | `MetricsAreReal`, `ReportsAreUsedRight`, `LinkAnswersAreRight`, `RequestsAreServed`, `NodeShowsItsState`, `AcceptsAsPromised` (refinement); `PathIsUsable`, `RepliesStayHome`, `AddressesUnique`, `FramesWhole`, `NothingOfAnEarlierLink` |
| `radio_liveness` | `MCRadio`: the radio components, smaller, under fairness | `LeafGetsThrough`, `RelayFollowsDaemon`, `GatewayServes`, `BleLinksComeBack` |
| `host_parts` | `MCServices`: `Mdns`, `SerialBridge`, `TcpPipeline`, `BleUdpBridge`, `ProbeTools` | `DiscoveryIsRight`, `OneHandle`, `BytesKeepOrder`, `SessionsStayApart`, `SuccessIsShared`, and `HostToolsGoOn` (liveness) |
| `fmp_link_dual_init`, `fmp_link_stale_pend_self`, `fsp_link_timer`, `mmp_link_ik` | both ends rekey; both ends rekey; one initiator, two link sessions; the IK report layout | **violated**: see findings |

A property such as `RequestsAreServed` is a conjunction; each conjunct is a
definition of its own with its own comment, next to it in the module.

**Bounds.** Every bound is a named constant.

* *Replay.* A counter must jump past the window and another fall behind it: three
  windows of counters give both, and three words of three bits give shifts of whole
  words, of bits, and of both.
* *Link.* `MaxEph` bounds the ephemerals a node draws and `MaxCtr` the frames it
  seals per epoch. Three ephemerals are a session, a rekey and an answer to a rekey,
  or a reconnect with a rekey; the findings need four, so that both ends complete
  one. One frame per epoch is enough for a frame to prove an epoch, be duplicated
  and arrive late.
* *Session.* `MaxFlight` lets a resent setup, an ack and a msg3 of one exchange
  overtake each other; one restart gives messages of an earlier boot, two link
  sessions a reconnect.
* *Noise.* Three starts and three answers are a handshake with a late message of
  another attempt on either side; two unread messages spoil a machine twice; a second
  boot gives messages of an earlier one.
* *Framing.* A buffer that holds one frame and a chunk, three frames, chunks smaller
  than a frame and as large: prefixes split between chunks, several frames in one,
  and headers of zero and of more than a buffer, enough of them to fill it.
* *Policy.* Budgets of five attempts and four failures, a reset window longer than
  the longest backoff, ages saturating above every limit they are compared with.
* *MMP.* Three data frames, two reports in flight, one rekey: a gap, a late frame
  and a burst that spans a report or the rekey.
* *Services.* Response buffers and bodies at the sizes where the next limit begins.
* *Radio.* Three channels of which two have a gateway and none is the access
  point's (in the liveness run one gateway, and its channel is not where the leaf
  starts); two stations and two slots; two DHCP clients for two addresses; an id of
  two values; two BLE links. `MaxChanges`, `MaxMoves` and `MaxFlaps` bound how often
  the world changes and leave a suffix in which it does not, which liveness is about.
* *Host.* Two threads each, as in the programs; timeouts keep the order of the
  code's (a join longer than the receive it waits for, a pause longer than the
  socket's timeout), which is what the properties rest on.

The theorems carry the properties they name to every value of these constants.

**Deadlock** is checked everywhere but in the FSP runs: a handler without an
initiator really is silent until the other end speaks. In the `MC` modules the
parts that come to an end (a message that was built, a program that exits) stutter
explicitly.

**Fairness** is weak fairness of steps the programs take by themselves, stated in
each module, unless noted.

* *FmpLink.* The timer branch keeps being taken, with a resend or a trigger that
  stays due, and the dampening window passes. `steady()` sleeps no longer than the
  next heartbeat, so the branch is reached whenever the receive branch is not ready
  each time the select polls. Nothing is assumed of the transport.
* *FspLink.* `run()` brings the link up again, an armed timer fires, what is in
  flight is delivered unless it is lost, at most `MaxLoss` times.
* *Framing.* The reader runs, and a transport with something to deliver does not
  lose the race against the Timer for ever (strong: each timeout disables it).
* *PeerPolicy.* Time passes and `Node::run` goes on.
* *LeafTransport.* The node loop runs; a session over a path that carries nothing
  ends (link-death watchdog). Strong: an answer comes in time for the leaf that waits
  for it (`HearInTime`), a session with a locked gateway outlives the probe interval,
  and a search of a daemon that is there is answered (`Finds`), each again and again
  and not every time.
* *RelayAp.* Tasks run, time passes, the daemon comes back, a session that hears
  nothing ends. Strong: a search of a daemon that is there is answered again and again
  (`Locates`).
* *EspNowGateway, GatewayUplink.* Time passes, the tasks' loops go on, an access point
  that is up grants a lease.
* *BleLink.* Time passes, both tasks go on, an exchange ends (its receive has a
  timeout), and the node's session reads what has come (strong: receive alternates
  with its other work). Nothing is assumed of the central: it need not connect, open
  its channel, send or disconnect.
* *Host.* Threads and event loops run; a lock that is free again and again is
  granted (strong, `Reconnect` of `SerialBridge`); a peer handles what it is sent.

## Findings

Four runs record where the code and its comments or tests disagree;
`PROJECT.json` quotes the lines.

1. *Dual initiation* (`fmp_link_dual_init`). The dampening reacts to a peer msg1
   that has arrived. When both ends trigger before that, both rekeys complete and
   the ends settle on different epochs until the watchdog or the bad-frame limit
   ends the session.
2. *Stale `pend_self`* (`fmp_link_stale_pend_self`). The flag outlives the pending
   epoch it was set for, and the timer then promotes an epoch of the peer without
   its proof.
3. *No initiator after a reconnect* (`fsp_link_timer`). `Disconnected` and `Error`
   drop the initiator, which only the constructor creates. After the first link
   session that fails or ends, a dual-mode handler initiates nothing more.
4. *Receiver reports of the IK build* (`mmp_link_ik`). The encoding begins with the
   message type and `send_link_message` writes the type again, so the peer reads every
   field one byte early. The loss ratio survives, since both counts are scaled alike;
   the echoed timestamp and the dwell time, and so the round-trip samples, do not.
   `RttMeasured` speaks of the XX layout.

Seen while modelling. The models have the behaviour; where a property meets it, the
property names it as an exception and says what still holds.

*Framing and handshakes*

* `transport.rs:88`: `FrameReader` does not compact its buffer while it skips headers,
  so the bytes of skipped headers stay in it until the next chunk does not fit and is
  discarded (`:125`), although `:90` says that valid frames after a bad header must
  still decode. `steady()` may lose a backlog with the chunk (`node.rs:1157`).
  `FramesInOrder` says that `FrameReader` loses nothing without such headers and never
  bytes it has not looked at; the frames come in order, and under `NoFrameStarves` all
  of them, as long as nothing was lost.
* `fsp.rs:1011` ignores a negotiation block that does not open, and `:1006` says that
  its nonce is consumed. `decrypt_payload` returns before it counts (`fips-noise`
  `lib.rs:1304`): the initiator's msg3 is sealed one nonce early, no responder opens
  it, and the nonce is the one the block was sealed under. `Message3Opens` and
  `NonceOnce` name the case and say that nothing else leads there.

*Reports and answers*

* `node.rs:1514`: a late frame of the previous epoch is recorded by the receiver that
  the cutover just reset, and its high counter makes the receiver count as lost the
  numbers the new epoch has not reached.
* `metrics.rs:158`: a report that the peer built before its own cutover, processed
  after ours, is the baseline of the new epoch, and later reports with lower counters
  look stale until they pass it.
* `node.rs:1893`: answers of more than 219 bytes, echo responses among them, pass
  `resp_buf` and are dropped by the 256-byte frame buffer with their counter used.

*Radio*

* `esp_now_transport.rs:268`: a frame heard before a hop is read after it, and locks the
  leaf on the channel it hopped to; the channel that is retained (`:166`) is also that
  one. `PathIsUsable` says that nothing but such a frame leads there.
* `hybrid_transport.rs:162`: a hybrid leaf that entered ESP-NOW probes WiFi only from a
  session with a gateway. Without one it does not come back to WiFi, although `:180`,
  `:227` and `config.rs:226` say that it will. `FollowsLanDaemon` names the case.
* `hybrid_transport.rs:346`: association and address are all a WiFi attempt needs, so a
  leaf stays on WiFi while the access point is up, with its daemon gone and a gateway
  in reach, although `:1` says "when the AP and daemon are reachable". It also stays there
  when its reconnects are `HEALTHY_SESSION_SECS` apart, which resets the count of
  failures each time (`:340`). `ReachesGateway` names both.
* `relay_ap.rs:468`: a search that nobody answers overwrites the LAN daemon by the VPS
  for the ten minutes to the next search. `FollowsDaemon` says that the relay returns
  to the daemon again and again, knows no other endpoint, and settles once searches
  are answered.
* `l2cap_host.rs:970`: the wait for the central's channel has no timeout; a central that
  connects and opens none keeps the host from everybody else.
* `ble_host.rs:291`: a refused notification is put back into a queue that may be full,
  and which only this task empties; at `:268` the host waits for the node while the node
  may wait for the host. Neither wait ends with the link. `HostComesBack` names these
  two and the one above.
* `run_tasks.rs:80`: an L2CAP node takes the key of the first link for all later ones;
  `NothingOfAnEarlierLink` is about frames, and about the key the transport reports.
* `esp_now_transport.rs:150`: the remembered start sets `unlocked_sends` to a value
  above `SENDS_PER_CHANNEL`, so the leaf leaves the retained channel after one
  broadcast.
* `espnow_wifi_gateway.rs:186`: between joining and relaying nothing re-associates
  the station; `GatewayRejoins` speaks of a gateway that relays.

*Elsewhere*

* `replay.rs:46` narrows a counter difference with `as usize`: where `usize` has 32
  bits, a counter 2^32 or more below `highest` looks recent. The proofs about
  `check` assume `WideUsize`.
* `node.rs:1321`: a foreign msg2, or one that fails to read, refreshes `last_rx`.
* `node.rs:1683`: a responder-armed `pend` has no timeout and keeps the node's own
  rekey trigger off.
* `serial_tcp_proxy.py:172`: two threads may flush at once and send bytes twice
  (`pxRaced`; `RelayKeepsOrder` speaks of the other runs). `tcp_conn` may become `None`
  between the check and `sendall`, which ends the reader thread or the process, and a
  send that fails late forgets the connection that came after it.
* `serial_udp_bridge.py:333`: the joins wait five seconds, so the port may be closed
  under a thread that still runs.
* `microfips-http-test/src/main.rs:201`: each heartbeat of the board restarts the
  15-second wait; `ProbeEnds` speaks of a board that falls silent.
* `control.rs:355`: the rest of a line that was too long is run as a command.

## Proofs

All proofs are checked by TLAPS with Z3, Zenon and LS4 and hold for every value of
the constants that satisfies the named assumptions. In each module one inductive
invariant is established by a lemma per action, and the theorems follow from it.

* `ReplayWindowProofs` (`SizesAssumption`): `WindowInvariant` (the bitmap tells
  exactly what was accepted in the window; inductive together with the types),
  `CheckIsThePromise`, `WindowImplementsAntiReplay` (a refinement; these two assume
  `WideUsize`).
* `FmpLinkProofs` (`LinkAssumption`): `LinkInvariant` proves `LinkOK`. For each node
  it says that every ephemeral in use was drawn (`Drawn`), that an epoch held in a
  slot contains an ephemeral of this node which no other slot, no pending handshake
  and no rekey in flight shares (`Unused`, `SlotInv`), that every frame sent under a
  live epoch has a counter below the slot's (`SentInv`), and that what was accepted
  under a live epoch is in that slot's window. None of `NonceFresh`, `NoReplay` and
  `OneSlotPerEpoch` is inductive alone: a rekey that completes has to know that its
  ephemeral has never keyed an epoch before. `LinkTypes`, `NoncesNeverReused`,
  `FramesOpenOnce` and `SlotsHoldDistinctEpochs` follow.
* `FspLinkProofs` (`FspAssumption`): `ResponderFollowsInitiatorAlways`,
  `OneSessionPerEphemeralAlways` and `FspTypes`, from `FspInv`. It adds that a msg3
  in flight is one its initiator completed (`MessageInv`), that a completed session
  has an ephemeral of this node from this or an earlier boot, and that the ephemeral
  of an initiator that is not yet established is in no completed session
  (`NodeInv`): without these a late msg3, or a second ack after a restart, could not
  be excluded.
* `MmpEstimatorsProofs`: `EstimatesBounded`. The truncated average
  `v - v \div k + m \div k` of two values within a bound stays within it, for SRTT,
  RTTVAR and the scaled jitter, so the three properties with the types (`EstInv`) are
  inductive as they stand.
* `DhcpServerProofs`: `LeaseTableTyped`, `LeasesCoverClients`, `NoAddressTwice`. The
  invariant `DhcpInv` says of each client that the address it uses, or will use on
  an ACK that is on its way, is leased to it for at least as long as it counts on it
  (`HolderOK`, `AckOK`), that no RELEASE follows while it uses one, and that only its
  last message is answered (`QueueOK`). Two clients with one address would need two
  leases on it.
* `PeerPolicyProofs`: `BudgetHolds`, `BadFramesBounded`, `AttemptsSpaced`,
  `RateDropsIsolated`, from `PolInv`, which ties the policy's counters to the
  histories of failures, of the last attempt and of frames since the last drop
  (`BudgetOK`, `SpacingOK`, `RateOK`).
* `EspNowGatewayProofs`: `OwnersAgree`, `HandsOnWholeFrames`, `OneDestination`, from
  `GwInv`. The key fact (`PartialOK`) is that while the reassembler holds a partial
  frame, its sender has moved on by no more frames than first fragments were lost
  since, which is fewer than there are ids: the id tells the frames apart.
* `RelayApProofs` (`RelayAssumption`: the daemon's timeout and the transit time fit
  into `SLOT_IDLE_SECS`): `SlotsAreDistinct`, `RepliesReachTheirStation`, from
  `SlotInv`. `FlowsHome` and `RepliesHome` bound the age of what the daemon still
  sends to a slot by the idle time of its station.

Only model-checked: liveness, which is outside the prover's reach; `SettledAgree`
and `ProofBeforeCutover` (for one rekeying end), `FirstBootAcksOpen` (for one
restart), `SetupRetryIsHarmless`; the word array of `ReplayBitmap`; and
the codecs, framing, Noise, MMP reports, dispatch, services, console, leaf
transport, uplink, BLE, mDNS and host tools. Only proved, since the theorem says it
for every instance: `WindowInv`, `CheckAgrees`, `OneSessionPerEphemeral`,
`FailureBudget`, `BadFramesEndSession`, `DropsAreIsolated`, `LeaseCoversClient`,
`OneOwner`, `FrameStaysTogether`, `OneSlotPerStation` and the type invariants.

## Not modelled

* *Cryptography* is ideal: Diffie-Hellman, HKDF, hashes and the AEAD are terms.
* *Identity* (key derivation, bech32), the DNS resolver and the capture decoder are
  stateless conversions with test vectors.
* *Firmware mains*, peripheral set-up, the STM32 drivers, build scripts and the
  ESP8266 serial bridge are input/output without shared state; the BLE stack, the
  WiFi driver and the executor are external and appear as their effects.
* *Vendored* upstream sources and the crates that hold only tests.
* *Wording, logging and statistics*; of MMP, ETX, goodput and the one-way-delay
  trend, on which nothing acts; of FSP, `send_counter` and duplication by the mesh;
  of BLE, the rate limiter and the scan; of DHCP, a restart of the server and the
  truncation of its clock to seconds; of the ESP-NOW gateway, a leaf whose reset starts
  its message ids over.
