--------------------------- MODULE LeafTransport ---------------------------
(***************************************************************************)
(* The radio transports of an ESP32 leaf: EspNowTransport                  *)
(* (esp_now_transport.rs), WifiTransport (wifi_transport.rs) and           *)
(* HybridTransport (hybrid_transport.rs), which owns one of each and picks *)
(* the path at session boundaries.  One leaf, built with one of them, is   *)
(* modelled with the node's calls (wait_ready, send, recv) and the world   *)
(* it meets: an access point, a daemon that may move or vanish, and        *)
(* ESP-NOW gateways, each on the channel of its own access point.          *)
(*                                                                         *)
(* The radio's channel is a variable of its own: the transport's `channel` *)
(* field is only what the code believes, and associating moves the radio.  *)
(***************************************************************************)
EXTENDS Naturals, FiniteSets

CONSTANTS
    Kinds,           \* transports to build: "espnow", "hybrid", "wifi"
    Gateway,         \* MACs of the ESP-NOW gateways
    GwChannel,       \* the channel each gateway listens on
    ApChannel,       \* the channel of the leaf's own access point
    ConfigChannel,   \* ESP_NOW_CHANNEL
    KnobSet,         \* ESP_NOW_CHANNEL_KNOB_SET
    MaxChannel,      \* SWEEP_MAX_CHANNEL
    SendsPerChannel, \* SENDS_PER_CHANNEL
    U8Max,           \* u8::MAX
    PeerTable,       \* entries of the radio's peer table
    Fallback,        \* WIFI_FAILURES_BEFORE_FALLBACK
    MaxWifiRetries,  \* MAX_WIFI_RETRIES of build_wifi_transport
    HandshakeSends,  \* broadcasts of one handshake attempt of the node
    Endpoint,        \* UDP endpoints
    Vps,             \* the endpoint VPS_HOST resolves to
    MaxChanges       \* bound: changes of the world and resets in a behaviour

ASSUME LeafAssumption ==
    /\ Kinds \subseteq {"espnow", "hybrid", "wifi"}
    /\ GwChannel \in [Gateway -> 1..MaxChannel]
    /\ ApChannel \in 1..MaxChannel /\ ConfigChannel \in 1..MaxChannel
    /\ {SendsPerChannel, PeerTable, Fallback, MaxWifiRetries, HandshakeSends}
         \subseteq Nat \ {0}
    /\ SendsPerChannel \in 2..(U8Max - SendsPerChannel - 1)
    /\ HandshakeSends > SendsPerChannel
    /\ Vps \in Endpoint

VARIABLES
    kind,      \* the transport this leaf was built with
    sessions,  \* wait_ready was called since the boot
    lpc,       \* "boot" | "ready" (wait_ready is due) | "session" | "dead"
    esp,       \* EspNowTransport; late: the frame that locked the peer had waited
               \* while the radio moved
    radio,     \* the channel the radio is really on
    hy,        \* HybridTransport
    sta,       \* the WiFi station and UdpTransport's peer
    retained,  \* RETAINED_CHANNEL, in RTC memory across soft resets; 0 = none
    air,       \* gateways that have something on its way to this leaf
    queue,     \* gateways with a frame in the radio's receive queue
    attempt,   \* frames the node sent in this session while unlocked
    net,       \* the world
    changes    \* how often the world changed

heard == <<air, queue>>

leafVars == <<kind, sessions, lpc, esp, radio, hy, sta, retained, heard, attempt,
              net, changes>>

Channels == 1..MaxChannel

Option(S) == {{}} \cup {{x} : x \in S}

\* unlocked_sends of a transport that starts from the retained channel.
Remembered == U8Max - SendsPerChannel

----------------------------------------------------------------------------
(* Construction *)

\* EspNowTransport::new_shared: the retained channel is only believed; the
\* radio is not tuned to it.
NewShared ==
    LET remembered == ~KnobSet /\ retained \in Channels
    IN  [peer           |-> {},
         channel        |-> IF remembered THEN retained ELSE ConfigChannel,
         unlocked_sends |-> IF remembered THEN Remembered ELSE 0,
         table          |-> {}, late |-> FALSE]

\* HybridTransport::new
NewHybrid(mode) ==
    [mode |-> mode, wifi_failures |-> 0, prefer_wifi |-> FALSE,
     again |-> FALSE]

\* The endpoint discover_fips finds for the pinned key: only a daemon on the
\* LAN answers mDNS, the VPS is reached through DNS.
Advert == IF net.ap = "up" THEN net.daemon \ {Vps} ELSE {}

\* What one search finds: the question or the answer may be lost.
Searches == {Advert, {}}

Associates == net.ap # "down"

\* EspNowTransport::new tunes the radio to the configured channel.
BootEspNow ==
    /\ lpc = "boot" /\ kind = "espnow"
    /\ radio' = ConfigChannel
    /\ esp' = NewShared
    /\ lpc' = "ready"
    /\ UNCHANGED <<kind, sessions, hy, sta, retained, heard, attempt, net, changes>>

\* build_hybrid_transport: associate, DHCP, mDNS with DNS fallback; else the
\* leaf starts on ESP-NOW, unassociated, wherever the radio was left.
BootHybrid ==
    /\ lpc = "boot" /\ kind = "hybrid"
    /\ \E dns \in BOOLEAN, found \in Searches :
         LET up == net.ap = "up" /\ (found # {} \/ dns)
         IN  /\ sta' = [sta EXCEPT !.connected = up,
                                   !.peer = IF found # {} THEN found
                                            ELSE IF up THEN {Vps} ELSE {}]
             /\ hy' = NewHybrid(IF up THEN "wifi" ELSE "espnow")
    /\ radio' = IF Associates THEN ApChannel ELSE radio
    /\ esp' = NewShared
    /\ lpc' = "ready"
    /\ UNCHANGED <<kind, sessions, retained, heard, attempt, net, changes>>

\* The part of the leaf's boot that build_wifi_transport retries.  A DHCP
\* timeout is not retried: the `?` on it leaves the function.
BootWifi ==
    /\ lpc = "boot" /\ kind = "wifi"
    /\ \E dns \in BOOLEAN, found \in Searches :
         LET up == net.ap = "up" /\ (found # {} \/ dns)
             retry == sta.retry + 1
         IN  \/ /\ up
                /\ sta' = [sta EXCEPT !.connected = TRUE,
                                      !.peer = IF found # {} THEN found ELSE {Vps}]
                /\ lpc' = "ready"
             \/ /\ net.ap = "nodhcp"
                /\ lpc' = "dead"
                /\ UNCHANGED sta
             \/ /\ ~up /\ net.ap # "nodhcp"
                /\ sta' = [sta EXCEPT !.retry = retry]
                /\ lpc' = IF retry >= MaxWifiRetries THEN "dead" ELSE "boot"
    /\ UNCHANGED <<kind, sessions, esp, radio, hy, retained, heard, attempt, net,
                   changes>>

\* run_wifi_node after a failed boot: it blinks for ever.
ErrorState == lpc = "dead" /\ UNCHANGED leafVars

----------------------------------------------------------------------------
(* wait_ready *)

Session == lpc' = "session" /\ attempt' = 0

Called == sessions' = TRUE

\* EspNowTransport::wait_ready: a session that ended gives up its peer; the
\* radio's peer table keeps its entry.
EspNowReady ==
    /\ lpc = "ready" /\ kind = "espnow"
    /\ esp' = IF sessions /\ esp.peer # {}
              THEN [esp EXCEPT !.peer = {}, !.unlocked_sends = 0, !.late = FALSE]
              ELSE esp
    /\ Session /\ Called
    /\ UNCHANGED <<kind, radio, hy, sta, retained, heard, net, changes>>

\* WifiTransport::wait_ready: associate again if needed, then follow the
\* bound key on the LAN; without an advert the old endpoint stays.
WifiReady ==
    /\ lpc = "ready" /\ kind = "wifi"
    /\ \/ /\ ~sessions
          /\ UNCHANGED sta
          /\ Session
       \/ /\ sessions
          /\ ~sta.connected /\ net.ap # "up"
          /\ sta' = [sta EXCEPT !.connected = Associates]
          /\ UNCHANGED <<lpc, attempt>>
       \/ /\ sessions
          /\ sta.connected \/ net.ap = "up"
          /\ \E found \in Searches :
               sta' = [sta EXCEPT !.connected = TRUE,
                                  !.peer = IF found # {} THEN found ELSE sta.peer]
          /\ Session
    /\ Called
    /\ UNCHANGED <<kind, esp, radio, hy, retained, heard, net, changes>>

\* try_wifi_ready(strict): what it leaves of the station, and its verdict.
TryWifiReady(strict, found) ==
    LET connected == sta.connected \/ Associates
        reached == connected /\ net.ap = "up"
    IN  [connected |-> connected,
         ready     |-> reached /\ (found # {} \/ ~strict),
         peer      |-> IF reached /\ found # {} THEN found ELSE sta.peer]

\* A plausible slip: the locked peer is kept.
EnterEspNowKeepsPeer(h, wifi) ==
    /\ sta' = [sta EXCEPT !.connected = FALSE, !.peer = wifi.peer]
    /\ esp' = [esp EXCEPT !.unlocked_sends = 0, !.late = FALSE]
    /\ hy' = [h EXCEPT !.mode = "espnow"]
    /\ Session

\* enter_espnow: leave the access point, forget the peer, arm the probe.  The
\* radio stays on the channel it was on.
EnterEspNow(h, wifi) ==
    /\ sta' = [sta EXCEPT !.connected = FALSE, !.peer = wifi.peer]
    /\ esp' = [esp EXCEPT !.peer = {}, !.unlocked_sends = 0, !.late = FALSE]
    /\ hy' = [h EXCEPT !.mode = "espnow"]
    /\ Session

\* Whether the last call lies at least HEALTHY_SESSION_SECS back: always after
\* a slow reconnect backoff, possibly after a session, never after a call that
\* failed and was retried quickly.
SinceLast == {net.slow} \cup (IF hy.again THEN {} ELSE {TRUE})

HybridReadyFirst ==
    /\ lpc = "ready" /\ kind = "hybrid" /\ ~sessions
    /\ Session /\ Called
    /\ UNCHANGED <<kind, esp, radio, hy, sta, retained, heard, net, changes>>

HybridReadyWifi ==
    /\ lpc = "ready" /\ kind = "hybrid" /\ sessions /\ hy.mode = "wifi"
    /\ \E healthy \in SinceLast, found \in Searches :
         LET wifi == TryWifiReady(FALSE, found)
             failures == (IF healthy THEN 0 ELSE hy.wifi_failures) + 1
         IN  \/ /\ wifi.ready
                /\ sta' = [sta EXCEPT !.connected = TRUE, !.peer = wifi.peer]
                /\ hy' = [hy EXCEPT !.wifi_failures = 0, !.again = FALSE]
                /\ Session
                /\ UNCHANGED esp
             \/ /\ ~wifi.ready /\ failures >= Fallback
                /\ EnterEspNow([hy EXCEPT !.wifi_failures = 0, !.again = FALSE], wifi)
             \/ /\ ~wifi.ready /\ failures < Fallback
                /\ sta' = [sta EXCEPT !.connected = wifi.connected]
                /\ hy' = [hy EXCEPT !.wifi_failures = failures, !.again = TRUE]
                /\ UNCHANGED <<esp, lpc, attempt>>
    /\ radio' = IF sta.connected \/ Associates THEN ApChannel ELSE radio
    /\ UNCHANGED <<kind, sessions, retained, heard, net, changes>>

HybridReadyEspNow ==
    /\ lpc = "ready" /\ kind = "hybrid" /\ sessions /\ hy.mode = "espnow"
    /\ \E found \in Searches :
         LET wifi == TryWifiReady(TRUE, found)
             h == [hy EXCEPT !.prefer_wifi = FALSE, !.again = FALSE]
         IN  \/ /\ hy.prefer_wifi /\ wifi.ready
                /\ sta' = [sta EXCEPT !.connected = TRUE, !.peer = wifi.peer]
                /\ hy' = [h EXCEPT !.mode = "wifi", !.wifi_failures = 0]
                /\ Session
                /\ UNCHANGED esp
             \/ /\ hy.prefer_wifi /\ ~wifi.ready
                /\ EnterEspNow(h, wifi)
             \/ /\ ~hy.prefer_wifi
                /\ EnterEspNow(h, [peer |-> sta.peer])
    /\ radio' = IF hy.prefer_wifi /\ Associates THEN ApChannel ELSE radio
    /\ UNCHANGED <<kind, sessions, retained, heard, net, changes>>

----------------------------------------------------------------------------
(* The session: send, recv and its end *)

OnEspNow == kind = "espnow" \/ (kind = "hybrid" /\ hy.mode = "espnow")

UdpWorks == sta.connected /\ net.ap = "up" /\ net.daemon # {} /\ sta.peer = net.daemon

Locked == OnEspNow /\ \E g \in esp.peer \intersect net.gateways : GwChannel[g] = radio

\* The sweep's next channel.
NextChannel(c) == IF c >= MaxChannel THEN 1 ELSE c + 1

\* EspNowTransport::send: to the locked peer, or a broadcast that every
\* gateway on the radio's channel hears.  While no peer is locked the sweep
\* hops right after the last broadcast of a channel.  The node resends when a recv
\* found the queue empty until its deadline; what the radio hears while the send is
\* under way waits in the queue, also across the hop.
EspNowSend ==
    /\ lpc = "session" /\ OnEspNow
    /\ esp.peer = {} => attempt < HandshakeSends /\ (attempt = 0 \/ queue = {})
    /\ LET answers == {g \in net.gateways : GwChannel[g] = radio /\ esp.peer \subseteq {g}}
       IN  \E meanwhile \in SUBSET {g \in air \cup answers : GwChannel[g] = radio} :
             /\ queue' = queue \cup meanwhile
             /\ air' = (air \cup answers) \ meanwhile
    /\ IF esp.peer # {}
       THEN UNCHANGED <<esp, radio, attempt>>
       ELSE LET n == IF esp.unlocked_sends = U8Max THEN U8Max ELSE esp.unlocked_sends + 1
                next == NextChannel(esp.channel)
            IN  /\ attempt' = attempt + 1
                /\ IF n >= SendsPerChannel
                   THEN /\ esp' = [esp EXCEPT !.unlocked_sends = 0, !.channel = next]
                        /\ radio' = next
                   ELSE /\ esp' = [esp EXCEPT !.unlocked_sends = n]
                        /\ UNCHANGED radio
    /\ UNCHANGED <<kind, sessions, lpc, hy, sta, retained, net, changes>>

\* The radio puts a frame of a gateway on its channel into the receive queue,
\* whether or not a recv waits for it.
Hear ==
    /\ \E g \in air :
         /\ GwChannel[g] = radio
         /\ queue' = queue \cup {g}
         /\ air' = air \ {g}
    /\ UNCHANGED <<kind, sessions, lpc, esp, radio, hy, sta, retained, attempt, net,
                   changes>>

\* EspNowTransport::recv, and lock_peer for the first frame: the believed channel
\* is retained, and a full peer table leaves the leaf on broadcast.  The frame may
\* have been in the queue since before the last hop, or since an earlier session.
\* lock_peer's removal of an old peer needs peer_mac to be set, and recv calls it
\* only when it is not.
EspNowRecv ==
    /\ lpc = "session" /\ OnEspNow
    /\ \E g \in queue :
         /\ queue' = queue \ {g}
         /\ IF esp.peer # {}
            THEN UNCHANGED <<esp, retained>>
            ELSE /\ retained' = esp.channel
                 /\ esp' = IF g \in esp.table \/ Cardinality(esp.table) < PeerTable
                           THEN [esp EXCEPT !.peer = {g}, !.table = @ \cup {g},
                                            !.late = GwChannel[g] # radio]
                           ELSE esp
    /\ UNCHANGED <<kind, sessions, lpc, radio, hy, sta, air, attempt, net, changes>>

\* A frame the leaf is not there to hear.
AnswerLost ==
    /\ \E g \in air : air' = air \ {g}
    /\ UNCHANGED <<kind, sessions, lpc, esp, radio, hy, sta, retained, queue, attempt,
                   net, changes>>

\* The node gives up: the handshake's resends are used up and nothing came, a
\* session that worked dies, or one over a path that leads nowhere does.
SessionEnds ==
    /\ lpc = "session"
    /\ OnEspNow /\ esp.peer = {} => attempt = HandshakeSends /\ queue = {}
    /\ lpc' = "ready"
    /\ UNCHANGED <<kind, sessions, esp, radio, hy, sta, retained, heard, attempt, net,
                   changes>>

\* A plausible slip: the probe window ends the session and is forgotten.
ProbeWindowForgets ==
    /\ lpc = "session" /\ kind = "hybrid" /\ OnEspNow /\ esp.peer # {}
    /\ lpc' = "ready"
    /\ UNCHANGED <<kind, sessions, esp, radio, hy, sta, retained, heard, attempt, net, changes>>

\* HybridTransport::recv ends the session in a probe window: when
\* HYBRID_WIFI_PROBE_SECS (300 s) have run out since wait_ready armed the probe.
\* An unanswered handshake attempt is over after its resends (33 s), so only a
\* session with a locked peer lasts until then.
ProbeWindow ==
    /\ lpc = "session" /\ kind = "hybrid" /\ OnEspNow /\ esp.peer # {}
    /\ hy' = [hy EXCEPT !.prefer_wifi = TRUE]
    /\ lpc' = "ready"
    /\ UNCHANGED <<kind, sessions, esp, radio, sta, retained, heard, attempt, net, changes>>

----------------------------------------------------------------------------
(* The world *)

Change == changes < MaxChanges /\ changes' = changes + 1

\* What a leaf that is about to boot holds.
Off == [esp |-> [peer |-> {}, channel |-> 1, unlocked_sends |-> 0, table |-> {},
                late |-> FALSE],
        hy |-> NewHybrid("espnow"),
        sta |-> [connected |-> FALSE, peer |-> {}, retry |-> 0],
        radio |-> 1]

\* A soft reset keeps the RTC memory, a power cycle clears it.
LeafReset ==
    /\ Change
    /\ lpc' = "boot" /\ sessions' = FALSE
    /\ retained' \in {retained, 0}
    /\ esp' = Off.esp /\ hy' = Off.hy /\ sta' = Off.sta /\ radio' = Off.radio
    /\ attempt' = 0 /\ air' = {} /\ queue' = {}
    /\ UNCHANGED <<kind, net>>

\* The access point, the daemon, the gateways and the node's reconnect pace.
WorldChanges ==
    /\ Change
    /\ \/ \E ap \in {"down", "nodhcp", "up"} : net' = [net EXCEPT !.ap = ap]
       \/ \E d \in Option(Endpoint) : net' = [net EXCEPT !.daemon = d]
       \/ \E gs \in SUBSET Gateway : net' = [net EXCEPT !.gateways = gs]
       \/ \E slow \in BOOLEAN : net' = [net EXCEPT !.slow = slow]
    /\ net' # net
    /\ sta' = [sta EXCEPT !.connected = @ /\ net'.ap # "down"]
    /\ UNCHANGED <<kind, sessions, lpc, esp, radio, hy, retained, heard, attempt>>

----------------------------------------------------------------------------
LeafInit ==
    /\ kind \in Kinds
    /\ sessions = FALSE /\ lpc = "boot"
    /\ esp = Off.esp /\ hy = Off.hy /\ sta = Off.sta /\ radio = Off.radio
    /\ retained \in {0, ConfigChannel} \cup {GwChannel[g] : g \in Gateway}
    /\ air = {} /\ queue = {} /\ attempt = 0 /\ changes = 0
    /\ net \in [ap : {"down", "up"}, daemon : Option(Endpoint), gateways : {Gateway},
                slow : {FALSE}]

LeafReady ==
    \/ EspNowReady \/ WifiReady
    \/ HybridReadyFirst \/ HybridReadyWifi \/ HybridReadyEspNow

LeafBoot == BootEspNow \/ BootHybrid \/ BootWifi

LeafNext ==
    \/ LeafBoot \/ ErrorState \/ LeafReady
    \/ EspNowSend \/ Hear \/ EspNowRecv \/ AnswerLost
    \/ SessionEnds \/ ProbeWindow
    \/ LeafReset \/ WorldChanges

LeafSpec == LeafInit /\ [][LeafNext]_leafVars

Works == IF OnEspNow THEN Locked ELSE UdpWorks

LeafRuns == LeafBoot \/ LeafReady \/ EspNowSend \/ EspNowRecv

\* An answer comes while an unlocked leaf waits for one.
HearInTime ==
    lpc = "session" /\ OnEspNow /\ esp.peer = {} /\ attempt > 0 /\ queue = {} /\ Hear

\* A search that is answered.
Finds == LeafReady /\ Advert # {} /\ sta'.connected /\ sta'.peer = Advert

\* The node's loop runs and a session over a dead path ends.  Time and again a
\* gateway answers before the leaf's next broadcast, a session with a locked
\* gateway outlives the probe interval, and a search is answered.
LeafFairness ==
    /\ WF_leafVars(LeafRuns) /\ WF_leafVars(SessionEnds /\ ~Works)
    /\ SF_leafVars(HearInTime) /\ SF_leafVars(ProbeWindow) /\ SF_leafVars(Finds)

LeafFair == LeafSpec /\ LeafFairness

----------------------------------------------------------------------------
(* Properties *)

\* A locked leaf keeps its radio where its gateway listens: the sweep of
\* EspNowTransport::send never moves a radio whose peer is locked, and no lock
\* survives a stay on the WiFi path.  The exception is a leaf that locked on to a
\* frame which had waited in the receive queue since before a hop: recv takes the
\* radio to be where the frame came from.
LockedHearsPeer ==
    lpc = "session" /\ OnEspNow => \A g \in esp.peer : radio = GwChannel[g] \/ esp.late

\* The hybrid leaf takes the WiFi path only with an endpoint to send to: after
\* a boot on ESP-NOW its endpoint is unspecified, and the strict probe demands
\* a fresh advert before HybridTransport::wait_ready switches.
WifiPeerKnown ==
    lpc = "session" /\ ~OnEspNow => sta.peer # {}

\* While gateways are up the leaf is locked on to one of them, on its channel, again
\* and again, whatever the sweep, stale frames in the receive queue, the probe
\* windows and the fallback did before.  A hybrid leaf that is on the WiFi path may
\* instead stay there: for as long as its access point is up, with or without a
\* daemon behind it, or when its reconnects are HEALTHY_SESSION_SECS apart, which
\* resets the count of failures each time.
ReachesGateway ==
    kind \in {"espnow", "hybrid"} /\ <>[](net.gateways # {})
        => []<>Locked \/ <>[](~OnEspNow /\ (net.ap = "up" \/ net.slow))

OnLanDaemon == lpc = "dead" \/ (~OnEspNow /\ sta.peer = Advert)

\* A daemon that stays on the LAN is found: a leaf that survived its boot settles on
\* the WiFi path and the daemon's endpoint.  A hybrid leaf on ESP-NOW may instead
\* stay there for ever when no gateway answers it: every failed handshake goes
\* through enter_espnow, which puts the next WiFi probe off.
FollowsLanDaemon ==
    kind \in {"wifi", "hybrid"} /\ <>[](Advert # {})
        => <>[]OnLanDaemon \/ <>[](kind = "hybrid" /\ OnEspNow /\ net.gateways = {})

\* A session of the leaf runs on a path that leads somewhere: the channel its gateway
\* was heard on or a known endpoint.
PathIsUsable == LockedHearsPeer /\ WifiPeerKnown

\* What stays reachable, a gateway or a daemon on the LAN, the leaf gets to, but for
\* the two ways in which a hybrid leaf stays on the path it is on.
LeafGetsThrough == ReachesGateway /\ FollowsLanDaemon

============================================================================
