------------------------------- MODULE RelayAp ------------------------------
(***************************************************************************)
(* The relay access point: uplink_task, mdns_task, ap_rx_task and the      *)
(* up_rx_tasks, which share UPSTREAM and SLOTS, and the peer-mode node's   *)
(* RelayPeerTransport.                                                     *)
(*                                                                         *)
(* The tasks run on one executor, so what a task does between two awaits   *)
(* is one action; both statics are locked only inside such a piece.  The   *)
(* uplink network, the daemon and the stations are external: association   *)
(* is lost at any moment, the daemon moves, and it answers a flow until it *)
(* has heard nothing from it for DaemonDead ticks.  A datagram travels for *)
(* at most MaxTransit ticks.                                               *)
(***************************************************************************)
EXTENDS Naturals, FiniteSets

CONSTANTS
    Station,      \* the clients, by endpoint
    Slots,        \* RELAY_SLOTS, as 1 .. n
    Endpoints,    \* where the daemon may be
    VpsEndpoint,  \* the one of them that VPS_HOST resolves to
    IdleSecs,     \* SLOT_IDLE_SECS
    Rediscover,   \* REDISCOVER_SECS
    Retry,        \* the 30 s until discovery is tried again
    MaxBackoff,   \* cap of the association backoff (60)
    DaemonDead,   \* the daemon's link-dead timeout
    MaxTransit,   \* longest time a datagram travels
    MaxMoves      \* bound: how often the network breaks or the daemon moves

ASSUME RelayAssumption ==
    /\ Slots \subseteq Nat /\ IsFiniteSet(Slots)
    /\ IdleSecs \in Nat /\ Rediscover \in Nat /\ Retry \in Nat
    /\ MaxBackoff \in Nat /\ DaemonDead \in Nat /\ MaxTransit \in Nat
    /\ MaxMoves \in Nat /\ VpsEndpoint \in Endpoints
    /\ MaxBackoff >= 2 /\ DaemonDead + MaxTransit < IdleSecs

VARIABLES
    upstream,   \* UPSTREAM, as a set
    slot,       \* SLOTS: slot[i] = [client, idle]
    uplink,     \* uplink_task: [at, backoff, timer, due]
    assoc,      \* controller.is_connected()
    daemon,     \* where the daemon is, {} when it is not reachable
    flow,       \* flow[i]: the station the daemon talks to on socket i, as
                \* a set of [to, quiet], quiet since it was last heard
    reply,      \* reply[i]: a datagram of the daemon on its way to socket i
    told,       \* stations that have seen an advert
    peer,       \* RelayPeerTransport: [at, ep]
    stray,      \* history: a datagram was relayed to another station
    moves       \* number of changes of the outside world so far

relVars == <<upstream, slot, uplink, assoc, daemon, flow, reply, told, peer,
             stray, moves>>

AtMostOne(S) == {o \in SUBSET S : Cardinality(o) <= 1}

RelInit ==
    /\ upstream = {}
    /\ slot = [i \in Slots |-> [client |-> {}, idle |-> 0]]
    /\ uplink = [at |-> "loop", backoff |-> 2, timer |-> 0, due |-> 0]
    /\ assoc = FALSE
    /\ daemon \in {{e} : e \in Endpoints}
    /\ flow = [i \in Slots |-> {}]
    /\ reply = [i \in Slots |-> {}]
    /\ told = {}
    /\ peer = [at |-> "idle", ep |-> {}]
    /\ stray = FALSE /\ moves = 0

-----------------------------------------------------------------------------
(* uplink_task.  `timer' is what it sleeps on, `due' the time until        *)
(* next_rediscover.                                                        *)
Uplink(at, fields) ==
    uplink' = [f \in DOMAIN uplink |->
                 IF f = "at" THEN at
                 ELSE IF f \in DOMAIN fields THEN fields[f] ELSE uplink[f]]

uplinkRest == <<slot, daemon, flow, reply, told, peer, stray, moves>>

(* Not connected: forget the upstream, then scan, configure and connect.   *)
LoopLost ==
    /\ uplink.at = "loop" /\ uplink.timer = 0 /\ ~assoc
    /\ upstream' = {}
    /\ Uplink("connect", <<>>)
    /\ UNCHANGED assoc /\ UNCHANGED uplinkRest

Associated ==
    /\ uplink.at = "connect"
    /\ assoc' = TRUE
    /\ Uplink("dhcp", <<>>)
    /\ UNCHANGED upstream /\ UNCHANGED uplinkRest

(* connect_async failed or timed out: disconnect, sleep, double.           *)
AssociateFailed ==
    /\ uplink.at = "connect" /\ moves < MaxMoves
    /\ assoc' = FALSE
    /\ Uplink("loop", [timer |-> uplink.backoff,
                       backoff |-> IF uplink.backoff * 2 <= MaxBackoff
                                   THEN uplink.backoff * 2 ELSE MaxBackoff])
    /\ moves' = moves + 1
    /\ UNCHANGED <<upstream, slot, daemon, flow, reply, told, peer, stray>>

GotAddress ==
    /\ uplink.at = "dhcp" /\ assoc
    /\ Uplink("due", [backoff |-> 2, due |-> 0])
    /\ UNCHANGED <<upstream, assoc>> /\ UNCHANGED uplinkRest

(* The DHCP client had no answer: disconnect and start over at once.       *)
NoAddress ==
    /\ uplink.at = "dhcp"
    /\ IF assoc THEN moves < MaxMoves /\ moves' = moves + 1
       ELSE UNCHANGED moves
    /\ assoc' = FALSE
    /\ Uplink("loop", <<>>)
    /\ UNCHANGED <<upstream, slot, daemon, flow, reply, told, peer, stray>>

LoopConnected ==
    /\ uplink.at = "loop" /\ uplink.timer = 0 /\ assoc
    /\ Uplink("due", <<>>)
    /\ UNCHANGED <<upstream, assoc>> /\ UNCHANGED uplinkRest

(* A plausible slip: a relay that has an upstream does not look again.     *)
StartDiscoveryOnce ==
    /\ uplink.at = "due" /\ uplink.due = 0
    /\ IF upstream = {} THEN Uplink("discover", [due |-> Rediscover])
       ELSE Uplink("loop", [timer |-> 1, due |-> Rediscover])
    /\ UNCHANGED <<upstream, assoc>> /\ UNCHANGED uplinkRest

(* Discovery is due: discover_fips_advert, then DNS, both awaited.         *)
StartDiscovery ==
    /\ uplink.at = "due" /\ uplink.due = 0
    /\ Uplink("discover", [due |-> Rediscover])
    /\ UNCHANGED <<upstream, assoc>> /\ UNCHANGED uplinkRest

NotDue ==
    /\ uplink.at = "due" /\ uplink.due > 0
    /\ Uplink("loop", [timer |-> 1])
    /\ UNCHANGED <<upstream, assoc>> /\ UNCHANGED uplinkRest

(* The search is answered: only a daemon on the LAN does.                  *)
FoundOnLan ==
    /\ uplink.at = "discover" /\ assoc /\ daemon # {} /\ daemon # {VpsEndpoint}
    /\ upstream' = daemon
    /\ Uplink("loop", [timer |-> 1])
    /\ UNCHANGED assoc /\ UNCHANGED uplinkRest

(* No answer, although there may be a daemon on the LAN, and the name of   *)
(* the VPS resolves: its endpoint replaces what was published.             *)
FellBack ==
    /\ uplink.at = "discover" /\ assoc
    /\ upstream' = {VpsEndpoint}
    /\ Uplink("loop", [timer |-> 1])
    /\ UNCHANGED assoc /\ UNCHANGED uplinkRest

(* Neither: what was published before stays published.                     *)
NotFound ==
    /\ uplink.at = "discover"
    /\ Uplink("loop", [timer |-> 1, due |-> Retry])
    /\ UNCHANGED <<upstream, assoc>> /\ UNCHANGED uplinkRest

UplinkStep == LoopLost \/ Associated \/ GotAddress \/ NoAddress
              \/ LoopConnected \/ StartDiscovery \/ NotDue
              \/ FoundOnLan \/ FellBack \/ NotFound

-----------------------------------------------------------------------------
(* mdns_task: a query is answered, and an announcement made, only while an *)
(* upstream is known.                                                      *)
AnswerQuery ==
    /\ upstream # {}
    /\ \E c \in Station \ told : told' = told \cup {c}
    /\ UNCHANGED <<upstream, slot, uplink, assoc, daemon, flow, reply, peer,
                   stray, moves>>

(* slot_for: the client's slot, else the first that is free or idle.       *)
SlotsOf(c) == {i \in Slots : c \in slot[i].client}
(* A plausible slip: a slot is reused a second early.                      *)
IdleSlotsEarly == {i \in Slots : slot[i].client = {} \/ slot[i].idle + 1 >= IdleSecs}

IdleSlots == {i \in Slots : slot[i].client = {} \/ slot[i].idle >= IdleSecs}
FirstOf(S) == {i \in S : \A j \in S : i <= j}

SlotFor(c) == IF SlotsOf(c) # {} THEN FirstOf(SlotsOf(c)) ELSE FirstOf(IdleSlots)

(* ap_rx_task: a datagram of station c; it may be lost on the way to the   *)
(* daemon, and reaches it only at the endpoint that was published.         *)
Fresh(c) == [client |-> {c}, idle |-> 0]

ApReceive(c) ==
    /\ c \in told /\ upstream # {}
    /\ \E i \in SlotFor(c) :
         /\ slot' = [slot EXCEPT ![i] = Fresh(c)]
         /\ \/ assoc /\ upstream = daemon
               /\ flow' = [flow EXCEPT ![i] = {[to |-> c, quiet |-> 0]}]
            \/ UNCHANGED flow
    /\ UNCHANGED <<upstream, uplink, assoc, daemon, reply, told, peer,
                   stray, moves>>

(* The daemon sends on a flow it has not given up.                         *)
DaemonSends(i) ==
    /\ reply[i] = {} /\ daemon # {}
    /\ \E f \in flow[i] :
         reply' = [reply EXCEPT ![i] = {[to |-> f.to, from |-> daemon, age |-> 0]}]
    /\ UNCHANGED <<upstream, slot, uplink, assoc, daemon, flow, told, peer,
                   stray, moves>>

(* up_rx_task for slot i: from another endpoint than the published one, or *)
(* for a slot without a client, it is dropped; else it refreshes the slot  *)
(* and goes to the slot's client.                                          *)
UpReceive(i) ==
    /\ \E r \in reply[i] :
         IF r.from = upstream /\ slot[i].client # {}
         THEN /\ slot' = [slot EXCEPT ![i].idle = 0]
              /\ stray' = (stray \/ slot[i].client # {r.to})
         ELSE UNCHANGED <<slot, stray>>
    /\ reply' = [reply EXCEPT ![i] = {}]
    /\ UNCHANGED <<upstream, uplink, assoc, daemon, flow, told, peer, moves>>

-----------------------------------------------------------------------------
(* Peer mode: each session waits for an upstream and keeps its endpoint;   *)
(* it ends when the node's watchdog hears nothing from there.              *)
PeerReady ==
    /\ peer.at = "idle" /\ upstream # {}
    /\ peer' = [at |-> "session", ep |-> upstream]
    /\ UNCHANGED <<upstream, slot, uplink, assoc, daemon, flow, reply, told,
                   stray, moves>>

PeerDead ==
    /\ peer.at = "session" /\ (~assoc \/ peer.ep # daemon)
    /\ peer' = [peer EXCEPT !.at = "idle"]
    /\ UNCHANGED <<upstream, slot, uplink, assoc, daemon, flow, reply, told,
                   stray, moves>>

-----------------------------------------------------------------------------
(* The outside world.                                                      *)
LoseAssociation ==
    /\ assoc /\ moves < MaxMoves
    /\ assoc' = FALSE /\ moves' = moves + 1
    /\ UNCHANGED <<upstream, slot, uplink, daemon, flow, reply, told, peer,
                   stray>>

DaemonMoves ==
    /\ moves < MaxMoves /\ moves' = moves + 1
    /\ \E d \in {{e} : e \in Endpoints} \cup {{}} :
         d # daemon /\ daemon' = d
    /\ flow' = [i \in Slots |-> {}]
    /\ UNCHANGED <<upstream, slot, uplink, assoc, reply, told, peer, stray>>

DaemonComesBack ==
    /\ daemon = {} /\ \E e \in Endpoints : daemon' = {e}
    /\ UNCHANGED <<upstream, slot, uplink, assoc, flow, reply, told, peer,
                   stray, moves>>

Down(n) == IF n = 0 THEN 0 ELSE n - 1

RelTick ==
    /\ slot' = [i \in Slots |->
         [slot[i] EXCEPT !.idle = IF @ >= IdleSecs THEN @ ELSE @ + 1]]
    /\ uplink' = [uplink EXCEPT !.timer = Down(@), !.due = Down(@)]
    /\ flow' = [i \in Slots |->
         {[f EXCEPT !.quiet = @ + 1] : f \in {g \in flow[i] : g.quiet < DaemonDead}}]
    /\ reply' = [i \in Slots |->
         {[r EXCEPT !.age = @ + 1] : r \in {q \in reply[i] : q.age < MaxTransit}}]
    /\ UNCHANGED <<upstream, assoc, daemon, told, peer, stray, moves>>

RelNext ==
    \/ UplinkStep \/ AssociateFailed
    \/ AnswerQuery \/ \E c \in Station : ApReceive(c)
    \/ \E i \in Slots : DaemonSends(i) \/ UpReceive(i)
    \/ PeerReady \/ PeerDead
    \/ LoseAssociation \/ DaemonMoves \/ DaemonComesBack
    \/ RelTick

RelSpec == RelInit /\ [][RelNext]_relVars

(* A search with the right result, and one whose answer was lost.          *)
Locates == (FoundOnLan \/ FellBack) /\ upstream' = daemon
Missed == FellBack /\ daemon # {VpsEndpoint}

(* Tasks that can run do, time passes, a daemon that left comes back, a    *)
(* node whose endpoint is silent ends its session (FmpLink's watchdog),    *)
(* and time and again a search finds the daemon.                           *)
RelFairness ==
    /\ WF_relVars(UplinkStep) /\ WF_relVars(RelTick)
    /\ WF_relVars(DaemonComesBack)
    /\ WF_relVars(PeerReady \/ PeerDead)
    /\ SF_relVars(Locates)
RelFair == RelSpec /\ RelFairness

-----------------------------------------------------------------------------

(* "each client flow gets its own uplink socket": a station has one slot.  *)
OneSlotPerStation ==
    \A i, j \in Slots : slot[i].client # {} /\ slot[i].client = slot[j].client
                        => i = j

(* A datagram of the daemon is relayed only to the station it was meant    *)
(* for, although slots are taken from idle stations while the daemon still *)
(* sends on the socket: SLOT_IDLE_SECS outlasts the daemon's own timeout   *)
(* and the transit time together.                                          *)
RepliesStayHome == ~stray

(* The relay follows the daemon, after lost associations, failed attempts  *)
(* and moves: in the end it publishes the daemon's endpoint again and      *)
(* again, and in between at most that of the VPS, which replaces it        *)
(* whenever a search goes unanswered, until the next.  Once searches are   *)
(* answered, it settles at the daemon, and so do the node's sessions.      *)
FollowsDaemon ==
    /\ []<>(upstream = daemon)
    /\ <>[](assoc /\ upstream \subseteq daemon \cup {VpsEndpoint})
    /\ <>[][~Missed]_relVars => <>[](upstream = daemon /\ peer.ep = daemon)
=============================================================================
