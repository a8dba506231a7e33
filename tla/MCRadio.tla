------------------------------ MODULE MCRadio ------------------------------
(***************************************************************************)
(* The radio paths between a leaf and the daemon: the leaf's transports,   *)
(* the relaying access point and its DHCP server, the ESP-NOW gateways,    *)
(* their uplink and the BLE links, checked as alternatives.  A behaviour   *)
(* runs one of them, named by `part'; the others rest in one of their      *)
(* initial states.                                                         *)
(***************************************************************************)
EXTENDS LeafTransport, RelayAp, DhcpServer, EspNowGateway, GatewayUplink, BleLink

VARIABLE part

radioVars == <<leafVars, relVars, dhcpVars, gwVars, uplinkVars, bleVars, part>>

\* No gateway is on the access point's channel, and they differ.
MCGwChannel == [g \in Gateway |-> IF g = "g1" THEN 2 ELSE 3]

SomeFlavour == CHOOSE f \in Flavours : TRUE

RadioParts == {"leaf", "relay", "dhcp", "gateway", "uplink", "ble"}

RadioAtStart ==
    /\ LeafInit
    /\ \/ part = "leaf"
       \/ kind = "wifi" /\ retained = 0 /\ net.ap = "down" /\ net.daemon = {}
    /\ (part = "relay" \/ daemon = {"d1"}) /\ RelInit
    /\ DhcpInit /\ GwInit
    /\ (part = "uplink" \/ ap = "down") /\ UplinkInit
    /\ (part = "ble" \/ flavour = SomeFlavour) /\ BleInit

RadioInit == part \in RadioParts /\ RadioAtStart

RadioNext ==
    \/ part = "leaf" /\ LeafNext
       /\ UNCHANGED <<relVars, dhcpVars, gwVars, uplinkVars, bleVars, part>>
    \/ part = "relay" /\ RelNext
       /\ UNCHANGED <<leafVars, dhcpVars, gwVars, uplinkVars, bleVars, part>>
    \/ part = "dhcp" /\ DhcpNext
       /\ UNCHANGED <<leafVars, relVars, gwVars, uplinkVars, bleVars, part>>
    \/ part = "gateway" /\ GwNext
       /\ UNCHANGED <<leafVars, relVars, dhcpVars, uplinkVars, bleVars, part>>
    \/ part = "uplink" /\ UplinkNext
       /\ UNCHANGED <<leafVars, relVars, dhcpVars, gwVars, bleVars, part>>
    \/ part = "ble" /\ BleNext
       /\ UNCHANGED <<leafVars, relVars, dhcpVars, gwVars, uplinkVars, part>>

RadioSpec == RadioInit /\ [][RadioNext]_radioVars

----------------------------------------------------------------------------
(* Liveness *)

Leaf == part = "leaf"
Relaying == part = "relay"
Uplinking == part = "uplink"
Ble == part = "ble"

\* The variables of the part that runs.
active ==
    CASE Leaf -> leafVars [] Relaying -> relVars [] part = "dhcp" -> dhcpVars
      [] part = "gateway" -> gwVars [] Uplinking -> uplinkVars [] Ble -> bleVars

\* One fair step of each part, then a second, third and fourth.
Fair1 ==
    /\ \/ Leaf /\ LeafRuns
       \/ Relaying /\ UplinkStep
       \/ part = "gateway" /\ GwTick
       \/ Uplinking /\ GwRuns
       \/ Ble /\ BleTick
    /\ UNCHANGED part

Fair2 ==
    /\ \/ Leaf /\ SessionEnds /\ ~Works
       \/ Relaying /\ RelTick
       \/ Uplinking /\ GwLease
       \/ Ble /\ HostRuns
    /\ UNCHANGED part

Fair3 ==
    /\ \/ Relaying /\ DaemonComesBack
       \/ Ble /\ NodeRuns
    /\ UNCHANGED part

Fair4 == Relaying /\ (PeerReady \/ PeerDead) /\ UNCHANGED part

\* LeafFairness, RelFairness, GwFairness, UplinkFairness and BleFairness.  `part'
\* never changes, so fairness of a disjunction over the parts is fairness of the
\* disjunct of the part that runs.
RadioFair ==
    /\ RadioSpec
    /\ WF_active(Fair1) /\ WF_active(Fair2) /\ WF_active(Fair3) /\ WF_active(Fair4)
    /\ SF_active(((Leaf /\ HearInTime) \/ (Ble /\ NodeReceive)) /\ UNCHANGED part)
    /\ SF_active(Leaf /\ ProbeWindow /\ UNCHANGED part)
    /\ SF_active(((Leaf /\ Finds) \/ (Relaying /\ Locates)) /\ UNCHANGED part)

\* FollowsDaemon of RelayAp, where the relay runs: its uplink task finds the daemon
\* again and again, and the peer-mode node settles there once searches are answered.
RelayFollowsDaemon == Relaying => FollowsDaemon

\* A gateway that is needed comes to serve: the slot of a silent owner goes to the
\* leaf that is heard, and the uplink is associated and addressed again.
GatewayServes == SlotIsReleased /\ GatewayRejoins

\* BLE links come back and are used: the host advertises or relays again, where the
\* BLE tasks run, and the node gets to use the link that is up.
BleLinksComeBack == NodeFollowsLink /\ (Ble => HostComesBack)

=============================================================================
