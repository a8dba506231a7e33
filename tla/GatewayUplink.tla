--------------------------- MODULE GatewayUplink ---------------------------
(***************************************************************************)
(* The WiFi side of the ESP-NOW <-> UDP gateway (espnow_wifi_gateway.rs):  *)
(* its boot loop, the one-time search for the daemon, and the supervisor   *)
(* task that re-associates the station.  The relay itself is the module    *)
(* EspNowGateway.                                                          *)
(***************************************************************************)
EXTENDS Naturals

CONSTANTS
    PauseBase,  \* first pause of the boot loop, in ticks (5 s)
    PauseMax,   \* its cap (60 s)
    MaxFlaps    \* bound: changes of the access point in a behaviour

ASSUME UplinkAssumption == PauseBase \in Nat \ {0} /\ PauseMax \in Nat /\ PauseBase <= PauseMax

VARIABLES
    phase,    \* "join" | "pause" | "locate" | "relay"
    ap,       \* the access point and its DHCP server: "down", "nodhcp", "up"
    joined,   \* the station is associated
    lease,    \* the stack has an IPv4 configuration
    joinPause, \* the next pause of the boot loop
    idle,     \* ticks left of the current pause
    flaps     \* how often the access point changed

uplinkVars == <<phase, ap, joined, lease, joinPause, idle, flaps>>

NextPause(p) == IF 2 * p < PauseMax THEN 2 * p ELSE PauseMax

\* connect_async and the wait for DHCP, each under its timeout; every failure
\* disconnects.
GwJoin ==
    /\ phase = "join"
    /\ IF ap = "up"
       THEN /\ phase' = "locate" /\ joined' = TRUE /\ lease' = TRUE
            /\ UNCHANGED <<joinPause, idle>>
       ELSE /\ phase' = "pause" /\ joined' = FALSE
            /\ idle' = joinPause
            /\ joinPause' = NextPause(joinPause)
            /\ UNCHANGED lease
    /\ UNCHANGED <<ap, flaps>>

GwPause ==
    /\ phase = "pause"
    /\ idle' = idle - 1
    /\ phase' = IF idle = 1 THEN "join" ELSE "pause"
    /\ UNCHANGED <<ap, joined, lease, joinPause, flaps>>

\* mDNS for the pinned daemon, else DNS every 10 s until it resolves, which
\* takes an association; then the relay tasks and the supervisor are spawned.
GwLocate ==
    /\ phase = "locate"
    /\ phase' = IF joined /\ ap = "up" THEN "relay" ELSE "locate"
    /\ UNCHANGED <<ap, joined, lease, joinPause, idle, flaps>>

\* wifi_supervisor_task: every 5 s; associate again and wait for DHCP unless
\* the station is still connected.  A DHCP timeout is
\* only logged, the stack's own client goes on asking.
GwSupervise ==
    /\ phase = "relay"
    /\ joined' = (joined \/ ap # "down")
    /\ lease' = IF joined THEN lease ELSE ap = "up"
    /\ UNCHANGED <<phase, ap, joinPause, idle, flaps>>

\* The stack's DHCP client (gw_net_task).
GwLease ==
    /\ joined /\ ~lease /\ ap = "up"
    /\ lease' = TRUE
    /\ UNCHANGED <<phase, ap, joined, joinPause, idle, flaps>>

ApChanges ==
    /\ flaps < MaxFlaps /\ flaps' = flaps + 1
    /\ ap' \in {"down", "nodhcp", "up"} \ {ap}
    /\ joined' = (joined /\ ap' # "down")
    /\ lease' = (lease /\ ap' # "down")
    /\ UNCHANGED <<phase, joinPause, idle>>

----------------------------------------------------------------------------
UplinkInit ==
    /\ phase = "join" /\ ap \in {"down", "nodhcp", "up"}
    /\ joined = FALSE /\ lease = FALSE
    /\ joinPause = PauseBase /\ idle = 0 /\ flaps = 0

UplinkNext ==
    GwJoin \/ GwPause \/ GwLocate \/ GwSupervise \/ GwLease \/ ApChanges

UplinkSpec == UplinkInit /\ [][UplinkNext]_uplinkVars

\* Every loop of the gateway goes on.
GwRuns == GwJoin \/ GwPause \/ GwLocate \/ GwSupervise

UplinkFairness == WF_uplinkVars(GwRuns) /\ WF_uplinkVars(GwLease)

UplinkFair == UplinkSpec /\ UplinkFairness

----------------------------------------------------------------------------
(* Properties *)

Serves == phase = "relay" /\ joined /\ lease

\* Once it relays, the gateway outlives its access point: when that stays, the
\* supervisor task has it associated and addressed again.
GatewayRejoins == <>(phase = "relay") /\ <>[](ap = "up") => <>[]Serves

============================================================================
