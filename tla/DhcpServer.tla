----------------------------- MODULE DhcpServer -----------------------------
(***************************************************************************)
(* The DHCP server of the relay access point (DhcpServer::handle and its   *)
(* lease table, run by dhcp_task), with clients of RFC 2131 around it.     *)
(*                                                                         *)
(* An address is its index in the pool; a lease has the seconds it still   *)
(* runs, so `expires_at > now' is left > 0.  A client's requests arrive in *)
(* order and may be lost, as may the replies.  A reply to a request the    *)
(* client has given up carries another xid and is dropped, so it is never  *)
(* on its way here.  As RFC 2131 asks, the client counts its lease from    *)
(* the moment it sent the REQUEST.                                         *)
(***************************************************************************)
EXTENDS Naturals, Sequences

CONSTANTS
    Mac,         \* the clients
    PoolSize,    \* N, addresses in the pool
    LeaseSecs,   \* lease_secs, in ticks of the model
    Remembers,   \* clients that ask for their old address after a reboot
    MaxRequests  \* bound: requests of a client on their way

ASSUME DhcpAssumption ==
    /\ PoolSize \in Nat \ {0} /\ LeaseSecs \in Nat \ {0}
    /\ Remembers \subseteq Mac /\ MaxRequests \in Nat

Pool == 0 .. PoolSize - 1
NoIp == PoolSize               \* 0.0.0.0 or an absent option

VARIABLES
    leases,    \* leases[i]: {} or {[mac, left]}
    station,   \* station[c]: a station's DHCP client
    request,   \* request[c]: its messages on their way to the server
    inbox      \* inbox[c]: the server's answer on its way, as a set

dhcpVars == <<leases, station, request, inbox>>

Lease == [mac : Mac, left : 0 .. LeaseSecs]
Client ==
    [state : {"init", "selecting", "requesting", "bound", "renewing"},
     ip : Pool \cup {NoIp},      \* address requested or held
     old : Pool \cup {NoIp},     \* address remembered across a reboot
     left : 0 .. LeaseSecs,      \* of the lease held
     asked : 0 .. LeaseSecs]     \* of the lease requested

Request ==
    [type : {"DISCOVER", "REQUEST", "RELEASE"},
     mac : Mac, ip : Pool \cup {NoIp},
     current : BOOLEAN]          \* of the client's latest transaction
Reply == [type : {"OFFER", "ACK", "NAK"}, ip : Pool \cup {NoIp}]

NewClient ==
    [state |-> "init", ip |-> NoIp, old |-> NoIp, left |-> 0, asked |-> 0]

DhcpInit ==
    /\ leases = [i \in Pool |-> {}]
    /\ station = [c \in Mac |-> NewClient]
    /\ request = [c \in Mac |-> <<>>]
    /\ inbox = [c \in Mac |-> {}]

-----------------------------------------------------------------------------
(* The lease table.                                                        *)
Live(i) == \E l \in leases[i] : l.left > 0
FreeAddresses == {i \in Pool : ~Live(i)}
Lowest(S) == CHOOSE i \in S : \A j \in S : i <= j

(* find_lease: the first live lease of the client.                         *)
LeasesOf(c) == {i \in Pool : \E l \in leases[i] : l.mac = c /\ l.left > 0}

(* allocate: its lease, else the preferred address if free, else the first *)
(* free one; a set, empty when the pool is exhausted.                      *)
Allocate(c, preferred) ==
    IF LeasesOf(c) # {} THEN {Lowest(LeasesOf(c))}
    ELSE IF preferred \in FreeAddresses THEN {preferred}
    ELSE IF FreeAddresses # {} THEN {Lowest(FreeAddresses)}
    ELSE {}

Commit(i, c) == [leases EXCEPT ![i] = {[mac |-> c, left |-> LeaseSecs]}]

(* A plausible slip: a lease in its last second counts as expired.          *)
MayHaveEarly(i, c) == \A l \in leases[i] : l.mac = c \/ l.left <= 1

(* The lease of a REQUEST for address i, if it may have it.                *)
MayHave(i, c) == \A l \in leases[i] : l.mac = c \/ l.left = 0

-----------------------------------------------------------------------------
(* DhcpServer::handle, one request of client c.                            *)
Arrives(c, type) == request[c] # <<>> /\ Head(request[c]).type = type
Served(c) == request' = [request EXCEPT ![c] = Tail(@)]
Answer(c, type, i) ==
    inbox' = IF Head(request[c]).current
             THEN [inbox EXCEPT ![c] = {[type |-> type, ip |-> i]}]
             ELSE inbox

(* MSG_DISCOVER: an offer reserves nothing.                                *)
HandleDiscover(c) ==
    /\ Arrives(c, "DISCOVER") /\ Served(c)
    /\ LET idx == Allocate(c, Head(request[c]).ip) IN
       IF idx = {} THEN UNCHANGED inbox
       ELSE \E i \in idx : Answer(c, "OFFER", i)
    /\ UNCHANGED <<leases, station>>

(* MSG_REQUEST with an address of the pool (option 50 or ciaddr).          *)
HandleRequestFor(c) ==
    /\ Arrives(c, "REQUEST") /\ Served(c)
    /\ LET i == Head(request[c]).ip IN
       /\ i \in Pool
       /\ IF MayHave(i, c)
          THEN leases' = Commit(i, c) /\ Answer(c, "ACK", i)
          ELSE UNCHANGED leases /\ Answer(c, "NAK", NoIp)
    /\ UNCHANGED station

(* MSG_REQUEST without one.  A request for an address outside the pool     *)
(* is refused in the same place; no client of this pool sends one.         *)
HandleRequestAny(c) ==
    /\ Arrives(c, "REQUEST") /\ Served(c)
    /\ Head(request[c]).ip = NoIp
    /\ LET idx == Allocate(c, NoIp) IN
       IF idx = {} THEN UNCHANGED leases /\ Answer(c, "NAK", NoIp)
       ELSE \E i \in idx : leases' = Commit(i, c) /\ Answer(c, "ACK", i)
    /\ UNCHANGED station

(* MSG_RELEASE: no reply.                                                  *)
HandleRelease(c) ==
    /\ Arrives(c, "RELEASE") /\ Served(c)
    /\ leases' = IF LeasesOf(c) = {} THEN leases
                 ELSE [leases EXCEPT ![Lowest(LeasesOf(c))] = {}]
    /\ UNCHANGED <<station, inbox>>

Handle(c) == HandleDiscover(c) \/ HandleRequestFor(c)
             \/ HandleRequestAny(c) \/ HandleRelease(c)

-----------------------------------------------------------------------------
(* The clients (external).  Sending a message gives up the ones before it. *)
GivenUp(q) == [k \in DOMAIN q |-> [q[k] EXCEPT !.current = FALSE]]

SendRequest(c, type, ip) ==
    /\ Len(request[c]) < MaxRequests
    /\ request' = [request EXCEPT ![c] = Append(GivenUp(@),
         [type |-> type, mac |-> c, ip |-> ip, current |-> TRUE])]
    /\ inbox' = [inbox EXCEPT ![c] = {}]
    /\ UNCHANGED leases

Discover(c) ==
    /\ station[c].state \in {"init", "selecting"}
    /\ station' = [station EXCEPT ![c].state = "selecting"]
    /\ SendRequest(c, "DISCOVER", station[c].old)

ReceiveOffer(c) ==
    /\ station[c].state = "selecting"
    /\ \E r \in inbox[c] :
         /\ r.type = "OFFER"
         /\ station' = [station EXCEPT ![c].state = "requesting",
                         ![c].ip = r.ip, ![c].asked = LeaseSecs]
         /\ SendRequest(c, "REQUEST", r.ip)

(* INIT-REBOOT: ask for the remembered address at once.                    *)
RequestOld(c) ==
    /\ station[c].state = "init" /\ station[c].old # NoIp
    /\ station' = [station EXCEPT ![c].state = "requesting",
                    ![c].ip = station[c].old, ![c].asked = LeaseSecs]
    /\ SendRequest(c, "REQUEST", station[c].old)

ReceiveAck(c) ==
    /\ station[c].state \in {"requesting", "renewing"} /\ station[c].asked > 0
    /\ \E r \in inbox[c] :
         /\ r.type = "ACK"
         /\ station' = [station EXCEPT ![c].state = "bound", ![c].ip = r.ip,
              ![c].left = station[c].asked, ![c].asked = 0,
              ![c].old = IF c \in Remembers THEN r.ip ELSE NoIp]
    /\ inbox' = [inbox EXCEPT ![c] = {}]
    /\ UNCHANGED <<leases, request>>

ReceiveNak(c) ==
    /\ station[c].state \in {"requesting", "renewing"}
    /\ \E r \in inbox[c] : r.type = "NAK"
    /\ station' = [station EXCEPT ![c] = NewClient]
    /\ inbox' = [inbox EXCEPT ![c] = {}]
    /\ UNCHANGED <<leases, request>>

(* A bound client renews with ciaddr and no option, using the address      *)
(* while it waits.                                                         *)
Renew(c) ==
    /\ station[c].state = "bound"
    /\ station' = [station EXCEPT ![c].state = "renewing",
                                ![c].asked = LeaseSecs]
    /\ SendRequest(c, "REQUEST", station[c].ip)

Release(c) ==
    /\ station[c].state = "bound"
    /\ station' = [station EXCEPT ![c] = NewClient]
    /\ SendRequest(c, "RELEASE", NoIp)

(* A reboot, or a request nobody answered: back to the start.              *)
Restart(c) ==
    /\ station[c].state # "init"
    /\ station' = [station EXCEPT ![c] = [NewClient EXCEPT !.old = station[c].old]]
    /\ request' = [request EXCEPT ![c] = GivenUp(@)]
    /\ inbox' = [inbox EXCEPT ![c] = {}]
    /\ UNCHANGED leases

LoseRequest(c) ==
    /\ request[c] # <<>>
    /\ request' = [request EXCEPT ![c] = Tail(@)]
    /\ UNCHANGED <<leases, station, inbox>>

LoseReply(c) ==
    /\ inbox[c] # {}
    /\ inbox' = [inbox EXCEPT ![c] = {}]
    /\ UNCHANGED <<leases, station, request>>

-----------------------------------------------------------------------------
Holds(c) == station[c].state \in {"bound", "renewing"}
Less(n) == IF n = 0 THEN 0 ELSE n - 1

(* A second passes; a client whose lease runs out gives up its address.    *)
DhcpTick ==
    /\ leases' = [i \in Pool |->
         {[l EXCEPT !.left = Less(@)] : l \in leases[i]}]
    /\ station' = [c \in Mac |->
         IF Holds(c) /\ station[c].left <= 1
         THEN [NewClient EXCEPT !.old = station[c].old]
         ELSE [station[c] EXCEPT !.left = Less(@), !.asked = Less(@)]]
    /\ UNCHANGED <<request, inbox>>

ClientStep(c) == Discover(c) \/ ReceiveOffer(c) \/ RequestOld(c)
                 \/ ReceiveAck(c) \/ ReceiveNak(c) \/ Renew(c)
                 \/ Release(c) \/ Restart(c)

DhcpNext ==
    \/ DhcpTick
    \/ \E c \in Mac : Handle(c) \/ ClientStep(c) \/ LoseRequest(c)
                      \/ LoseReply(c)

DhcpSpec == DhcpInit /\ [][DhcpNext]_dhcpVars

-----------------------------------------------------------------------------
(* Every variable keeps its shape: an address has at most one lease, and a  *)
(* client at most one reply on its way.                                    *)
DhcpTypeOK ==
    /\ leases \in [Pool -> SUBSET Lease]
    /\ \A i \in Pool : \A l, m \in leases[i] : l = m
    /\ station \in [Mac -> Client]
    /\ request \in [Mac -> Seq(Request)]
    /\ inbox \in [Mac -> SUBSET Reply]
    /\ \A c \in Mac : \A r, s \in inbox[c] : r = s

(* No two stations use an address at the same time, although offers        *)
(* reserve nothing, requests and replies are lost, clients reboot, release *)
(* and come back, and leases run out.                                      *)
AddressesUnique ==
    \A c, d \in Mac :
      c # d /\ Holds(c) /\ Holds(d) => station[c].ip # station[d].ip

(* ... because the server's lease covers what the client believes: it is   *)
(* the client's own and does not run out earlier.                          *)
LeaseCoversClient ==
    \A c \in Mac : Holds(c) =>
      \E l \in leases[station[c].ip] : l.mac = c /\ l.left >= station[c].left
=============================================================================
