-------------------------- MODULE DhcpServerProofs --------------------------
(***************************************************************************)
(* DhcpServer keeps its stations apart, for every set of stations, pool    *)
(* size, lease time and length of the queue of requests.                   *)
(*                                                                         *)
(* AddressesUnique follows from LeaseCoversClient, which is not inductive: *)
(* an ACK on its way must already be covered by a lease, and no RELEASE of *)
(* the same client may be behind it.  DhcpInv says both, the second by way *)
(* of the xid: only the last message sent is answered, so that an answer   *)
(* on its way has an empty queue behind it.                                *)
(***************************************************************************)
EXTENDS DhcpServer, SequenceTheorems, WellFoundedInduction, TLAPS

\* The server has leased address i to c for at least n more seconds.
Covers(c, i, n) == \E l \in leases[i] : l.mac = c /\ l.left >= n

\* Only the last message of a client is answered.
QueueOK(c) ==
    /\ inbox[c] # {} => request[c] = <<>>
    /\ \A k \in 1 .. Len(request[c]) :
         request[c][k].current => k = Len(request[c])

\* An address in use is leased, and no RELEASE is on its way.
HolderOK(c) ==
    Holds(c) =>
      /\ station[c].left > 0 /\ station[c].ip \in Pool
      /\ \A k \in 1 .. Len(request[c]) : request[c][k].type = "REQUEST"
      /\ Covers(c, station[c].ip, station[c].left)

\* An address in an ACK is leased for as long as the client will count on it.
AckOK(c) ==
    \A r \in inbox[c] : r.type = "ACK" =>
      /\ r.ip \in Pool
      /\ station[c].asked > 0 => Covers(c, r.ip, station[c].asked)

ClientOK(c) == QueueOK(c) /\ HolderOK(c) /\ AckOK(c)

DhcpInv == DhcpTypeOK /\ \A c \in Mac : ClientOK(c)

-----------------------------------------------------------------------------
(* Operators *)

\* A set of addresses that is not empty has a lowest one, so find_lease and
\* allocate return an address of the set they search.
LEMMA LowestIn ==
    ASSUME NEW S \in SUBSET Pool, S # {}
    PROVE  Lowest(S) \in S
<1>1. S \subseteq Nat
  BY DhcpAssumption DEF Pool
<1>2. PICK i \in S : \A j \in S : ~(<<j, i>> \in OpToRel(<, Nat))
  BY <1>1, NatLessThanWellFounded, WFMin, Zenon
<1>3. \A j \in S : ~(j < i)
  BY <1>1, <1>2 DEF OpToRel
<1>4. \A j \in S : i <= j
  BY <1>1, <1>3
<1> QED
  BY <1>4, Zenon DEF Lowest

\* Giving up the queued messages leaves what they say alone.
LEMMA GivenUpIs ==
    ASSUME NEW q \in Seq(Request)
    PROVE  /\ GivenUp(q) \in Seq(Request)
           /\ Len(GivenUp(q)) = Len(q)
           /\ \A k \in 1 .. Len(q) :
                GivenUp(q)[k].type = q[k].type /\ ~GivenUp(q)[k].current
<1>1. Len(q) \in Nat /\ DOMAIN q = 1 .. Len(q)
  BY LenProperties
<1>2. \A k \in 1 .. Len(q) : q[k] \in Request
  BY ElementOfSeq
<1>3. \A k \in 1 .. Len(q) : [q[k] EXCEPT !.current = FALSE] \in Request
  BY <1>2 DEF Request
<1>4. GivenUp(q) = [k \in 1 .. Len(q) |-> [q[k] EXCEPT !.current = FALSE]]
  BY <1>1 DEF GivenUp
<1>5. GivenUp(q) \in Seq(Request)
  <2>1. GivenUp(q) \in [1 .. Len(q) -> Request]
    BY <1>3, <1>4, Zenon
  <2> QED
    BY <1>1, <2>1
<1>6. Len(GivenUp(q)) = Len(q)
  BY <1>1, <1>4, <1>5, LenProperties
<1>7. ASSUME NEW k \in 1 .. Len(q)
      PROVE  GivenUp(q)[k].type = q[k].type /\ ~GivenUp(q)[k].current
  BY <1>2, <1>4, <1>7 DEF Request
<1> QED
  BY <1>5, <1>6, <1>7

\* What allocate returns is a live lease of the client or a free address; in
\* either case no other client has it.
LEMMA AllocateMayHave ==
    ASSUME DhcpTypeOK, NEW c \in Mac, NEW ip, NEW i \in Allocate(c, ip)
    PROVE  i \in Pool /\ MayHave(i, c)
<1>1. CASE LeasesOf(c) # {}
  <2>1. i \in LeasesOf(c)
    BY <1>1, LowestIn DEF Allocate, LeasesOf
  <2> QED
    BY <2>1 DEF LeasesOf, MayHave, DhcpTypeOK
<1>2. CASE LeasesOf(c) = {}
  <2>1. i \in FreeAddresses
    BY <1>2, LowestIn DEF Allocate, FreeAddresses
  <2>2. \A l \in leases[i] : l.left \in Nat
    BY <2>1, DhcpAssumption DEF DhcpTypeOK, Lease, FreeAddresses
  <2> QED
    BY <2>1, <2>2 DEF FreeAddresses, Live, MayHave
<1> QED
  BY <1>1, <1>2

\* Committing an address the client may have takes nobody's cover away, and gives
\* the client full cover.
LEMMA CommitCovers ==
    ASSUME DhcpTypeOK, NEW c \in Mac, NEW i \in Pool, MayHave(i, c), leases' = Commit(i, c)
    PROVE  /\ Covers(c, i, LeaseSecs)'
           /\ \A d \in Mac, j \in Pool, n \in 1 .. LeaseSecs :
                Covers(d, j, n) => Covers(d, j, n)'
<1> DEFINE L == [mac |-> c, left |-> LeaseSecs]
<1>0. LeaseSecs \in Nat
  BY DhcpAssumption
<1>1. leases'[i] = {L} /\ \A j \in Pool : j # i => leases'[j] = leases[j]
  BY DEF Commit, DhcpTypeOK
<1>2. Covers(c, i, LeaseSecs)'
  BY <1>0, <1>1 DEF Covers
<1>3. ASSUME NEW d \in Mac, NEW j \in Pool, NEW n \in 1 .. LeaseSecs, Covers(d, j, n)
      PROVE  Covers(d, j, n)'
  <2>1. CASE j # i
    BY <1>1, <1>3, <2>1 DEF Covers
  <2>2. CASE j = i
    <3>1. PICK l \in leases[i] : l.mac = d /\ l.left >= n
      BY <1>3, <2>2 DEF Covers
    <3>2. l.left # 0
      BY <3>1 DEF DhcpTypeOK, Lease
    <3>3. d = c
      BY <3>1, <3>2 DEF MayHave
    <3>4. LeaseSecs >= n
      BY <1>0
    <3>5. L \in leases'[j] /\ L.mac = d /\ L.left >= n
      BY <1>1, <2>2, <3>3, <3>4
    <3> HIDE DEF L
    <3> QED
      BY <3>5 DEF Covers
  <2> QED
    BY <2>1, <2>2
<1> QED
  BY <1>2, <1>3

-----------------------------------------------------------------------------
(* Steps *)

\* A client that a step does not touch stays as it is, if it loses no cover.
LEMMA Untouched ==
    ASSUME DhcpTypeOK, NEW d \in Mac, ClientOK(d),
           station'[d] = station[d], request'[d] = request[d], inbox'[d] = inbox[d],
           \A j \in Pool, n \in 1 .. LeaseSecs : Covers(d, j, n) => Covers(d, j, n)'
    PROVE  ClientOK(d)'
<1>1. station[d] \in Client /\ LeaseSecs \in Nat
  BY DhcpAssumption DEF DhcpTypeOK
<1>2. QueueOK(d)'
  BY DEF ClientOK, QueueOK
<1>3. HolderOK(d)'
  <2> SUFFICES ASSUME Holds(d)' PROVE HolderOK(d)'
    BY DEF HolderOK
  <2>1. Holds(d)
    BY DEF Holds
  <2>2. station[d].left \in 1 .. LeaseSecs /\ station[d].ip \in Pool
        /\ Covers(d, station[d].ip, station[d].left)
    BY <1>1, <2>1 DEF ClientOK, HolderOK, Client
  <2>3. Covers(d, station[d].ip, station[d].left)'
    BY <2>2 DEF Covers
  <2> QED
    BY <2>1, <2>3 DEF ClientOK, HolderOK
<1>4. AckOK(d)'
  <2> SUFFICES ASSUME NEW r \in inbox[d], r.type = "ACK"
               PROVE  r.ip \in Pool /\ (station[d].asked > 0 => Covers(d, r.ip, station[d].asked)')
    BY DEF AckOK, Covers
  <2>1. r.ip \in Pool /\ (station[d].asked > 0 => Covers(d, r.ip, station[d].asked))
    BY DEF ClientOK, AckOK
  <2>2. station[d].asked > 0 => station[d].asked \in 1 .. LeaseSecs
    BY <1>1 DEF Client
  <2> QED
    BY <2>1, <2>2 DEF Covers
<1> QED
  BY <1>2, <1>3, <1>4 DEF ClientOK

\* Serving the first message of a client's queue: the answer, if any, has an
\* empty queue behind it.
LEMMA ServedQueue ==
    ASSUME DhcpTypeOK, NEW c \in Mac, QueueOK(c), request[c] # <<>>, Served(c),
           inbox'[c] # {} => Head(request[c]).current
    PROVE  /\ QueueOK(c)'
           /\ request' \in [Mac -> Seq(Request)]
           /\ \A d \in Mac \ {c} : request'[d] = request[d]
           /\ \A k \in 1 .. Len(request'[c]) : \E m \in 1 .. Len(request[c]) :
                request'[c][k] = request[c][m]
<1> DEFINE q == request[c]
<1>1. q \in Seq(Request) /\ Len(q) \in Nat /\ Len(q) # 0
  BY EmptySeq, LenProperties DEF DhcpTypeOK
<1>2. /\ Tail(q) \in Seq(Request) /\ Len(Tail(q)) = Len(q) - 1
      /\ \A k \in 1 .. Len(q) - 1 : Tail(q)[k] = q[k + 1]
      /\ Head(q) = q[1]
  BY <1>1, HeadTailProperties
<1>3. /\ request'[c] = Tail(q) /\ request' \in [Mac -> Seq(Request)]
      /\ \A d \in Mac \ {c} : request'[d] = request[d]
  BY <1>2 DEF Served, DhcpTypeOK
<1>4. inbox'[c] # {} => request'[c] = <<>>
  <2> SUFFICES ASSUME inbox'[c] # {} PROVE Tail(q) = <<>>
    BY <1>3
  <2>1. 1 \in 1 .. Len(q)
    BY <1>1
  <2>2. 1 = Len(q)
    BY <1>2, <2>1, Zenon DEF QueueOK
  <2>3. Len(Tail(q)) = 0
    BY <1>2, <2>2
  <2> QED
    BY <1>2, <2>3, EmptySeq, Zenon
<1>5. ASSUME NEW k \in 1 .. Len(request'[c])
      PROVE  /\ request'[c][k] = q[k + 1] /\ k + 1 \in 1 .. Len(q)
             /\ request'[c][k].current => k = Len(request'[c])
  BY <1>1, <1>2, <1>3 DEF QueueOK
<1> QED
  BY <1>3, <1>4, <1>5 DEF QueueOK

\* A step of the server that answers only a current message, an ACK only with the
\* address covered, and takes cover only from a client that releases it.
LEMMA ServerStep ==
    ASSUME DhcpInv, NEW c \in Mac, request[c] # <<>>, Served(c), station' = station,
           DhcpTypeOK', \A d \in Mac \ {c} : inbox'[d] = inbox[d],
           inbox'[c] # {} => Head(request[c]).current,
           \A r \in inbox'[c] : r.type = "ACK" => r.ip \in Pool /\ Covers(c, r.ip, LeaseSecs)',
           \A d \in Mac, j \in Pool, n \in 1 .. LeaseSecs :
             (d # c \/ Holds(c)) /\ Covers(d, j, n) => Covers(d, j, n)'
    PROVE  DhcpInv'
<1>0. DhcpTypeOK /\ ClientOK(c) /\ QueueOK(c) /\ LeaseSecs \in Nat
  BY DhcpAssumption DEF DhcpInv, ClientOK
<1>1. /\ QueueOK(c)' /\ \A d \in Mac \ {c} : request'[d] = request[d]
      /\ \A k \in 1 .. Len(request'[c]) : \E m \in 1 .. Len(request[c]) :
           request'[c][k] = request[c][m]
  BY <1>0, ServedQueue
<1>2. ASSUME NEW d \in Mac, d # c PROVE ClientOK(d)'
  BY <1>0, <1>1, <1>2, Untouched DEF DhcpInv
<1>3. HolderOK(c)'
  <2> SUFFICES ASSUME Holds(c) PROVE HolderOK(c)'
    BY DEF HolderOK, Holds
  <2>1. station[c].left \in 1 .. LeaseSecs /\ station[c].ip \in Pool
    BY <1>0 DEF ClientOK, HolderOK, DhcpTypeOK, Client
  <2>2. Covers(c, station[c].ip, station[c].left)'
    BY <1>0, <2>1 DEF ClientOK, HolderOK, Covers
  <2>3. \A k \in 1 .. Len(request'[c]) : request'[c][k].type = "REQUEST"
    BY <1>0, <1>1 DEF ClientOK, HolderOK
  <2> QED
    BY <2>1, <2>2, <2>3 DEF HolderOK
<1>4. AckOK(c)'
  <2> SUFFICES ASSUME NEW r \in inbox'[c], r.type = "ACK"
               PROVE  r.ip \in Pool /\ Covers(c, r.ip, station[c].asked)'
    BY DEF AckOK
  <2>1. PICK l \in leases'[r.ip] : l.mac = c /\ l.left >= LeaseSecs
    BY DEF Covers
  <2>2. station[c].asked \in 0 .. LeaseSecs /\ l.left \in 0 .. LeaseSecs
    BY <1>0 DEF DhcpTypeOK, Client, Lease
  <2>3. l.left >= station[c].asked
    BY <1>0, <2>1, <2>2
  <2> QED
    BY <2>1, <2>3 DEF Covers
<1> QED
  BY <1>1, <1>2, <1>3, <1>4 DEF DhcpInv, ClientOK

\* DhcpServer::handle
LEMMA HandleKeeps ==
    ASSUME DhcpInv, NEW c \in Mac, Handle(c)
    PROVE  DhcpInv'
<1> DEFINE m == Head(request[c])
<1>0. /\ DhcpTypeOK /\ ClientOK(c) /\ QueueOK(c) /\ HolderOK(c)
      /\ LeaseSecs \in Nat /\ LeaseSecs \in 0 .. LeaseSecs
  BY DhcpAssumption DEF DhcpInv, ClientOK
<1>1. request[c] # <<>> /\ Served(c) /\ station' = station
  BY DEF Handle, HandleDiscover, HandleRequestFor, HandleRequestAny, HandleRelease, Arrives
<1>2. inbox[c] = {} /\ m \in Request
  <2>1. Len(request[c]) # 0 /\ request[c] \in Seq(Request)
    BY <1>0, <1>1, EmptySeq DEF DhcpTypeOK
  <2> QED
    BY <1>0, <1>1, <2>1, HeadTailProperties DEF QueueOK
<1>3. request' \in [Mac -> Seq(Request)]
  <2> QED
    BY <1>0, <1>1, HeadTailProperties DEF Served, DhcpTypeOK
\* What an answer does to the inbox.
<1>4. ASSUME NEW type \in {"OFFER", "ACK", "NAK"}, NEW i \in Pool \cup {NoIp},
             Answer(c, type, i)
      PROVE  /\ inbox' \in [Mac -> SUBSET Reply]
             /\ \A d \in Mac : \A r, t \in inbox'[d] : r = t
             /\ \A d \in Mac \ {c} : inbox'[d] = inbox[d]
             /\ inbox'[c] # {} => m.current
             /\ \A r \in inbox'[c] : r.type = type /\ r.ip = i
  <2>1. [type |-> type, ip |-> i] \in Reply
    BY DEF Reply
  <2> QED
    BY <1>0, <1>2, <1>4, <2>1 DEF Answer, DhcpTypeOK
\* What a commit does to the lease table.
<1>5. ASSUME NEW i \in Pool, leases' = Commit(i, c)
      PROVE  /\ leases' \in [Pool -> SUBSET Lease]
             /\ \A j \in Pool : \A l, k \in leases'[j] : l = k
  <2>1. [mac |-> c, left |-> LeaseSecs] \in Lease
    BY <1>0 DEF Lease
  <2> QED
    BY <1>0, <1>5, <2>1 DEF Commit, DhcpTypeOK
<1>6. CASE HandleDiscover(c)
  <2>1. leases' = leases
    BY <1>6 DEF HandleDiscover
  <2>2. \A d \in Mac, j \in Pool, n \in 1 .. LeaseSecs : Covers(d, j, n) => Covers(d, j, n)'
    BY <2>1 DEF Covers
  <2>3. CASE Allocate(c, m.ip) = {}
    <3>1. inbox' = inbox
      BY <1>6, <2>3 DEF HandleDiscover
    <3>2. DhcpTypeOK'
      BY <1>0, <1>1, <1>3, <2>1, <3>1 DEF DhcpTypeOK
    <3> QED
      BY <1>1, <1>2, <2>2, <3>1, <3>2, ServerStep
  <2>4. CASE Allocate(c, m.ip) # {}
    <3>1. PICK i \in Allocate(c, m.ip) : Answer(c, "OFFER", i)
      BY <1>6, <2>4 DEF HandleDiscover
    <3>2. i \in Pool
      BY <1>0, AllocateMayHave
    <3>3. /\ inbox' \in [Mac -> SUBSET Reply]
          /\ \A d \in Mac : \A r, t \in inbox'[d] : r = t
          /\ \A d \in Mac \ {c} : inbox'[d] = inbox[d]
          /\ inbox'[c] # {} => m.current
          /\ \A r \in inbox'[c] : r.type = "OFFER"
      BY <1>4, <3>1, <3>2
    <3>4. DhcpTypeOK'
      BY <1>0, <1>1, <1>3, <2>1, <3>3 DEF DhcpTypeOK
    <3> QED
      BY <1>1, <2>2, <3>3, <3>4, ServerStep
  <2> QED
    BY <2>3, <2>4
\* An ACK with its commit.
<1>7. ASSUME NEW i \in Pool, MayHave(i, c), leases' = Commit(i, c), Answer(c, "ACK", i)
      PROVE  DhcpInv'
  <2>1. /\ inbox' \in [Mac -> SUBSET Reply]
        /\ \A d \in Mac : \A r, t \in inbox'[d] : r = t
        /\ \A d \in Mac \ {c} : inbox'[d] = inbox[d]
        /\ inbox'[c] # {} => m.current
        /\ \A r \in inbox'[c] : r.type = "ACK" /\ r.ip = i
    BY <1>4, <1>7
  <2>2. DhcpTypeOK'
    BY <1>0, <1>1, <1>3, <1>5, <1>7, <2>1 DEF DhcpTypeOK
  <2>3. /\ Covers(c, i, LeaseSecs)'
        /\ \A d \in Mac, j \in Pool, n \in 1 .. LeaseSecs :
             Covers(d, j, n) => Covers(d, j, n)'
    BY <1>0, <1>7, CommitCovers
  <2>4. \A r \in inbox'[c] : r.ip \in Pool /\ Covers(c, r.ip, LeaseSecs)'
    BY <2>1, <2>3 DEF Covers
  <2> QED
    BY <1>1, <2>1, <2>2, <2>3, <2>4, ServerStep
\* A NAK changes no lease.
<1>8. ASSUME leases' = leases, Answer(c, "NAK", NoIp)
      PROVE  DhcpInv'
  <2>1. /\ inbox' \in [Mac -> SUBSET Reply]
        /\ \A d \in Mac : \A r, t \in inbox'[d] : r = t
        /\ \A d \in Mac \ {c} : inbox'[d] = inbox[d]
        /\ inbox'[c] # {} => m.current
        /\ \A r \in inbox'[c] : r.type = "NAK"
    BY <1>4, <1>8
  <2>2. DhcpTypeOK'
    BY <1>0, <1>1, <1>3, <1>8, <2>1 DEF DhcpTypeOK
  <2>3. \A d \in Mac, j \in Pool, n \in 1 .. LeaseSecs : Covers(d, j, n) => Covers(d, j, n)'
    BY <1>8 DEF Covers
  <2> QED
    BY <1>1, <2>1, <2>2, <2>3, ServerStep
<1>9. CASE HandleRequestFor(c)
  BY <1>7, <1>8, <1>9 DEF HandleRequestFor
<1>10. CASE HandleRequestAny(c)
  <2>1. CASE Allocate(c, NoIp) = {}
    BY <1>8, <1>10, <2>1 DEF HandleRequestAny
  <2>2. CASE Allocate(c, NoIp) # {}
    <3>1. PICK i \in Allocate(c, NoIp) : leases' = Commit(i, c) /\ Answer(c, "ACK", i)
      BY <1>10, <2>2 DEF HandleRequestAny
    <3>2. i \in Pool /\ MayHave(i, c)
      BY <1>0, AllocateMayHave
    <3> QED
      BY <1>7, <3>1, <3>2
  <2> QED
    BY <2>1, <2>2
<1>11. CASE HandleRelease(c)
  <2>1. inbox' = inbox
    BY <1>11 DEF HandleRelease
  <2>2. ~Holds(c)
    <3>1. Len(request[c]) # 0 /\ request[c] \in Seq(Request)
      BY <1>0, <1>1, EmptySeq DEF DhcpTypeOK
    <3>2. m = request[c][1] /\ 1 \in 1 .. Len(request[c])
      BY <1>1, <3>1, HeadTailProperties, LenProperties
    <3>3. m.type = "RELEASE"
      BY <1>11 DEF HandleRelease, Arrives
    <3> QED
      BY <1>0, <3>2, <3>3 DEF HolderOK
  <2>3. /\ leases' \in [Pool -> SUBSET Lease]
        /\ \A j \in Pool : \A l, k \in leases'[j] : l = k
        /\ \A d \in Mac \ {c}, j \in Pool, n \in 1 .. LeaseSecs :
             Covers(d, j, n) => Covers(d, j, n)'
    <3>1. CASE LeasesOf(c) = {}
      BY <1>0, <1>11, <3>1 DEF HandleRelease, DhcpTypeOK, Covers
    <3>2. CASE LeasesOf(c) # {}
      <4> DEFINE i == Lowest(LeasesOf(c))
      <4>1. i \in LeasesOf(c)
        BY <3>2, LowestIn DEF LeasesOf
      <4>2. i \in Pool /\ \A l \in leases[i] : l.mac = c
        BY <1>0, <4>1 DEF LeasesOf, DhcpTypeOK
      <4> HIDE DEF i
      <4>3. leases' = [leases EXCEPT ![i] = {}]
        BY <1>11, <3>2 DEF HandleRelease, i
      <4> QED
        BY <1>0, <4>2, <4>3 DEF DhcpTypeOK, Covers
    <3> QED
      BY <3>1, <3>2
  <2>4. DhcpTypeOK'
    BY <1>0, <1>1, <1>3, <2>1, <2>3 DEF DhcpTypeOK
  <2> QED
    BY <1>1, <1>2, <2>1, <2>2, <2>3, <2>4, ServerStep
<1> QED
  BY <1>6, <1>9, <1>10, <1>11 DEF Handle

\* A client sends: its own message is the last, the only one that is answered.
LEMMA SentQueue ==
    ASSUME DhcpTypeOK, NEW c \in Mac, NEW type \in {"DISCOVER", "REQUEST", "RELEASE"},
           NEW ip \in Pool \cup {NoIp}, SendRequest(c, type, ip)
    PROVE  /\ request' \in [Mac -> Seq(Request)]
           /\ inbox' \in [Mac -> SUBSET Reply]
           /\ leases' = leases /\ inbox'[c] = {}
           /\ \A d \in Mac \ {c} : request'[d] = request[d] /\ inbox'[d] = inbox[d]
           /\ QueueOK(c)'
           /\ \A k \in 1 .. Len(request'[c]) :
                \/ request'[c][k].type = type
                \/ \E j \in 1 .. Len(request[c]) : request'[c][k].type = request[c][j].type
<1> DEFINE q == request[c]
           g == GivenUp(q)
           m == [type |-> type, mac |-> c, ip |-> ip, current |-> TRUE]
<1>1. q \in Seq(Request) /\ m \in Request
  BY DEF DhcpTypeOK, Request
<1>2. /\ g \in Seq(Request) /\ Len(g) = Len(q) /\ Len(g) \in Nat
      /\ \A k \in 1 .. Len(q) : g[k].type = q[k].type /\ ~g[k].current
  BY <1>1, GivenUpIs, LenProperties
<1>3. request' = [request EXCEPT ![c] = Append(g, m)]
  BY DEF SendRequest
<1> HIDE DEF g, m
<1>4. /\ Append(g, m) \in Seq(Request) /\ Len(Append(g, m)) = Len(g) + 1
      /\ \A k \in 1 .. Len(g) : Append(g, m)[k] = g[k]
      /\ Append(g, m)[Len(g) + 1] = m
  BY <1>1, <1>2, AppendProperties
<1>5. /\ request' \in [Mac -> Seq(Request)] /\ request'[c] = Append(g, m)
      /\ \A d \in Mac \ {c} : request'[d] = request[d]
  BY <1>3, <1>4 DEF DhcpTypeOK
<1>6. /\ inbox' \in [Mac -> SUBSET Reply] /\ inbox'[c] = {} /\ leases' = leases
      /\ \A d \in Mac \ {c} : inbox'[d] = inbox[d]
  BY DEF SendRequest, DhcpTypeOK
<1>7. ASSUME NEW k \in 1 .. Len(request'[c])
      PROVE  /\ \/ request'[c][k].type = type
                \/ \E j \in 1 .. Len(q) : request'[c][k].type = q[j].type
             /\ request'[c][k].current => k = Len(request'[c])
  <2>1. Len(request'[c]) = Len(g) + 1
    BY <1>4, <1>5
  <2>2. CASE k = Len(g) + 1
    BY <1>4, <1>5, <2>1, <2>2 DEF m
  <2>3. CASE k \in 1 .. Len(g)
    BY <1>2, <1>4, <1>5, <2>3
  <2> QED
    BY <1>2, <2>1, <2>2, <2>3
<1> QED
  BY <1>5, <1>6, <1>7 DEF QueueOK

\* A step of one client that leaves the leases alone leaves the others alone.
LEMMA ClientStepKeeps ==
    ASSUME DhcpInv, NEW c \in Mac, leases' = leases, DhcpTypeOK', ClientOK(c)',
           \A d \in Mac \ {c} : /\ station'[d] = station[d] /\ request'[d] = request[d]
                                /\ inbox'[d] = inbox[d]
    PROVE  DhcpInv'
<1>1. ASSUME NEW d \in Mac, d # c PROVE ClientOK(d)'
  <2>1. \A j \in Pool, n \in 1 .. LeaseSecs : Covers(d, j, n) => Covers(d, j, n)'
    BY DEF Covers
  <2> QED
    BY <1>1, <2>1, Untouched DEF DhcpInv
<1> QED
  BY <1>1 DEF DhcpInv

\* A client that sends a message and holds no address afterwards.
LEMMA SendKeeps ==
    ASSUME DhcpInv, NEW c \in Mac, NEW type \in {"DISCOVER", "REQUEST", "RELEASE"},
           NEW ip \in Pool \cup {NoIp}, SendRequest(c, type, ip),
           NEW s \in Client, station' = [station EXCEPT ![c] = s],
           s.state \notin {"bound", "renewing"}
    PROVE  DhcpInv'
<1>0. DhcpTypeOK
  BY DEF DhcpInv
<1>1. /\ request' \in [Mac -> Seq(Request)] /\ inbox' \in [Mac -> SUBSET Reply]
      /\ leases' = leases /\ inbox'[c] = {} /\ QueueOK(c)'
      /\ \A d \in Mac \ {c} : request'[d] = request[d] /\ inbox'[d] = inbox[d]
  BY <1>0, SentQueue
<1>2. station' \in [Mac -> Client] /\ station'[c] = s
      /\ \A d \in Mac \ {c} : station'[d] = station[d]
  BY <1>0 DEF DhcpTypeOK
<1>3. DhcpTypeOK'
  <2>1. \A d \in Mac : \A r, t \in inbox'[d] : r = t
    BY <1>0, <1>1 DEF DhcpTypeOK
  <2>2. leases' \in [Pool -> SUBSET Lease] /\ \A i \in Pool : \A l, m \in leases'[i] : l = m
    BY <1>0, <1>1 DEF DhcpTypeOK
  <2> QED
    BY <1>1, <1>2, <2>1, <2>2 DEF DhcpTypeOK
<1>4. ClientOK(c)'
  BY <1>1, <1>2 DEF ClientOK, HolderOK, AckOK, Holds
<1> QED
  BY <1>1, <1>2, <1>3, <1>4, ClientStepKeeps

\* A client that gives up what it was doing.
LEMMA ResetKeeps ==
    ASSUME DhcpInv, NEW c \in Mac, NEW s \in Client, station' = [station EXCEPT ![c] = s],
           s.state = "init", inbox' = [inbox EXCEPT ![c] = {}], leases' = leases,
           request' \in [Mac -> Seq(Request)], QueueOK(c)',
           \A d \in Mac \ {c} : request'[d] = request[d]
    PROVE  DhcpInv'
<1>0. DhcpTypeOK
  BY DEF DhcpInv
<1>1. /\ station' \in [Mac -> Client] /\ station'[c] = s /\ inbox'[c] = {}
      /\ \A d \in Mac \ {c} : station'[d] = station[d] /\ inbox'[d] = inbox[d]
  BY <1>0 DEF DhcpTypeOK
<1>2. DhcpTypeOK'
  BY <1>0, <1>1 DEF DhcpTypeOK
<1>3. ClientOK(c)'
  BY <1>1 DEF ClientOK, HolderOK, AckOK, Holds
<1> QED
  BY <1>1, <1>2, <1>3, ClientStepKeeps

\* The clients.
LEMMA ClientKeeps ==
    ASSUME DhcpInv, NEW c \in Mac, ClientStep(c)
    PROVE  DhcpInv'
<1>0. DhcpTypeOK /\ ClientOK(c) /\ QueueOK(c) /\ HolderOK(c) /\ AckOK(c)
  BY DEF DhcpInv, ClientOK
<1>1. station[c] \in Client /\ request[c] \in Seq(Request) /\ inbox[c] \in SUBSET Reply
  BY <1>0 DEF DhcpTypeOK
<1>2. LeaseSecs \in 0 .. LeaseSecs /\ 0 \in 0 .. LeaseSecs /\ NoIp \in Pool \cup {NoIp}
  BY DhcpAssumption
<1>3. NewClient \in Client /\ NewClient.state = "init"
      /\ [NewClient EXCEPT !.old = station[c].old] \in Client
      /\ [NewClient EXCEPT !.old = station[c].old].state = "init"
  BY <1>1, <1>2 DEF NewClient, Client
<1>4. CASE Discover(c)
  <2> DEFINE s == [station[c] EXCEPT !.state = "selecting"]
  <2>1. s \in Client /\ s.state = "selecting" /\ station[c].old \in Pool \cup {NoIp}
    BY <1>1 DEF Client
  <2>2. station' = [station EXCEPT ![c] = s]
    BY <1>4 DEF Discover
  <2>3. SendRequest(c, "DISCOVER", station[c].old)
    BY <1>4 DEF Discover
  <2> HIDE DEF s
  <2> QED
    BY <2>1, <2>2, <2>3, SendKeeps
<1>5. CASE ReceiveOffer(c)
  <2>1. PICK r \in inbox[c] :
          /\ station' = [station EXCEPT ![c].state = "requesting",
                           ![c].ip = r.ip, ![c].asked = LeaseSecs]
          /\ SendRequest(c, "REQUEST", r.ip)
    BY <1>5 DEF ReceiveOffer
  <2> DEFINE s == [station[c] EXCEPT !.state = "requesting", !.ip = r.ip, !.asked = LeaseSecs]
  <2>2. r.ip \in Pool \cup {NoIp}
    BY <1>1 DEF Reply
  <2>3. s \in Client /\ s.state = "requesting"
    BY <1>1, <1>2, <2>2 DEF Client
  <2>4. station' = [station EXCEPT ![c] = s]
    BY <1>0, <2>1 DEF DhcpTypeOK
  <2> HIDE DEF s
  <2> QED
    BY <2>1, <2>2, <2>3, <2>4, SendKeeps
<1>6. CASE RequestOld(c)
  <2> DEFINE s == [station[c] EXCEPT !.state = "requesting", !.ip = station[c].old,
                                     !.asked = LeaseSecs]
  <2>1. station[c].old \in Pool \cup {NoIp}
    BY <1>1 DEF Client
  <2>2. s \in Client /\ s.state = "requesting"
    BY <1>1, <1>2, <2>1 DEF Client
  <2>3. station' = [station EXCEPT ![c] = s]
    BY <1>0, <1>6 DEF RequestOld, DhcpTypeOK
  <2>4. SendRequest(c, "REQUEST", station[c].old)
    BY <1>6 DEF RequestOld
  <2> HIDE DEF s
  <2> QED
    BY <2>1, <2>2, <2>3, <2>4, SendKeeps
<1>7. CASE ReceiveAck(c)
  <2>1. PICK r \in inbox[c] :
          /\ r.type = "ACK"
          /\ station' = [station EXCEPT ![c].state = "bound", ![c].ip = r.ip,
               ![c].left = station[c].asked, ![c].asked = 0,
               ![c].old = IF c \in Remembers THEN r.ip ELSE NoIp]
    BY <1>7 DEF ReceiveAck
  <2> DEFINE s == [station[c] EXCEPT !.state = "bound", !.ip = r.ip, !.left = station[c].asked,
                     !.asked = 0, !.old = IF c \in Remembers THEN r.ip ELSE NoIp]
  <2>2. station[c].asked > 0 /\ station[c].asked \in 0 .. LeaseSecs
    BY <1>1, <1>7 DEF ReceiveAck, Client
  <2>3. r.ip \in Pool /\ Covers(c, r.ip, station[c].asked) /\ request[c] = <<>>
    BY <1>0, <2>1, <2>2 DEF AckOK, QueueOK
  <2>4. /\ s \in Client /\ s.state = "bound" /\ s.ip = r.ip
        /\ s.left = station[c].asked /\ s.asked = 0
    BY <1>1, <1>2, <2>2, <2>3 DEF Client
  <2>5. station' = [station EXCEPT ![c] = s]
    BY <1>0, <2>1, ZenonT(40) DEF DhcpTypeOK
  <2> HIDE DEF s
  <2>6. inbox' = [inbox EXCEPT ![c] = {}] /\ leases' = leases /\ request' = request
    BY <1>7 DEF ReceiveAck
  <2>7. /\ station' \in [Mac -> Client] /\ station'[c] = s /\ inbox'[c] = {}
        /\ inbox' \in [Mac -> SUBSET Reply]
        /\ \A d \in Mac : \A r1, r2 \in inbox'[d] : r1 = r2
        /\ \A d \in Mac \ {c} : station'[d] = station[d] /\ inbox'[d] = inbox[d]
    BY <1>0, <2>4, <2>5, <2>6 DEF DhcpTypeOK
  <2>8. DhcpTypeOK'
    <3>1. /\ leases' \in [Pool -> SUBSET Lease] /\ request' \in [Mac -> Seq(Request)]
          /\ \A i \in Pool : \A l, m \in leases'[i] : l = m
      BY <1>0, <2>6 DEF DhcpTypeOK
    <3> QED
      BY <2>7, <3>1 DEF DhcpTypeOK
  <2>9. QueueOK(c)' /\ AckOK(c)'
    BY <1>0, <2>6, <2>7 DEF QueueOK, AckOK
  <2>10. HolderOK(c)'
    <3>1. station'[c].ip = r.ip /\ station'[c].left = station[c].asked
      BY <2>4, <2>7
    <3>2. \E l \in leases'[station'[c].ip] : l.mac = c /\ l.left >= station'[c].left
      BY <2>3, <2>6, <3>1 DEF Covers
    <3>3. Len(request'[c]) = 0
      BY <2>3, <2>6
    <3> QED
      BY <2>2, <2>3, <3>1, <3>2, <3>3 DEF HolderOK, Covers
  <2> QED
    BY <2>6, <2>7, <2>8, <2>9, <2>10, ClientStepKeeps DEF ClientOK
<1>8. CASE ReceiveNak(c)
  <2>1. /\ station' = [station EXCEPT ![c] = NewClient] /\ inbox' = [inbox EXCEPT ![c] = {}]
        /\ leases' = leases /\ request' = request
    BY <1>8 DEF ReceiveNak
  <2>2. request' \in [Mac -> Seq(Request)] /\ QueueOK(c)'
    BY <1>0, <2>1 DEF DhcpTypeOK, QueueOK
  <2> QED
    BY <1>3, <2>1, <2>2, ResetKeeps
<1>9. CASE Renew(c)
  <2> DEFINE s == [station[c] EXCEPT !.state = "renewing", !.asked = LeaseSecs]
  <2>1. station' = [station EXCEPT ![c] = s]
    BY <1>0, <1>9 DEF Renew, DhcpTypeOK
  <2>2. /\ s \in Client /\ s.state = "renewing" /\ s.ip = station[c].ip
        /\ s.left = station[c].left
    BY <1>1, <1>2 DEF Client
  <2> HIDE DEF s
  <2>3. Holds(c)
    BY <1>9 DEF Renew, Holds
  <2>4. station[c].ip \in Pool \cup {NoIp} /\ SendRequest(c, "REQUEST", station[c].ip)
    BY <1>1, <1>9 DEF Renew, Client
  <2>5. /\ request' \in [Mac -> Seq(Request)] /\ inbox' \in [Mac -> SUBSET Reply]
        /\ leases' = leases /\ inbox'[c] = {} /\ QueueOK(c)'
        /\ \A d \in Mac \ {c} : request'[d] = request[d] /\ inbox'[d] = inbox[d]
        /\ \A k \in 1 .. Len(request'[c]) :
             \/ request'[c][k].type = "REQUEST"
             \/ \E j \in 1 .. Len(request[c]) : request'[c][k].type = request[c][j].type
    BY <1>0, <2>4, SentQueue
  <2>6. /\ station' \in [Mac -> Client] /\ station'[c] = s
        /\ \A d \in Mac \ {c} : station'[d] = station[d]
    BY <1>0, <2>1, <2>2 DEF DhcpTypeOK
  <2>7. DhcpTypeOK'
    <3>1. \A d \in Mac : \A r, t \in inbox'[d] : r = t
      BY <1>0, <2>5 DEF DhcpTypeOK
    <3>2. leases' \in [Pool -> SUBSET Lease] /\ \A i \in Pool : \A l, m \in leases'[i] : l = m
      BY <1>0, <2>5 DEF DhcpTypeOK
    <3> QED
      BY <2>5, <2>6, <3>1, <3>2 DEF DhcpTypeOK
  <2>8. HolderOK(c)'
    <3>1. station'[c].ip = station[c].ip /\ station'[c].left = station[c].left
      BY <2>2, <2>6
    <3>2. \E l \in leases'[station'[c].ip] : l.mac = c /\ l.left >= station'[c].left
      BY <1>0, <2>3, <2>5, <3>1 DEF HolderOK, Covers
    <3>3. \A k \in 1 .. Len(request'[c]) : request'[c][k].type = "REQUEST"
      BY <1>0, <2>3, <2>5 DEF HolderOK
    <3> QED
      BY <1>0, <2>3, <3>1, <3>2, <3>3 DEF HolderOK, Covers
  <2>9. AckOK(c)'
    BY <2>5 DEF AckOK
  <2> QED
    BY <2>5, <2>6, <2>7, <2>8, <2>9, ClientStepKeeps DEF ClientOK
<1>10. CASE Release(c)
  BY <1>2, <1>3, <1>10, SendKeeps DEF Release
<1>11. CASE Restart(c)
  <2>1. /\ station' = [station EXCEPT ![c] = [NewClient EXCEPT !.old = station[c].old]]
        /\ inbox' = [inbox EXCEPT ![c] = {}] /\ leases' = leases
        /\ request' = [request EXCEPT ![c] = GivenUp(request[c])]
    BY <1>11 DEF Restart
  <2>2. /\ request' \in [Mac -> Seq(Request)] /\ request'[c] = GivenUp(request[c])
        /\ \A d \in Mac \ {c} : request'[d] = request[d]
    BY <1>0, <1>1, <2>1, GivenUpIs DEF DhcpTypeOK
  <2>3. inbox'[c] = {}
    BY <1>0, <2>1 DEF DhcpTypeOK
  <2>4. QueueOK(c)'
    BY <1>1, <2>2, <2>3, GivenUpIs DEF QueueOK
  <2> QED
    BY <1>3, <2>1, <2>2, <2>4, ResetKeeps
<1> QED
  BY <1>4, <1>5, <1>6, <1>7, <1>8, <1>9, <1>10, <1>11 DEF ClientStep

\* The network loses a message.
LEMMA LossKeeps ==
    ASSUME DhcpInv, NEW c \in Mac, LoseRequest(c) \/ LoseReply(c)
    PROVE  DhcpInv'
<1>0. DhcpTypeOK /\ ClientOK(c) /\ QueueOK(c) /\ HolderOK(c) /\ AckOK(c)
  BY DEF DhcpInv, ClientOK
<1>1. CASE LoseRequest(c)
  <2>1. /\ request[c] # <<>> /\ Served(c) /\ inbox' = inbox
        /\ leases' = leases /\ station' = station
    BY <1>1 DEF LoseRequest, Served
  <2>2. inbox[c] = {}
    BY <1>0, <2>1 DEF QueueOK
  <2>3. request' \in [Mac -> Seq(Request)]
    BY <1>0, <2>1, <2>2, ServedQueue
  <2>4. DhcpTypeOK'
    BY <1>0, <2>1, <2>3 DEF DhcpTypeOK
  <2>5. \A d \in Mac, j \in Pool, n \in 1 .. LeaseSecs : Covers(d, j, n) => Covers(d, j, n)'
    BY <2>1 DEF Covers
  <2> QED
    BY <2>1, <2>2, <2>4, <2>5, ServerStep
<1>2. CASE LoseReply(c)
  <2>1. /\ inbox' = [inbox EXCEPT ![c] = {}] /\ leases' = leases
        /\ station' = station /\ request' = request
    BY <1>2 DEF LoseReply
  <2>2. /\ inbox' \in [Mac -> SUBSET Reply] /\ inbox'[c] = {}
        /\ \A d \in Mac \ {c} : inbox'[d] = inbox[d]
        /\ \A d \in Mac : \A r, t \in inbox'[d] : r = t
    BY <1>0, <2>1 DEF DhcpTypeOK
  <2>3. DhcpTypeOK'
    BY <1>0, <2>1, <2>2 DEF DhcpTypeOK
  <2>4. ClientOK(c)'
    BY <1>0, <2>1, <2>2 DEF ClientOK, QueueOK, HolderOK, AckOK, Holds, Covers
  <2> QED
    BY <2>1, <2>2, <2>3, <2>4, ClientStepKeeps
<1> QED
  BY <1>1, <1>2

\* A second passes for the server and for every client alike.
LEMMA TickKeeps ==
    ASSUME DhcpInv, DhcpTick
    PROVE  DhcpInv'
<1>0. DhcpTypeOK /\ LeaseSecs \in Nat
  BY DhcpAssumption DEF DhcpInv
<1>1. \A n \in 0 .. LeaseSecs : Less(n) \in 0 .. LeaseSecs
  BY <1>0 DEF Less
<1> DEFINE Aged(l) == [l EXCEPT !.left = Less(@)]
<1>2. ASSUME NEW l \in Lease
      PROVE  /\ Aged(l) \in Lease /\ Aged(l).mac = l.mac
             /\ Aged(l).left = Less(l.left) /\ l.left \in 0 .. LeaseSecs
  BY <1>1 DEF Lease
<1>3. \A i \in Pool : leases'[i] = {Aged(l) : l \in leases[i]}
  BY DEF DhcpTick
<1> HIDE DEF Aged
<1>4. leases' \in [Pool -> SUBSET Lease] /\ \A i \in Pool : \A l, m \in leases'[i] : l = m
  <2>1. \A i \in Pool : leases'[i] \in SUBSET Lease
    BY <1>0, <1>2, <1>3 DEF DhcpTypeOK
  <2>2. leases' = [i \in Pool |-> leases'[i]]
    BY DEF DhcpTick
  <2>3. \A i \in Pool : \A l, m \in leases'[i] : l = m
    BY <1>0, <1>3 DEF DhcpTypeOK
  <2> QED
    BY <2>1, <2>2, <2>3
\* Cover lasts a second less.
<1>5. ASSUME NEW c \in Mac, NEW i \in Pool, NEW n \in 0 .. LeaseSecs, Covers(c, i, n)
      PROVE  \E l \in leases'[i] : l.mac = c /\ l.left >= Less(n)
  <2>1. PICK l \in leases[i] : l.mac = c /\ l.left >= n
    BY <1>5 DEF Covers
  <2>2. l \in Lease
    BY <1>0 DEF DhcpTypeOK
  <2>3. Aged(l) \in leases'[i]
    BY <1>3
  <2>4. Less(l.left) >= Less(n)
    BY <1>0, <1>2, <2>1, <2>2 DEF Less
  <2> QED
    BY <1>2, <2>1, <2>2, <2>3, <2>4
<1>6. ASSUME NEW c \in Mac
      PROVE  /\ station'[c] \in Client
             /\ Holds(c)' => /\ Holds(c) /\ station[c].left > 1
                             /\ station'[c].ip = station[c].ip
                             /\ station'[c].left = Less(station[c].left)
             /\ station'[c].asked = Less(station[c].asked) \/ station'[c].asked = 0
  <2>1. station[c] \in Client
    BY <1>0 DEF DhcpTypeOK
  <2>2. CASE Holds(c) /\ station[c].left <= 1
    <3>1. station'[c] = [NewClient EXCEPT !.old = station[c].old]
      BY <2>2 DEF DhcpTick
    <3>2. 0 \in 0 .. LeaseSecs
      BY <1>0
    <3> QED
      BY <2>1, <3>1, <3>2 DEF NewClient, Client, Holds
  <2>3. CASE ~(Holds(c) /\ station[c].left <= 1)
    <3>1. station'[c] = [station[c] EXCEPT !.left = Less(@), !.asked = Less(@)]
      BY <2>3 DEF DhcpTick
    <3>2. /\ station'[c] \in Client /\ station'[c].state = station[c].state
          /\ station'[c].ip = station[c].ip
          /\ station'[c].left = Less(station[c].left)
          /\ station'[c].asked = Less(station[c].asked)
      BY <1>1, <2>1, <3>1 DEF Client
    <3>3. Holds(c)' => Holds(c)
      BY <3>2 DEF Holds
    <3>4. station[c].left \in 0 .. LeaseSecs
      BY <2>1 DEF Client
    <3> QED
      BY <1>0, <2>3, <3>2, <3>3, <3>4
  <2> QED
    BY <2>2, <2>3
<1>7. request' = request /\ inbox' = inbox
  BY DEF DhcpTick
<1>8. DhcpTypeOK'
  <2>1. station' = [c \in Mac |-> station'[c]]
    BY DEF DhcpTick
  <2>2. station' \in [Mac -> Client]
    BY <1>6, <2>1
  <2> QED
    BY <1>0, <1>4, <1>7, <2>2 DEF DhcpTypeOK
<1>9. ASSUME NEW c \in Mac PROVE ClientOK(c)'
  <2>0. QueueOK(c) /\ HolderOK(c) /\ AckOK(c) /\ station[c] \in Client
    BY <1>0 DEF DhcpInv, ClientOK, DhcpTypeOK
  <2>1. QueueOK(c)'
    BY <1>7, <2>0 DEF QueueOK
  <2>2. HolderOK(c)'
    <3> SUFFICES ASSUME Holds(c)' PROVE HolderOK(c)'
      BY DEF HolderOK
    <3>1. /\ Holds(c) /\ station[c].left > 1 /\ station'[c].ip = station[c].ip
          /\ station'[c].left = Less(station[c].left)
      BY <1>6
    <3>2. station[c].left \in 0 .. LeaseSecs
      BY <2>0 DEF Client
    <3>3. station'[c].left > 0
      BY <1>0, <3>1, <3>2 DEF Less
    <3>4. station[c].ip \in Pool /\ Covers(c, station[c].ip, station[c].left)
      BY <2>0, <3>1 DEF HolderOK
    <3>5. \E l \in leases'[station'[c].ip] : l.mac = c /\ l.left >= station'[c].left
      BY <1>5, <3>1, <3>2, <3>4
    <3> QED
      BY <1>7, <2>0, <3>1, <3>3, <3>5 DEF HolderOK, Covers
  <2>3. AckOK(c)'
    <3> SUFFICES ASSUME NEW r \in inbox[c], r.type = "ACK", station'[c].asked > 0
                 PROVE  \E l \in leases'[r.ip] : l.mac = c /\ l.left >= station'[c].asked
      BY <1>7, <2>0 DEF AckOK, Covers
    <3>1. station[c].asked \in 0 .. LeaseSecs
      BY <2>0 DEF Client
    <3>2. station'[c].asked = Less(station[c].asked) /\ station[c].asked > 0
      BY <1>0, <1>6, <3>1 DEF Less
    <3>3. r.ip \in Pool /\ Covers(c, r.ip, station[c].asked)
      BY <2>0, <3>2 DEF AckOK
    <3> QED
      BY <1>5, <3>1, <3>2, <3>3
  <2> QED
    BY <2>1, <2>2, <2>3 DEF ClientOK
<1> QED
  BY <1>8, <1>9 DEF DhcpInv

-----------------------------------------------------------------------------
(* Theorems *)

LEMMA DhcpInvInductive ==
    /\ DhcpInit => DhcpInv
    /\ DhcpInv /\ [DhcpNext]_dhcpVars => DhcpInv'
<1>1. ASSUME DhcpInit PROVE DhcpInv
  <2>1. NewClient \in Client /\ \A c \in Mac : station[c] = NewClient
    BY <1>1, DhcpAssumption DEF DhcpInit, NewClient, Client
  <2>2. \A c \in Mac : request[c] = <<>> /\ inbox[c] = {} /\ ~Holds(c)
    BY <1>1, <2>1 DEF DhcpInit, NewClient, Holds
  <2>3. <<>> \in Seq(Request)
    BY EmptySeq
  <2>4. DhcpTypeOK
    BY <1>1, <2>1, <2>3 DEF DhcpInit, DhcpTypeOK
  <2>5. ASSUME NEW c \in Mac PROVE ClientOK(c)
    <3>1. request[c] = <<>> /\ inbox[c] = {} /\ ~Holds(c)
      BY <2>2
    <3>2. \A k \in 1 .. Len(request[c]) : FALSE
      BY <3>1
    <3> QED
      BY <3>1, <3>2, Zenon DEF ClientOK, QueueOK, HolderOK, AckOK
  <2> QED
    BY <2>4, <2>5 DEF DhcpInv
<1>2. ASSUME DhcpInv, [DhcpNext]_dhcpVars PROVE DhcpInv'
  <2>1. CASE DhcpTick
    BY <1>2, <2>1, TickKeeps
  <2>2. CASE \E c \in Mac : Handle(c) \/ ClientStep(c) \/ LoseRequest(c) \/ LoseReply(c)
    BY <1>2, <2>2, HandleKeeps, ClientKeeps, LossKeeps
  <2>3. CASE UNCHANGED dhcpVars
    BY <1>2, <2>3, SMTT(40) DEF dhcpVars, DhcpInv, DhcpTypeOK, ClientOK, QueueOK, HolderOK, AckOK,
                      Holds, Covers
  <2> QED
    BY <1>2, <2>1, <2>2, <2>3 DEF DhcpNext
<1> QED
  BY <1>1, <1>2

\* Every variable of the server and its clients keeps its shape: an address has
\* at most one lease, a client at most one reply on its way.
THEOREM LeaseTableTyped == DhcpSpec => []DhcpTypeOK
<1>1. DhcpInv => DhcpTypeOK
  BY DEF DhcpInv
<1> QED
  BY <1>1, DhcpInvInductive, PTL DEF DhcpSpec

\* Whatever is lost, repeated or rebooted, a station that uses an address has the
\* server's lease for it, and for no less time than it counts on.
THEOREM LeasesCoverClients == DhcpSpec => []LeaseCoversClient
<1>1. DhcpInv => LeaseCoversClient
  BY DEF DhcpInv, ClientOK, HolderOK, LeaseCoversClient, Covers
<1> QED
  BY <1>1, DhcpInvInductive, PTL DEF DhcpSpec

\* DhcpServer never lets two stations use one address at the same time.
THEOREM NoAddressTwice == DhcpSpec => []AddressesUnique
<1>1. ASSUME DhcpInv PROVE AddressesUnique
  <2> SUFFICES ASSUME NEW c \in Mac, NEW d \in Mac, Holds(c), Holds(d),
                      station[c].ip = station[d].ip
               PROVE  c = d
    BY DEF AddressesUnique
  <2>1. PICK l \in leases[station[c].ip] : l.mac = c
    BY <1>1 DEF DhcpInv, ClientOK, HolderOK, Covers
  <2>2. PICK m \in leases[station[c].ip] : m.mac = d
    BY <1>1 DEF DhcpInv, ClientOK, HolderOK, Covers
  <2>3. station[c].ip \in Pool
    BY <1>1 DEF DhcpInv, ClientOK, HolderOK
  <2> QED
    BY <1>1, <2>1, <2>2, <2>3 DEF DhcpInv, DhcpTypeOK
<1> QED
  BY <1>1, DhcpInvInductive, PTL DEF DhcpSpec
=============================================================================
