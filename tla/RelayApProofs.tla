--------------------------- MODULE RelayApProofs ---------------------------
(***************************************************************************)
(* The relay's slots, for every number of stations and slots and for every *)
(* timeout: a station has one slot, and a datagram of the daemon is        *)
(* relayed only to the station it was meant for, provided SLOT_IDLE_SECS   *)
(* outlasts the daemon's timeout and a datagram's travel together          *)
(* (RelayAssumption).                                                      *)
(*                                                                         *)
(* The argument: a slot is idle no longer than the daemon has been quiet   *)
(* on its socket, and no longer than that plus the age of a datagram on    *)
(* its way, so that a slot whose socket is in use is never idle enough to  *)
(* be given away.                                                          *)
(***************************************************************************)
EXTENDS RelayAp, TLAPS

Client == {{}} \cup {{c} : c \in Station}
FlowTo == [to : Station, quiet : 0 .. DaemonDead]
ReplyTo == [to : Station, from : SUBSET Endpoints, age : 0 .. MaxTransit]

SlotShape ==
    /\ slot \in [Slots -> [client : Client, idle : Nat]]
    /\ flow \in [Slots -> SUBSET FlowTo]
    /\ reply \in [Slots -> SUBSET ReplyTo]
    /\ daemon \subseteq Endpoints

\* A flow the daemon has not given up belongs to the client of its slot.
FlowsHome ==
    \A i \in Slots : \A f \in flow[i] : slot[i].client = {f.to} /\ slot[i].idle <= f.quiet

\* So does a datagram on its way.
RepliesHome ==
    \A i \in Slots : \A r \in reply[i] :
        slot[i].client = {r.to} /\ slot[i].idle <= DaemonDead + r.age

SlotInv == SlotShape /\ FlowsHome /\ RepliesHome /\ OneSlotPerStation /\ RepliesStayHome

----------------------------------------------------------------------------
\* A slot that may be given away has no traffic.
LEMMA IdleIsQuiet ==
    ASSUME SlotInv, NEW i \in IdleSlots
    PROVE  flow[i] = {} /\ reply[i] = {}
<1>0. /\ SlotShape /\ FlowsHome /\ RepliesHome /\ i \in Slots
      /\ IdleSecs \in Nat /\ DaemonDead \in Nat /\ MaxTransit \in Nat
      /\ DaemonDead + MaxTransit < IdleSecs
  BY RelayAssumption DEF SlotInv, IdleSlots
<1>1. slot[i].idle \in Nat /\ (slot[i].client = {} \/ slot[i].idle >= IdleSecs)
  BY <1>0 DEF SlotShape, IdleSlots
<1>2. ASSUME NEW f \in flow[i] PROVE FALSE
  <2>1. slot[i].client = {f.to} /\ slot[i].idle <= f.quiet /\ f.quiet \in 0 .. DaemonDead
    BY <1>0 DEF FlowsHome, SlotShape, FlowTo
  <2> QED
    BY <1>0, <1>1, <2>1
<1>3. ASSUME NEW r \in reply[i] PROVE FALSE
  <2>1. slot[i].client = {r.to} /\ slot[i].idle <= DaemonDead + r.age /\ r.age \in 0 .. MaxTransit
    BY <1>0 DEF RepliesHome, SlotShape, ReplyTo
  <2>2. slot[i].client # {}
    BY <2>1
  <2>3. slot[i].idle <= DaemonDead + MaxTransit
    BY <1>0, <1>1, <2>1
  <2> QED
    BY <1>0, <1>1, <2>2, <2>3
<1> QED
  BY <1>2, <1>3

\* The slot found for a station is its own, or one without traffic when it has
\* none.
LEMMA SlotForIs ==
    ASSUME SlotInv, NEW c \in Station, NEW i \in SlotFor(c)
    PROVE  /\ i \in Slots
           /\ \/ slot[i].client = {c}
              \/ /\ flow[i] = {} /\ reply[i] = {}
                 /\ \A j \in Slots : slot[j].client # {c}
<1>1. CASE SlotsOf(c) # {}
  <2>1. i \in Slots /\ c \in slot[i].client
    BY <1>1 DEF SlotFor, FirstOf, SlotsOf
  <2>2. slot[i].client \in Client
    BY <2>1 DEF SlotInv, SlotShape
  <2> QED
    BY <2>1, <2>2 DEF Client
<1>2. CASE SlotsOf(c) = {}
  <2>1. i \in IdleSlots
    BY <1>2 DEF SlotFor, FirstOf
  <2>2. i \in Slots
    BY <2>1 DEF IdleSlots
  <2>3. \A j \in Slots : slot[j].client # {c}
    BY <1>2 DEF SlotsOf
  <2> QED
    BY <2>1, <2>2, <2>3, IdleIsQuiet
<1> QED
  BY <1>1, <1>2

LEMMA ApReceiveKeeps ==
    ASSUME SlotInv, NEW c \in Station, ApReceive(c)
    PROVE  SlotInv'
<1>0. SlotShape /\ FlowsHome /\ RepliesHome /\ OneSlotPerStation /\ DaemonDead \in Nat
  BY RelayAssumption DEF SlotInv
<1>1. PICK i \in SlotFor(c) :
        /\ slot' = [slot EXCEPT ![i] = Fresh(c)]
        /\ \/ flow' = [flow EXCEPT ![i] = {[to |-> c, quiet |-> 0]}]
           \/ UNCHANGED flow
        /\ UNCHANGED <<reply, daemon, stray>>
  BY DEF ApReceive
<1>2. /\ i \in Slots
      /\ \/ slot[i].client = {c}
         \/ /\ flow[i] = {} /\ reply[i] = {}
            /\ \A j \in Slots : slot[j].client # {c}
  BY SlotForIs
<1>3. /\ Fresh(c) \in [client : Client, idle : Nat]
      /\ Fresh(c).client = {c} /\ Fresh(c).idle = 0
  BY DEF Fresh, Client
<1>4. /\ slot' \in [Slots -> [client : Client, idle : Nat]] /\ slot'[i] = Fresh(c)
      /\ \A j \in Slots \ {i} : slot'[j] = slot[j]
  BY <1>0, <1>1, <1>2, <1>3 DEF SlotShape
<1> DEFINE g == [to |-> c, quiet |-> 0]
<1>5. g \in FlowTo /\ g.to = c /\ g.quiet = 0
  BY <1>0 DEF FlowTo
<1>6. /\ flow' \in [Slots -> SUBSET FlowTo]
      /\ \A j \in Slots \ {i} : flow'[j] = flow[j]
      /\ flow'[i] = {g} \/ flow'[i] = flow[i]
  BY <1>0, <1>1, <1>2, <1>5 DEF SlotShape
<1> HIDE DEF g
<1>7. SlotShape'
  BY <1>0, <1>1, <1>4, <1>6 DEF SlotShape
<1>8. FlowsHome'
  <2> SUFFICES ASSUME NEW j \in Slots, NEW f \in flow'[j]
               PROVE  slot'[j].client = {f.to} /\ slot'[j].idle <= f.quiet
    BY DEF FlowsHome
  <2>1. CASE j # i
    BY <1>0, <1>4, <1>6, <2>1 DEF FlowsHome
  <2>2. CASE j = i /\ f = g
    BY <1>3, <1>4, <1>5, <2>2
  <2>3. CASE j = i /\ f \in flow[i]
    <3>1. f.quiet \in 0 .. DaemonDead /\ slot[i].client = {f.to}
      BY <1>0, <1>2, <2>3 DEF SlotShape, FlowTo, FlowsHome
    <3>2. slot'[j].client = {f.to} /\ slot'[j].idle = 0
      BY <1>2, <1>3, <1>4, <2>3, <3>1
    <3> QED
      BY <1>0, <3>1, <3>2
  <2> QED
    BY <1>6, <2>1, <2>2, <2>3
<1>9. RepliesHome'
  <2> SUFFICES ASSUME NEW j \in Slots, NEW r \in reply[j]
               PROVE  slot'[j].client = {r.to} /\ slot'[j].idle <= DaemonDead + r.age
    BY <1>1 DEF RepliesHome
  <2>1. CASE j # i
    BY <1>0, <1>4, <2>1 DEF RepliesHome
  <2>2. CASE j = i
    <3>1. r.age \in 0 .. MaxTransit /\ slot[i].client = {r.to}
      BY <1>0, <1>2, <2>2 DEF SlotShape, ReplyTo, RepliesHome
    <3>2. slot'[j].client = {r.to} /\ slot'[j].idle = 0
      BY <1>2, <1>3, <1>4, <2>2, <3>1
    <3> QED
      BY <1>0, <3>1, <3>2
  <2> QED
    BY <2>1, <2>2
<1>10. OneSlotPerStation'
  <2> SUFFICES ASSUME NEW j \in Slots, NEW k \in Slots, j # k,
                      slot'[j].client # {}, slot'[j].client = slot'[k].client
               PROVE  FALSE
    BY DEF OneSlotPerStation
  <2>1. CASE j # i /\ k # i
    BY <1>0, <1>4, <2>1 DEF OneSlotPerStation
  <2>2. ASSUME NEW l \in Slots, l # i, slot[l].client = {c} PROVE FALSE
    BY <1>0, <1>2, <2>2 DEF OneSlotPerStation
  <2> QED
    BY <1>3, <1>4, <2>1, <2>2
<1>11. RepliesStayHome'
  BY <1>1 DEF SlotInv, RepliesStayHome
<1> QED
  BY <1>7, <1>8, <1>9, <1>10, <1>11 DEF SlotInv

LEMMA DaemonSendsKeeps ==
    ASSUME SlotInv, NEW i \in Slots, DaemonSends(i)
    PROVE  SlotInv'
<1>0. /\ SlotShape /\ FlowsHome /\ RepliesHome /\ OneSlotPerStation
      /\ DaemonDead \in Nat /\ MaxTransit \in Nat
  BY RelayAssumption DEF SlotInv
<1>1. PICK f \in flow[i] :
        reply' = [reply EXCEPT ![i] = {[to |-> f.to, from |-> daemon, age |-> 0]}]
  BY DEF DaemonSends
<1>2. UNCHANGED <<slot, flow, daemon, stray>>
  BY DEF DaemonSends
<1> DEFINE q == [to |-> f.to, from |-> daemon, age |-> 0]
<1>3. /\ f.quiet \in 0 .. DaemonDead /\ f.to \in Station
      /\ slot[i].client = {f.to} /\ slot[i].idle <= f.quiet /\ slot[i].idle \in Nat
  BY <1>0 DEF SlotShape, FlowTo, FlowsHome
<1>4. q \in ReplyTo /\ q.to = f.to /\ q.age = 0
  BY <1>0, <1>3 DEF ReplyTo, SlotShape
<1>5. /\ reply' \in [Slots -> SUBSET ReplyTo] /\ reply'[i] = {q}
      /\ \A j \in Slots \ {i} : reply'[j] = reply[j]
  BY <1>0, <1>1, <1>4 DEF SlotShape
<1> HIDE DEF q
<1>6. SlotShape'
  BY <1>0, <1>2, <1>5 DEF SlotShape
<1>7. RepliesHome'
  <2> SUFFICES ASSUME NEW j \in Slots, NEW r \in reply'[j]
               PROVE  slot[j].client = {r.to} /\ slot[j].idle <= DaemonDead + r.age
    BY <1>2 DEF RepliesHome
  <2>1. CASE j # i
    BY <1>0, <1>5, <2>1 DEF RepliesHome
  <2>2. CASE j = i
    BY <1>0, <1>3, <1>4, <1>5, <2>2
  <2> QED
    BY <2>1, <2>2
<1>8. FlowsHome' /\ OneSlotPerStation' /\ RepliesStayHome'
  BY <1>0, <1>2 DEF SlotInv, FlowsHome, OneSlotPerStation, RepliesStayHome
<1> QED
  BY <1>6, <1>7, <1>8 DEF SlotInv

LEMMA UpReceiveKeeps ==
    ASSUME SlotInv, NEW i \in Slots, UpReceive(i)
    PROVE  SlotInv'
<1>0. /\ SlotShape /\ FlowsHome /\ RepliesHome /\ OneSlotPerStation /\ RepliesStayHome
      /\ DaemonDead \in Nat
  BY RelayAssumption DEF SlotInv
<1>1. PICK r \in reply[i] :
        IF r.from = upstream /\ slot[i].client # {}
        THEN /\ slot' = [slot EXCEPT ![i].idle = 0]
             /\ stray' = (stray \/ slot[i].client # {r.to})
        ELSE UNCHANGED <<slot, stray>>
  BY DEF UpReceive
<1>2. reply' = [reply EXCEPT ![i] = {}] /\ UNCHANGED <<flow, daemon>>
  BY DEF UpReceive
<1>3. RepliesStayHome'
  <2>1. slot[i].client = {r.to}
    BY <1>0 DEF RepliesHome
  <2> QED
    BY <1>0, <1>1, <2>1 DEF RepliesStayHome
<1>4. /\ slot' \in [Slots -> [client : Client, idle : Nat]]
      /\ \A j \in Slots : /\ slot'[j].client = slot[j].client
                          /\ slot'[j] = slot[j] \/ slot'[j].idle = 0
  <2>1. CASE slot' = [slot EXCEPT ![i].idle = 0]
    BY <1>0, <2>1 DEF SlotShape
  <2>2. CASE slot' = slot
    BY <1>0, <2>2 DEF SlotShape
  <2> QED
    BY <1>1, <2>1, <2>2
<1>5. /\ reply' \in [Slots -> SUBSET ReplyTo]
      /\ \A j \in Slots : reply'[j] \subseteq reply[j]
  BY <1>0, <1>2 DEF SlotShape
<1>6. SlotShape'
  BY <1>0, <1>2, <1>4, <1>5 DEF SlotShape
<1>7. FlowsHome'
  <2> SUFFICES ASSUME NEW j \in Slots, NEW f \in flow[j]
               PROVE  slot'[j].client = {f.to} /\ slot'[j].idle <= f.quiet
    BY <1>2 DEF FlowsHome
  <2>1. f.quiet \in 0 .. DaemonDead /\ slot[j].client = {f.to} /\ slot[j].idle <= f.quiet
    BY <1>0 DEF SlotShape, FlowTo, FlowsHome
  <2> QED
    BY <1>0, <1>4, <2>1
<1>8. RepliesHome'
  <2> SUFFICES ASSUME NEW j \in Slots, NEW q \in reply[j]
               PROVE  slot'[j].client = {q.to} /\ slot'[j].idle <= DaemonDead + q.age
    BY <1>5 DEF RepliesHome
  <2>1. /\ q.age \in 0 .. MaxTransit /\ slot[j].client = {q.to}
        /\ slot[j].idle <= DaemonDead + q.age
    BY <1>0 DEF SlotShape, ReplyTo, RepliesHome
  <2> QED
    BY <1>0, <1>4, <2>1
<1>9. OneSlotPerStation'
  BY <1>0, <1>4 DEF OneSlotPerStation
<1> QED
  BY <1>3, <1>6, <1>7, <1>8, <1>9 DEF SlotInv

\* A second passes: a slot, the daemon's silence and a datagram age alike.
LEMMA RelTickKeeps ==
    ASSUME SlotInv, RelTick
    PROVE  SlotInv'
<1>0. /\ SlotShape /\ FlowsHome /\ RepliesHome /\ OneSlotPerStation /\ RepliesStayHome
      /\ DaemonDead \in Nat /\ MaxTransit \in Nat /\ IdleSecs \in Nat
  BY RelayAssumption DEF SlotInv
<1>1. /\ slot' = [i \in Slots |->
           [slot[i] EXCEPT !.idle = IF @ >= IdleSecs THEN @ ELSE @ + 1]]
      /\ flow' = [i \in Slots |->
           {[f EXCEPT !.quiet = @ + 1] : f \in {g \in flow[i] : g.quiet < DaemonDead}}]
      /\ reply' = [i \in Slots |->
           {[r EXCEPT !.age = @ + 1] : r \in {q \in reply[i] : q.age < MaxTransit}}]
      /\ UNCHANGED <<daemon, stray>>
  BY DEF RelTick
<1>2. ASSUME NEW i \in Slots
      PROVE  /\ slot'[i] \in [client : Client, idle : Nat]
             /\ slot'[i].client = slot[i].client /\ slot'[i].idle <= slot[i].idle + 1
             /\ slot[i].idle \in Nat
  <2>1. slot[i] \in [client : Client, idle : Nat]
    BY <1>0 DEF SlotShape
  <2>2. slot'[i] = [slot[i] EXCEPT !.idle = IF slot[i].idle >= IdleSecs
                                            THEN slot[i].idle ELSE slot[i].idle + 1]
    BY <1>1
  <2> QED
    BY <1>0, <2>1, <2>2
<1>3. ASSUME NEW i \in Slots, NEW g \in flow'[i]
      PROVE  g \in FlowTo /\ \E f \in flow[i] : g.to = f.to /\ g.quiet = f.quiet + 1
  <2>1. PICK f \in flow[i] : f.quiet < DaemonDead /\ g = [f EXCEPT !.quiet = f.quiet + 1]
    BY <1>1, <1>3
  <2>2. f \in FlowTo
    BY <1>0 DEF SlotShape
  <2> QED
    BY <1>0, <2>1, <2>2 DEF FlowTo
<1>4. ASSUME NEW i \in Slots, NEW q \in reply'[i]
      PROVE  q \in ReplyTo /\ \E r \in reply[i] : q.to = r.to /\ q.age = r.age + 1
  <2>1. PICK r \in reply[i] : r.age < MaxTransit /\ q = [r EXCEPT !.age = r.age + 1]
    BY <1>1, <1>4
  <2>2. r \in ReplyTo
    BY <1>0 DEF SlotShape
  <2> QED
    BY <1>0, <2>1, <2>2 DEF ReplyTo
<1>5. SlotShape'
  <2>1. slot' \in [Slots -> [client : Client, idle : Nat]]
    BY <1>1, <1>2
  <2>2. flow' \in [Slots -> SUBSET FlowTo]
    BY <1>1, <1>3
  <2>3. reply' \in [Slots -> SUBSET ReplyTo]
    BY <1>1, <1>4
  <2> QED
    BY <1>0, <1>1, <2>1, <2>2, <2>3 DEF SlotShape
<1>6. FlowsHome'
  <2> SUFFICES ASSUME NEW i \in Slots, NEW g \in flow'[i]
               PROVE  slot'[i].client = {g.to} /\ slot'[i].idle <= g.quiet
    BY DEF FlowsHome
  <2>1. PICK f \in flow[i] : g.to = f.to /\ g.quiet = f.quiet + 1
    BY <1>3
  <2>2. slot[i].client = {f.to} /\ slot[i].idle <= f.quiet /\ f.quiet \in Nat
    BY <1>0 DEF FlowsHome, SlotShape, FlowTo
  <2>3. slot'[i].idle \in Nat
    BY <1>2
  <2> QED
    BY <1>2, <2>1, <2>2, <2>3
<1>7. RepliesHome'
  <2> SUFFICES ASSUME NEW i \in Slots, NEW q \in reply'[i]
               PROVE  slot'[i].client = {q.to} /\ slot'[i].idle <= DaemonDead + q.age
    BY DEF RepliesHome
  <2>1. PICK r \in reply[i] : q.to = r.to /\ q.age = r.age + 1
    BY <1>4
  <2>2. slot[i].client = {r.to} /\ slot[i].idle <= DaemonDead + r.age /\ r.age \in Nat
    BY <1>0 DEF RepliesHome, SlotShape, ReplyTo
  <2>3. slot'[i].idle \in Nat
    BY <1>2
  <2> QED
    BY <1>0, <1>2, <2>1, <2>2, <2>3
<1>8. OneSlotPerStation' /\ RepliesStayHome'
  BY <1>0, <1>1, <1>2 DEF OneSlotPerStation, RepliesStayHome
<1> QED
  BY <1>5, <1>6, <1>7, <1>8 DEF SlotInv

\* The daemon moves or goes: it forgets its flows.
LEMMA DaemonKeeps ==
    ASSUME SlotInv, DaemonMoves \/ DaemonComesBack
    PROVE  SlotInv'
<1>0. SlotShape /\ FlowsHome /\ RepliesHome /\ OneSlotPerStation /\ RepliesStayHome
  BY DEF SlotInv
<1>1. /\ UNCHANGED <<slot, reply, stray>> /\ daemon' \subseteq Endpoints
      /\ flow' = flow \/ flow' = [i \in Slots |-> {}]
  BY DEF DaemonMoves, DaemonComesBack
<1>2. SlotShape' /\ FlowsHome'
  BY <1>0, <1>1 DEF SlotShape, FlowsHome
<1>3. RepliesHome' /\ OneSlotPerStation' /\ RepliesStayHome'
  BY <1>0, <1>1 DEF RepliesHome, OneSlotPerStation, RepliesStayHome
<1> QED
  BY <1>2, <1>3 DEF SlotInv

\* uplink_task, mdns_task and the peer-mode node do not touch the slots.
LEMMA OtherTasksKeep ==
    ASSUME SlotInv,
           \/ UplinkStep \/ AssociateFailed \/ AnswerQuery \/ PeerReady \/ PeerDead
           \/ LoseAssociation \/ UNCHANGED relVars
    PROVE  SlotInv'
<1>1. UNCHANGED <<slot, flow, reply, daemon, stray>>
  BY DEF UplinkStep, LoopLost, Associated, GotAddress, NoAddress, LoopConnected,
         StartDiscovery, NotDue, FoundOnLan, FellBack, NotFound, uplinkRest, AssociateFailed,
         AnswerQuery, PeerReady, PeerDead, LoseAssociation, relVars
<1> QED
  BY <1>1 DEF SlotInv, SlotShape, FlowsHome, RepliesHome, OneSlotPerStation, RepliesStayHome

----------------------------------------------------------------------------
LEMMA SlotInvInductive == RelSpec => []SlotInv
<1>1. RelInit => SlotInv
  <2> SUFFICES ASSUME RelInit PROVE SlotInv
    OBVIOUS
  <2>1. SlotShape
    BY DEF RelInit, SlotShape, Client
  <2>2. FlowsHome /\ RepliesHome /\ OneSlotPerStation /\ RepliesStayHome
    BY DEF RelInit, FlowsHome, RepliesHome, OneSlotPerStation, RepliesStayHome
  <2> QED
    BY <2>1, <2>2 DEF SlotInv
<1>2. SlotInv /\ [RelNext]_relVars => SlotInv'
  <2> SUFFICES ASSUME SlotInv, [RelNext]_relVars PROVE SlotInv'
    OBVIOUS
  <2>1. CASE \E c \in Station : ApReceive(c)
    BY <2>1, ApReceiveKeeps
  <2>2. CASE \E i \in Slots : DaemonSends(i)
    BY <2>2, DaemonSendsKeeps
  <2>3. CASE \E i \in Slots : UpReceive(i)
    BY <2>3, UpReceiveKeeps
  <2>4. CASE RelTick
    BY <2>4, RelTickKeeps
  <2>5. CASE DaemonMoves \/ DaemonComesBack
    BY <2>5, DaemonKeeps
  <2>6. CASE \/ UplinkStep \/ AssociateFailed \/ AnswerQuery \/ PeerReady \/ PeerDead
             \/ LoseAssociation \/ UNCHANGED relVars
    BY <2>6, OtherTasksKeep
  <2> QED
    BY <2>1, <2>2, <2>3, <2>4, <2>5, <2>6 DEF RelNext
<1> QED
  BY <1>1, <1>2, PTL DEF RelSpec

\* "each client flow gets its own uplink socket": slot_for never gives a station
\* a second slot.
THEOREM SlotsAreDistinct == RelSpec => []OneSlotPerStation
<1>1. SlotInv => OneSlotPerStation
  BY DEF SlotInv
<1> QED
  BY <1>1, SlotInvInductive, PTL

\* up_rx_task relays a datagram only to the station the daemon meant, although
\* slot_for gives slots of silent stations away.
THEOREM RepliesReachTheirStation == RelSpec => []RepliesStayHome
<1>1. SlotInv => RepliesStayHome
  BY DEF SlotInv
<1> QED
  BY <1>1, SlotInvInductive, PTL
============================================================================
