---------------------------- MODULE FmpLinkProofs ---------------------------
(***************************************************************************)
(* Proofs about FmpLink, for every set of ends, every bound and both       *)
(* handshake patterns.  What a node does depends on the other end only     *)
(* through the frames it receives, so the inductive invariant is about one *)
(* node at a time and holds whatever well-formed frames arrive, in         *)
(* whatever order and however often.                                       *)
(***************************************************************************)
EXTENDS FmpLink, TLAPS

(* The ephemerals that this end and the other one contributed to an epoch, *)
(* for a slot or a frame sealed here, and for a frame received here.       *)
OurEph(x) == IF x.role = "init" THEN x.ep[1] ELSE x.ep[2]
PeerEph(x) == IF x.role = "init" THEN x.ep[2] ELSE x.ep[1]
OurEphOf(f) == IF f.role = "init" THEN f.ep[2] ELSE f.ep[1]

(* Ephemerals of handshakes still in flight: they may yet name an epoch.   *)
Live(s) ==
    {h.eph : h \in s.hs} \cup {i.eph : i \in s.init} \cup {r.e2 : r \in s.resp}

(* Drawn by this end already.                                              *)
Drawn(s, n, e) == e[1] = n /\ e[2] < s.next

(* Drawn, and nothing was ever sealed, opened or held under it.            *)
Unused(s, n, e) ==
    /\ Drawn(s, n, e)
    /\ \A x \in Slots(s) : OurEph(x) # e
    /\ \A f \in s.sent : f.type = "data" => OurEph(f) # e
    /\ \A f \in s.got : OurEphOf(f) # e

SlotInv(s, n, x) ==
    /\ Drawn(s, n, OurEph(x))
    /\ PeerEph(x)[1] # n
    /\ \A f \in s.sent :
         f.type = "data" /\ f.ep = x.ep /\ f.role = x.role => f.ctr < x.ctr
    /\ \A f \in s.got : f.ep = x.ep /\ f.role # x.role => f.ctr \in x.seen

(* What this end puts on the wire names its own ephemerals.                *)
SentInv(s, n, f) ==
    /\ f.type = "data" => Drawn(s, n, OurEph(f))
    /\ f.type = "msg1" => f.e1[1] = n
    /\ f.type = "msg2" => f.e2[1] = n

(* An ephemeral names at most one epoch of this end.  It is live while its *)
(* handshake is in flight, and once it names a slot it is never live       *)
(* again; a new slot therefore starts with a counter space and a replay    *)
(* window that nothing was recorded under.                                 *)
NodeInv(s, n) ==
    /\ \A x \in Slots(s) : SlotInv(s, n, x)
    /\ \A x \in s.cur, y \in s.pend : OurEph(x) # OurEph(y) /\ x.k # y.k
    /\ \A x \in s.cur, y \in s.prev : OurEph(x) # OurEph(y) /\ x.k # y.k
    /\ \A x \in s.pend, y \in s.prev : OurEph(x) # OurEph(y)
    /\ \A e \in Live(s) : Unused(s, n, e)
    /\ \A f \in s.sent : SentInv(s, n, f)
    /\ \A f \in s.got : Drawn(s, n, OurEphOf(f))
    /\ \A r \in s.resp : r.e1[1] # n
    /\ \A h \in s.hs, r \in s.resp : h.eph # r.e2
    /\ \A i \in s.init, r \in s.resp : i.eph # r.e2
    /\ s.phase = "steady" => s.cur # {} /\ s.hs = {}
    /\ s.phase # "steady" => s.init = {} /\ Slots(s) = {}
    /\ s.phase \in {"idle", "handshake"} => s.resp = {}

Good(s, n) == s \in NodeState /\ NodeInv(s, n)

LinkInv == \A n \in Node : Good(node[n], n)

-----------------------------------------------------------------------------
(* Each operator on the state of one node keeps it Good.                   *)

(* The remaining fields do not matter.                                     *)
LEMMA SameGood ==
    ASSUME NEW n \in Node, NEW s, Good(s, n), NEW t \in NodeState,
           t.phase = s.phase, t.hs = s.hs, t.resp = s.resp, t.cur = s.cur,
           t.pend = s.pend, t.prev = s.prev, t.init = s.init,
           t.next = s.next, t.sent = s.sent, t.got = s.got
    PROVE  Good(t, n)
BY DEF Good, NodeInv, Unused, SlotInv, SentInv, Drawn, Live, Slots

(* session() returned.                                                     *)
LEMMA EndSessionGood ==
    ASSUME NEW n \in Node, NEW s, Good(s, n)
    PROVE  Good(EndSession(s), n)
<1> DEFINE t == EndSession(s)
<1>1. t \in NodeState
  BY Zenon DEF EndSession, NodeState, Option, Good
<1>2. /\ t.phase = "idle" /\ t.hs = {} /\ t.resp = {} /\ t.cur = {}
      /\ t.pend = {} /\ t.prev = {} /\ t.init = {}
      /\ t.next = s.next /\ t.sent = s.sent /\ t.got = s.got
  BY DEF EndSession, NodeState, Good
<1> HIDE DEF t
<1>3. Live(t) = {} /\ Slots(t) = {}
  BY <1>2 DEF Live, Slots
<1>4. NodeInv(t, n)
  BY <1>2, <1>3 DEF NodeInv, Drawn, SentInv, Good
<1>5. QED
  BY <1>1, <1>4 DEF Good, t

LEMMA DataTyped ==
    ASSUME NEW s \in NodeState, NEW f \in s.sent, f.type = "data"
    PROVE  f \in DataFrame
BY DEF NodeState, Frame, HandshakeFrame

(* Sealing a frame under `cur'.                                            *)
LEMMA TransmitGood ==
    ASSUME NEW n \in Node, NEW s, NEW kind \in Kind, Good(s, n)
    PROVE  Good(Transmit(s, kind), n)
<1> DEFINE t == Transmit(s, kind)
<1>0. s \in NodeState /\ NodeInv(s, n)
  BY DEF Good
<1>1. /\ t.cur = {[x EXCEPT !.ctr = @ + 1] : x \in s.cur}
      /\ t.sent = s.sent \cup {Data(x, kind) : x \in s.cur}
      /\ t.phase = s.phase /\ t.hs = s.hs /\ t.resp = s.resp
      /\ t.pend = s.pend /\ t.prev = s.prev /\ t.init = s.init
      /\ t.next = s.next /\ t.got = s.got
  BY <1>0 DEF Transmit, NodeState
<1>2. s.cur \subseteq EpochSlot
  BY <1>0 DEF NodeState, Option
<1>3. t.cur \in Option(EpochSlot)
  BY <1>0, <1>1, <1>2 DEF NodeState, Option, EpochSlot
<1>4. \A x \in s.cur : Data(x, kind) \in Frame
  BY <1>2 DEF EpochSlot, Frame, DataFrame, Data
<1>5. t \in NodeState
  <2> DEFINE A == {[x EXCEPT !.ctr = @ + 1] : x \in s.cur}
             B == s.sent \cup {Data(x, kind) : x \in s.cur}
  <2>1. A \in Option(EpochSlot) /\ B \in SUBSET Frame
    BY <1>0, <1>1, <1>3, <1>4 DEF NodeState
  <2>2. t = [s EXCEPT !.cur = A, !.sent = B]
    BY DEF Transmit
  <2> HIDE DEF A, B, t
  <2>3. QED
    BY <1>0, <2>1, <2>2, Zenon DEF NodeState
<1> HIDE DEF t
<1>6. Live(t) = Live(s)
  BY <1>1 DEF Live
<1>7. \A y \in t.cur : \E x \in s.cur :
         /\ y.ep = x.ep /\ y.role = x.role /\ y.k = x.k /\ y.seen = x.seen
         /\ y.ctr = x.ctr + 1 /\ x.ctr \in Nat /\ y.ctr \in Nat
         /\ OurEph(y) = OurEph(x) /\ PeerEph(y) = PeerEph(x)
  BY <1>1, <1>2 DEF EpochSlot, OurEph, PeerEph
<1>8. \A f \in t.sent \ s.sent : \E x \in s.cur :
         /\ f.type = "data" /\ f.ep = x.ep /\ f.role = x.role /\ f.ctr = x.ctr
         /\ OurEph(f) = OurEph(x)
  BY <1>1, <1>2 DEF EpochSlot, Data, OurEph
<1>9. \A x, y \in s.cur : x = y
  BY <1>0 DEF NodeState, Option
<1>10. \A y \in t.cur : SlotInv(t, n, y)
  <2>1. \A f \in s.sent : f.type = "data" => f.ctr \in Nat
    BY <1>0, DataTyped DEF DataFrame
  <2>2. QED
    BY <1>0, <1>1, <1>7, <1>8, <1>9, <2>1, SMT DEF NodeInv, SlotInv, Drawn, Slots
<1>11. \A y \in t.pend \cup t.prev : SlotInv(t, n, y)
  BY <1>0, <1>1, <1>8, SMT DEF NodeInv, SlotInv, Drawn, OurEph, Slots
<1>12. \A f \in t.sent : SentInv(t, n, f)
  BY <1>0, <1>1, <1>8 DEF NodeInv, SlotInv, Drawn, Slots, SentInv
<1>13. \A e \in Live(t) : Unused(t, n, e)
  BY <1>0, <1>1, <1>6, <1>7, <1>8 DEF NodeInv, Unused, Drawn, Slots
<1>14. /\ \A x \in t.cur, y \in t.pend : OurEph(x) # OurEph(y) /\ x.k # y.k
       /\ \A x \in t.cur, y \in t.prev : OurEph(x) # OurEph(y) /\ x.k # y.k
  BY <1>0, <1>1, <1>7 DEF NodeInv
<1>15. t.cur = {} <=> s.cur = {}
  BY <1>1, Zenon
<1>16. NodeInv(t, n)
  BY <1>0, <1>1, <1>10, <1>11, <1>12, <1>13, <1>14, <1>15
     DEF NodeInv, Drawn, Slots
<1>17. QED
  BY <1>5, <1>16 DEF t, Good

(* Drawing ephemerals and sending handshake frames that name our own.      *)
LEMMA SayGood ==
    ASSUME NEW n \in Node, NEW s, Good(s, n), NEW t \in NodeState,
           t.phase = s.phase, t.hs = s.hs, t.resp = s.resp, t.cur = s.cur,
           t.pend = s.pend, t.prev = s.prev, t.init = s.init,
           t.got = s.got, s.next <= t.next, s.sent \subseteq t.sent,
           \A f \in t.sent \ s.sent : SentInv(t, n, f) /\ f.type # "data"
    PROVE  Good(t, n)
<1>1. s \in NodeState /\ NodeInv(s, n)
  BY DEF Good
<1>2. Live(t) = Live(s) /\ Slots(t) = Slots(s)
  BY DEF Live, Slots
<1>3. \A e \in Eph : Drawn(s, n, e) => Drawn(t, n, e)
  BY <1>1 DEF Drawn, Eph, NodeState
<1>4. \A e \in Live(s) : e \in Eph
  BY <1>1 DEF Live, NodeState, Option
<1>5. \A x \in Slots(s) : OurEph(x) \in Eph
  BY <1>1 DEF Slots, NodeState, Option, EpochSlot, OurEph
<1>6. \A f \in s.sent : f.type = "data" => OurEph(f) \in Eph
  BY <1>1, DataTyped DEF DataFrame, OurEph
<1>7. \A f \in s.got : OurEphOf(f) \in Eph
  BY <1>1 DEF NodeState, DataFrame, OurEphOf
<1>8. \A x \in Slots(t) : SlotInv(t, n, x)
  BY <1>1, <1>2, <1>3, <1>5 DEF NodeInv, SlotInv
<1>9. \A e \in Live(t) : Unused(t, n, e)
  BY <1>1, <1>2, <1>3, <1>4 DEF NodeInv, Unused
<1>10. \A f \in t.sent : SentInv(t, n, f)
  BY <1>1, <1>3, <1>6 DEF NodeInv, SentInv
<1>11. \A f \in t.got : Drawn(t, n, OurEphOf(f))
  BY <1>1, <1>3, <1>7 DEF NodeInv
<1>12. QED
  BY <1>1, <1>2, <1>8, <1>9, <1>10, <1>11 DEF Good, NodeInv

(* The ephemeral just drawn is unused, and no handshake was using it.      *)
LEMMA FreshUnused ==
    ASSUME NEW n \in Node, NEW s, Good(s, n), NEW t \in NodeState,
           t.cur = s.cur, t.pend = s.pend, t.prev = s.prev,
           t.got = s.got, t.next = s.next + 1,
           \A f \in t.sent \ s.sent : f.type # "data"
    PROVE  Fresh(s, n) \notin Live(s) /\ Unused(t, n, Fresh(s, n))
<1> DEFINE e == Fresh(s, n)
<1>1. s \in NodeState /\ NodeInv(s, n)
  BY DEF Good
<1>2. s.next \in Nat
  BY <1>1 DEF NodeState
<1>3. ~Drawn(s, n, e) /\ Drawn(t, n, e)
  BY <1>2 DEF Drawn, Fresh
<1> HIDE DEF e
<1>4. e \notin Live(s)
  BY <1>1, <1>3 DEF NodeInv, Unused
<1>5. \A x \in Slots(t) : OurEph(x) # e
  BY <1>1, <1>3 DEF NodeInv, SlotInv, Slots
<1>6. \A f \in t.sent : f.type = "data" => OurEph(f) # e
  BY <1>1, <1>3 DEF NodeInv, SentInv
<1>7. \A f \in t.got : OurEphOf(f) # e
  BY <1>1, <1>3 DEF NodeInv
<1>8. Unused(t, n, e)
  BY <1>3, <1>5, <1>6, <1>7 DEF Unused
<1>9. QED
  BY <1>4, <1>8 DEF e

(* The keys of a handshake become the first epoch of steady().             *)
LEMMA EnterSteadyGood ==
    ASSUME NEW n \in Node, NEW s, Good(s, n), NEW x \in EpochSlot,
           Unused(s, n, OurEph(x)), PeerEph(x)[1] # n
    PROVE  Good(EnterSteady(s, x), n)
<1> DEFINE t == EnterSteady(s, x)
<1>1. s \in NodeState /\ NodeInv(s, n)
  BY DEF Good
<1>2. t \in NodeState
  <2>1. {x} \in Option(EpochSlot) /\ \A S : {} \in Option(S)
    BY DEF Option
  <2>2. QED
    BY <1>1, <2>1, Zenon DEF EnterSteady, NodeState
<1>3. /\ t.phase = "steady" /\ t.hs = {} /\ t.resp = {} /\ t.cur = {x}
      /\ t.pend = {} /\ t.prev = {} /\ t.init = {}
      /\ t.next = s.next /\ t.sent = s.sent /\ t.got = s.got
  BY <1>1 DEF EnterSteady, NodeState
<1> HIDE DEF t
<1>4. Live(t) = {} /\ Slots(t) = {x}
  BY <1>3 DEF Live, Slots
<1>5. \A f \in s.got : f.ep = x.ep /\ f.role # x.role => OurEphOf(f) = OurEph(x)
  BY <1>1 DEF OurEph, OurEphOf, NodeState, DataFrame, EpochSlot, Role
<1>6. \A f \in s.sent : f.type = "data" /\ f.ep = x.ep /\ f.role = x.role
                          => OurEph(f) = OurEph(x)
  BY DEF OurEph
<1>7. SlotInv(t, n, x)
  BY <1>3, <1>5, <1>6 DEF SlotInv, Unused, Drawn
<1>8. \A f \in t.sent : SentInv(t, n, f)
  BY <1>1, <1>3 DEF NodeInv, SentInv, Drawn
<1>9. \A f \in t.got : Drawn(t, n, OurEphOf(f))
  BY <1>1, <1>3 DEF NodeInv, Drawn
<1>10. NodeInv(t, n)
  BY <1>3, <1>4, <1>7, <1>8, <1>9 DEF NodeInv
<1>11. QED
  BY <1>2, <1>10 DEF Good, t

(* The keys of a rekey handshake become the pending epoch.                 *)
LEMMA ArmPendGood ==
    ASSUME NEW n \in Node, NEW s, Good(s, n), s.phase = "steady",
           NEW e \in Eph, NEW r \in Eph, NEW role \in Role,
           NEW mine, mine = (IF role = "init" THEN e ELSE r),
           (IF role = "init" THEN r ELSE e)[1] # n,
           Unused(s, n, mine), mine \notin Live(s)
    PROVE  Good(ArmPend(s, e, r, role), n)
<1> DEFINE x == Slot(e, r, role, ~CurK(s))
           t == ArmPend(s, e, r, role)
<1>1. s \in NodeState /\ NodeInv(s, n)
  BY DEF Good
<1>2. /\ x \in EpochSlot /\ x.ep = <<e, r>> /\ x.role = role
      /\ x.k = ~CurK(s)
  BY DEF EpochSlot, Slot, CurK, Eph
<1>3. OurEph(x) = mine /\ PeerEph(x)[1] # n
  BY <1>2 DEF OurEph, PeerEph, Eph
<1>4. t = [s EXCEPT !.pend = {x}]
  BY DEF ArmPend
<1> HIDE DEF x, t
<1>5. t \in NodeState
  BY <1>1, <1>2, <1>4 DEF NodeState, Option
<1>6. /\ t.phase = s.phase /\ t.hs = s.hs /\ t.resp = s.resp /\ t.cur = s.cur
      /\ t.pend = {x} /\ t.prev = s.prev /\ t.init = s.init
      /\ t.next = s.next /\ t.sent = s.sent /\ t.got = s.got
  BY <1>1, <1>4 DEF NodeState
<1>7. Live(t) = Live(s) /\ Slots(t) \subseteq Slots(s) \cup {x}
  BY <1>6 DEF Live, Slots
<1>8. \A f \in s.got : f.ep = x.ep /\ f.role # x.role => OurEphOf(f) = OurEph(x)
  BY <1>1, <1>2 DEF OurEph, OurEphOf, NodeState, DataFrame, EpochSlot, Role
<1>9. \A f \in s.sent : f.type = "data" /\ f.ep = x.ep /\ f.role = x.role
                          => OurEph(f) = OurEph(x)
  BY DEF OurEph
<1>10. SlotInv(t, n, x)
  BY <1>3, <1>6, <1>8, <1>9 DEF SlotInv, Unused, Drawn
<1>11. \A y \in Slots(t) : SlotInv(t, n, y)
  BY <1>1, <1>6, <1>7, <1>10 DEF NodeInv, SlotInv, Drawn
<1>12. \A c \in s.cur : c.k # x.k
  <2>1. \A c, d \in s.cur : c = d
    BY <1>1 DEF NodeState, Option
  <2>2. \A c \in s.cur : c.k \in BOOLEAN
    BY <1>1 DEF NodeState, Option, EpochSlot
  <2>3. QED
    BY <1>2, <2>1, <2>2 DEF CurK
<1>13. \A c \in s.cur \cup s.prev : OurEph(c) # OurEph(x)
  BY <1>3 DEF Unused, Slots
<1>14. \A u \in Live(t) : Unused(t, n, u)
  BY <1>1, <1>3, <1>6, <1>7 DEF NodeInv, Unused, Drawn
<1>15. \A f \in t.sent : SentInv(t, n, f)
  BY <1>1, <1>6 DEF NodeInv, SentInv, Drawn
<1>16. \A f \in t.got : Drawn(t, n, OurEphOf(f))
  BY <1>1, <1>6 DEF NodeInv, Drawn
<1>17. NodeInv(t, n)
  BY <1>1, <1>6, <1>11, <1>12, <1>13, <1>14, <1>15, <1>16 DEF NodeInv
<1>18. QED
  BY <1>5, <1>17 DEF Good, t

(* Giving up handshakes in flight, counting resends, dropping `prev'.      *)
LEMMA DropGood ==
    ASSUME NEW n \in Node, NEW s, Good(s, n), NEW t \in NodeState,
           t.phase = s.phase, t.cur = s.cur, t.pend = s.pend,
           t.prev \subseteq s.prev, t.resp \subseteq s.resp,
           \A h \in t.hs : \E g \in s.hs : h.eph = g.eph,
           \A i \in t.init : \E g \in s.init : i.eph = g.eph,
           t.next = s.next, t.sent = s.sent, t.got = s.got
    PROVE  Good(t, n)
<1>1. s \in NodeState /\ NodeInv(s, n)
  BY DEF Good
<1>2. Live(t) \subseteq Live(s) /\ Slots(t) \subseteq Slots(s)
  BY DEF Live, Slots
<1>3. \A x \in Slots(t) : SlotInv(t, n, x)
  BY <1>1, <1>2 DEF NodeInv, SlotInv, Drawn
<1>4. \A e \in Live(t) : Unused(t, n, e)
  BY <1>1, <1>2 DEF NodeInv, Unused, Drawn
<1>5. \A f \in t.sent : SentInv(t, n, f)
  BY <1>1 DEF NodeInv, SentInv, Drawn
<1>6. \A f \in t.got : Drawn(t, n, OurEphOf(f))
  BY <1>1 DEF NodeInv, Drawn
<1>7. /\ s.hs = {} => t.hs = {}
      /\ s.init = {} => t.init = {}
      /\ Slots(s) = {} => Slots(t) = {}
  BY <1>2
<1>8. /\ \A h \in t.hs, r \in t.resp : h.eph # r.e2
      /\ \A i \in t.init, r \in t.resp : i.eph # r.e2
  BY <1>1 DEF NodeInv
<1>9. NodeInv(t, n)
  BY <1>1, <1>3, <1>4, <1>5, <1>6, <1>7, <1>8 DEF NodeInv
<1>10. QED
  BY <1>9 DEF Good

(* The cutover: pend becomes cur and cur becomes prev.                     *)
LEMMA RotateGood ==
    ASSUME NEW n \in Node, NEW s, Good(s, n), NEW t \in NodeState,
           s.phase = "steady", s.pend # {},
           t.cur = s.pend, t.prev = s.cur, t.pend = {},
           t.phase = s.phase, t.hs = s.hs, t.resp = s.resp, t.init = s.init,
           t.next = s.next, t.sent = s.sent, t.got = s.got
    PROVE  Good(t, n)
<1>1. s \in NodeState /\ NodeInv(s, n)
  BY DEF Good
<1>2. Live(t) = Live(s) /\ Slots(t) \subseteq Slots(s)
  BY DEF Live, Slots
<1>3. \A x \in Slots(t) : SlotInv(t, n, x)
  BY <1>1, <1>2 DEF NodeInv, SlotInv, Drawn
<1>4. \A e \in Live(t) : Unused(t, n, e)
  BY <1>1, <1>2 DEF NodeInv, Unused, Drawn
<1>5. \A f \in t.sent : SentInv(t, n, f)
  BY <1>1 DEF NodeInv, SentInv, Drawn
<1>6. \A f \in t.got : Drawn(t, n, OurEphOf(f))
  BY <1>1 DEF NodeInv, Drawn
<1>7. NodeInv(t, n)
  BY <1>1, <1>3, <1>4, <1>5, <1>6 DEF NodeInv
<1>8. QED
  BY <1>7 DEF Good

LEMMA MarkTyped ==
    ASSUME NEW S \in Option(EpochSlot), NEW f \in DataFrame
    PROVE  /\ Mark(S, f) \in Option(EpochSlot)
           /\ \A y \in Mark(S, f) : \E x \in S :
                /\ y.ep = x.ep /\ y.role = x.role /\ y.ctr = x.ctr /\ y.k = x.k
                /\ y.seen = x.seen \cup {f.ctr}
           /\ Mark(S, f) = {} <=> S = {}
<1>1. S \subseteq EpochSlot /\ f.ctr \in Nat
  BY DEF Option, DataFrame
<1>2. \A x \in S : [x EXCEPT !.seen = @ \cup {f.ctr}] \in EpochSlot
  BY <1>1 DEF EpochSlot
<1>3. Mark(S, f) \in Option(EpochSlot)
  BY <1>2 DEF Option, Mark
<1>4. ASSUME NEW y \in Mark(S, f)
      PROVE  \E x \in S :
               /\ y.ep = x.ep /\ y.role = x.role /\ y.ctr = x.ctr /\ y.k = x.k
               /\ y.seen = x.seen \cup {f.ctr}
  <2>1. PICK x \in S : y = [x EXCEPT !.seen = @ \cup {f.ctr}]
    BY DEF Mark
  <2>2. /\ y.ep = x.ep /\ y.role = x.role /\ y.ctr = x.ctr /\ y.k = x.k
        /\ y.seen = x.seen \cup {f.ctr}
    BY <1>1, <2>1 DEF EpochSlot
  <2>3. QED
    BY <2>2
<1>5. Mark(S, f) = {} <=> S = {}
  BY Zenon DEF Mark
<1>6. QED
  BY <1>3, <1>4, <1>5

(* A frame that opened under a slot is marked in that slot's window.       *)
LEMMA MarkGood ==
    ASSUME NEW n \in Node, NEW s, Good(s, n), NEW t \in NodeState,
           NEW f \in DataFrame,
           \/ /\ t.cur = Mark(s.cur, f) /\ t.prev = s.prev
              /\ Opens(s.cur, f)
           \/ /\ t.cur = s.cur /\ t.prev = Mark(s.prev, f)
              /\ Opens(s.prev, f),
           t.pend = s.pend, t.got = s.got \cup {f},
           t.phase = s.phase, t.hs = s.hs, t.resp = s.resp, t.init = s.init,
           t.next = s.next, t.sent = s.sent
    PROVE  Good(t, n)
<1>1. s \in NodeState /\ NodeInv(s, n)
  BY DEF Good
<1>2. /\ s.cur \in Option(EpochSlot) /\ s.prev \in Option(EpochSlot)
      /\ s.pend \in Option(EpochSlot)
  BY <1>1 DEF NodeState
<1>3. PICK w \in s.cur \cup s.prev :
         /\ f.ep = w.ep /\ f.role # w.role
         /\ \/ w \in s.cur /\ t.cur = Mark(s.cur, f) /\ t.prev = s.prev
            \/ w \in s.prev /\ t.cur = s.cur /\ t.prev = Mark(s.prev, f)
  BY DEF Opens
<1>4. OurEphOf(f) = OurEph(w)
  BY <1>2, <1>3 DEF OurEphOf, OurEph, DataFrame, Option, EpochSlot, Role
<1>5. \A y \in Slots(s) : f.ep = y.ep /\ f.role # y.role => OurEphOf(f) = OurEph(y)
  BY <1>2 DEF OurEphOf, OurEph, DataFrame, Option, EpochSlot, Role, Slots
(* Whatever slot f belongs to is the marked one.                           *)
<1>6. \A y \in t.cur \cup t.pend \cup t.prev :
         /\ \E x \in Slots(s) :
              /\ y.ep = x.ep /\ y.role = x.role /\ y.ctr = x.ctr /\ y.k = x.k
              /\ x.seen \subseteq y.seen
         /\ f.ep = y.ep /\ f.role # y.role => f.ctr \in y.seen
  <2>1. CASE w \in s.cur /\ t.cur = Mark(s.cur, f) /\ t.prev = s.prev
    BY <1>1, <1>2, <1>4, <1>5, <2>1, MarkTyped, SMTT(40) DEF Slots, NodeInv
  <2>2. CASE w \in s.prev /\ t.cur = s.cur /\ t.prev = Mark(s.prev, f)
    BY <1>1, <1>2, <1>4, <1>5, <2>2, MarkTyped, SMTT(40) DEF Slots, NodeInv
  <2>3. QED
    BY <1>3, <2>1, <2>2
<1>7. Live(t) = Live(s)
  BY DEF Live
<1>8. Drawn(t, n, OurEphOf(f)) /\ OurEphOf(f) \notin Live(s)
  <2>1. w \in Slots(s)
    BY <1>3 DEF Slots
  <2>2. QED
    BY <1>1, <1>4, <2>1 DEF NodeInv, SlotInv, Unused, Drawn
<1>9. \A y \in Slots(t) : SlotInv(t, n, y)
  BY <1>1, <1>6, SMTT(40) DEF NodeInv, SlotInv, Drawn, Slots, OurEph, PeerEph
<1>10. \A e \in Live(t) : Unused(t, n, e)
  <2>1. \A y \in Slots(t) : \E x \in Slots(s) : OurEph(y) = OurEph(x)
    BY <1>6 DEF Slots, OurEph
  <2>2. QED
    BY <1>1, <1>7, <1>8, <2>1, SMTT(40) DEF NodeInv, Unused, Drawn
<1>11. /\ \A y \in t.cur : \E x \in s.cur : OurEph(y) = OurEph(x) /\ y.k = x.k
       /\ \A y \in t.prev : \E x \in s.prev : OurEph(y) = OurEph(x) /\ y.k = x.k
       /\ t.cur = {} <=> s.cur = {}
       /\ t.prev = {} <=> s.prev = {}
  <2>1. \A S \in Option(EpochSlot) :
           /\ \A y \in Mark(S, f) : \E x \in S : OurEph(y) = OurEph(x) /\ y.k = x.k
           /\ Mark(S, f) = {} <=> S = {}
    BY MarkTyped DEF OurEph
  <2>2. QED
    BY <1>2, <1>3, <2>1
<1>12. \A g \in t.sent : SentInv(t, n, g)
  BY <1>1 DEF NodeInv, SentInv, Drawn
<1>13. \A g \in t.got : Drawn(t, n, OurEphOf(g))
  BY <1>1, <1>8 DEF NodeInv, Drawn
<1>14. NodeInv(t, n)
  BY <1>1, <1>9, <1>10, <1>11, <1>12, <1>13, SMTT(40) DEF NodeInv, Slots
<1>15. QED
  BY <1>14 DEF Good

LEMMA MaybeTransmitGood ==
    ASSUME NEW n \in Node, NEW s, Good(s, n), NEW t \in MaybeTransmit(s)
    PROVE  Good(t, n)
BY TransmitGood DEF MaybeTransmit, Kind

-----------------------------------------------------------------------------
(* One lemma per action.                                                   *)

LinkOK == TypeOK /\ LinkInv

LEMMA BecomeOK ==
    ASSUME LinkOK, NEW n \in Node, NEW t, Good(t, n), Become(n, t)
    PROVE  LinkOK'
<1>1. node \in [Node -> NodeState] /\ t \in NodeState
  BY DEF LinkOK, TypeOK, Good
<1>2. node' = [node EXCEPT ![n] = t]
  BY DEF Become
<1>3. TypeOK'
  BY <1>1, <1>2 DEF TypeOK
<1>4. \A m \in Node : node'[m] = IF m = n THEN t ELSE node[m]
  BY <1>1, <1>2
<1>5. \A m \in Node : Good(node'[m], m)
  BY <1>4 DEF LinkOK, LinkInv
<1>6. QED
  BY <1>3, <1>5 DEF LinkOK, LinkInv

(* What a frame from another end carries.                                  *)
LEMMA Received ==
    ASSUME LinkOK, NEW n \in Node, NEW m \in Node \ {n},
           NEW f \in node[m].sent
    PROVE  /\ f.type = "data" => f \in DataFrame
           /\ f.type = "msg1" => f.e1 \in Eph /\ f.e1[1] # n
           /\ f.type = "msg2" => f.e1 \in Eph /\ f.e2 \in Eph /\ f.e2[1] # n
           /\ f.type = "msg3" => f.e1 \in Eph /\ f.e2 \in Eph
<1>1. node[m] \in NodeState /\ NodeInv(node[m], m)
  BY DEF LinkOK, LinkInv, Good
<1>2. f \in Frame /\ SentInv(node[m], m, f)
  BY <1>1 DEF NodeState, NodeInv
<1>3. QED
  BY <1>2 DEF Frame, DataFrame, HandshakeFrame, SentInv

LEMMA StartSessionOK ==
    ASSUME LinkOK, NEW n \in Node, StartSession(n)
    PROVE  LinkOK'
<1> DEFINE s == node[n]
           e == Fresh(s, n)
           B == IF n \in PeerSentFirst THEN s.sent ELSE s.sent \cup {Msg1(e)}
           H == {[eph |-> e, resends |-> 0]}
           t == [s EXCEPT !.phase = "handshake", !.epoch = @ + 1, !.hs = H,
                          !.next = @ + 1, !.sent = B]
<1>1. s \in NodeState /\ NodeInv(s, n) /\ Good(s, n) /\ s.phase = "idle"
  BY DEF LinkOK, LinkInv, Good, StartSession
<1>2. /\ e \in Eph /\ Msg1(e) \in Frame /\ Msg1(e).type = "msg1"
      /\ Msg1(e).e1 = e /\ e[1] = n
  BY <1>1 DEF Fresh, Eph, NodeState, Msg1, Frame, HandshakeFrame
<1>3. /\ H \in Option([eph : Eph, resends : Nat])
      /\ \A h \in H : h.eph = e
  BY <1>2 DEF Option
<1>4. /\ B \in SUBSET Frame /\ s.sent \subseteq B
      /\ \A f \in B \ s.sent : f.type = "msg1" /\ f.e1 = e
  BY <1>1, <1>2 DEF NodeState
<1>5. Become(n, t)
  BY DEF StartSession
<1> HIDE DEF s, e, B, H
<1>6. t \in NodeState
  <2>1. s.epoch + 1 \in Nat /\ s.next + 1 \in Nat
    BY <1>1 DEF NodeState
  <2>2. QED
    BY <1>1, <1>3, <1>4, <2>1, Zenon DEF NodeState
<1>7. /\ t.phase = "handshake" /\ t.hs = H /\ t.next = s.next + 1 /\ t.sent = B
      /\ t.resp = s.resp /\ t.cur = s.cur /\ t.pend = s.pend
      /\ t.prev = s.prev /\ t.init = s.init /\ t.got = s.got
  BY <1>1 DEF NodeState
<1> HIDE DEF t
<1>8. Unused(t, n, e)
  BY <1>1, <1>4, <1>6, <1>7, FreshUnused DEF e
<1>9. t.resp = {} /\ t.init = {} /\ Slots(t) = {}
  BY <1>1, <1>7 DEF NodeInv, Slots
<1>10. Live(t) \subseteq {e}
  BY <1>3, <1>7, <1>9 DEF Live
<1>11. s.next \in Nat /\ \A x : Drawn(s, n, x) /\ x \in Eph => Drawn(t, n, x)
  BY <1>1, <1>7 DEF Drawn, Eph, NodeState
<1>12. \A f \in t.sent : SentInv(t, n, f)
  <2>1. \A f \in s.sent : f.type = "data" => OurEph(f) \in Eph
    BY <1>1, DataTyped DEF DataFrame, OurEph
  <2>2. QED
    BY <1>1, <1>2, <1>4, <1>7, <1>11, <2>1 DEF NodeInv, SentInv
<1>13. \A f \in t.got : Drawn(t, n, OurEphOf(f))
  <2>1. \A f \in s.got : OurEphOf(f) \in Eph
    BY <1>1 DEF NodeState, DataFrame, OurEphOf
  <2>2. QED
    BY <1>1, <1>7, <1>11, <2>1, Zenon DEF NodeInv
<1>14. NodeInv(t, n)
  BY <1>7, <1>8, <1>9, <1>10, <1>12, <1>13 DEF NodeInv, Slots
<1>15. QED
  BY <1>5, <1>6, <1>14, BecomeOK DEF Good

LEMMA HandshakeMsg2OK ==
    ASSUME LinkOK, NEW n \in Node, NEW m \in Node \ {n},
           NEW f \in node[m].sent, HandshakeMsg2(n, f)
    PROVE  LinkOK'
<1> DEFINE s == node[n]
           x == Slot(f.e1, f.e2, "init", FALSE)
           up == EnterSteady(s, x)
           said == [up EXCEPT !.sent = @ \cup {Msg3(f.e1, f.e2, TRUE)}]
<1>1. Good(s, n) /\ NodeInv(s, n) /\ f.type = "msg2"
  BY DEF LinkOK, LinkInv, Good, HandshakeMsg2
<1>2. f.e1 \in Eph /\ f.e2 \in Eph /\ f.e2[1] # n
  BY <1>1, Received
<1>3. PICK h \in s.hs :
         \/ Become(n, EndSession(s))
         \/ /\ f.e1 = h.eph
            /\ Become(n, IF Pattern = "IK" THEN up ELSE said)
  BY Zenon DEF HandshakeMsg2
<1>4. CASE Become(n, EndSession(s))
  BY <1>1, <1>4, EndSessionGood, BecomeOK
<1>5. CASE f.e1 = h.eph /\ Become(n, IF Pattern = "IK" THEN up ELSE said)
  <2>1. x \in EpochSlot /\ OurEph(x) = f.e1 /\ PeerEph(x) = f.e2
    BY <1>2 DEF EpochSlot, Slot, Role, OurEph, PeerEph
  <2>2. f.e1 \in Live(s)
    BY <1>3, <1>5 DEF Live
  <2>3. Unused(s, n, OurEph(x))
    BY <1>1, <2>1, <2>2, Zenon DEF NodeInv
  <2> HIDE DEF s, x
  <2>4. Good(up, n)
    BY <1>1, <1>2, <2>1, <2>3, EnterSteadyGood
  <2> HIDE DEF up
  <2>5. Msg3(f.e1, f.e2, TRUE) \in Frame /\ Msg3(f.e1, f.e2, TRUE).type = "msg3"
    BY <1>2 DEF Msg3, Frame, HandshakeFrame
  <2>6. Good(said, n)
    <3>1. said \in NodeState
      BY <2>4, <2>5, Zenon DEF Good, NodeState
    <3>2. /\ said.phase = up.phase /\ said.hs = up.hs /\ said.resp = up.resp
          /\ said.cur = up.cur /\ said.pend = up.pend /\ said.prev = up.prev
          /\ said.init = up.init /\ said.got = up.got
          /\ said.sent = up.sent \cup {Msg3(f.e1, f.e2, TRUE)}
      BY <2>4 DEF Good, NodeState
    <3>3. said.next = up.next /\ up.next \in Nat
      BY <2>4 DEF Good, NodeState
    <3> HIDE DEF said
    <3>4. \A g \in said.sent \ up.sent : SentInv(said, n, g) /\ g.type # "data"
      BY <2>5, <3>2, Zenon DEF SentInv
    <3>5. up.next <= said.next
      BY <3>3
    <3>6. up.sent \subseteq said.sent
      BY <3>2
    <3>7. QED
      BY <2>4, <3>1, <3>2, <3>4, <3>5, <3>6, SayGood, Zenon
  <2>7. QED
    BY <1>5, <2>4, <2>6, BecomeOK
<1>6. QED
  BY <1>3, <1>4, <1>5, Zenon

(* A msg1 answered with a msg2 that carries an ephemeral drawn for it.     *)
LEMMA AnswerGood ==
    ASSUME NEW n \in Node, NEW s, Good(s, n), NEW e \in Eph,
           NEW neg, NEW t \in NodeState,
           t.phase = s.phase, t.hs = s.hs, t.resp = s.resp, t.cur = s.cur,
           t.pend = s.pend, t.prev = s.prev, t.init = s.init,
           t.got = s.got, t.next = s.next + 1,
           t.sent = s.sent \cup {Msg2(e, Fresh(s, n), neg)}
    PROVE  /\ Good(t, n)
           /\ Fresh(s, n) \in Eph
           /\ Fresh(s, n) \notin Live(t)
           /\ Unused(t, n, Fresh(s, n))
<1> DEFINE g == Msg2(e, Fresh(s, n), neg)
<1>1. s.next \in Nat
  BY DEF Good, NodeState
<1>2. g.type = "msg2" /\ g.e2 = Fresh(s, n) /\ Fresh(s, n)[1] = n
  BY DEF Msg2, Fresh
<1>3. Fresh(s, n) \in Eph
  BY <1>1 DEF Fresh, Eph
<1> HIDE DEF g
<1>4. t.sent = s.sent \cup {g}
  BY DEF g
<1>5. \A f \in t.sent \ s.sent : SentInv(t, n, f) /\ f.type # "data"
  BY <1>2, <1>4 DEF SentInv
<1>6. Good(t, n)
  <2>1. s.next <= t.next /\ s.sent \subseteq t.sent
    BY <1>1, <1>4
  <2>2. QED
    BY <1>5, <2>1, SayGood
<1>7. Fresh(s, n) \notin Live(s) /\ Unused(t, n, Fresh(s, n))
  BY <1>5, FreshUnused
<1>8. Live(t) = Live(s)
  BY DEF Live
<1>9. QED
  BY <1>3, <1>6, <1>7, <1>8

(* An XX responder now waits for the msg3 that completes its answer.       *)
LEMMA AwaitGood ==
    ASSUME NEW n \in Node, NEW s, Good(s, n), NEW e \in Eph, NEW r \in Eph,
           e[1] # n, Unused(s, n, r), r \notin Live(s), NEW t \in NodeState,
           t.resp = {[e1 |-> e, e2 |-> r]},
           \/ s.phase = "steady" /\ t.phase = "steady"
           \/ s.phase = "handshake" /\ t.phase = "awaitMsg3",
           \A h \in t.hs : \E g \in s.hs : h.eph = g.eph,
           t.cur = s.cur, t.pend = s.pend, t.prev = s.prev, t.init = s.init,
           t.next = s.next, t.sent = s.sent, t.got = s.got
    PROVE  Good(t, n)
<1>1. s \in NodeState /\ NodeInv(s, n)
  BY DEF Good
<1>2. Slots(t) = Slots(s)
  BY DEF Slots
<1>3. Live(t) \subseteq Live(s) \cup {r}
  BY DEF Live
<1>4. \A x \in Slots(t) : SlotInv(t, n, x)
  BY <1>1, <1>2 DEF NodeInv, SlotInv, Drawn
<1>5. \A x \in Live(t) : Unused(t, n, x)
  BY <1>1, <1>2, <1>3, SMTT(40) DEF NodeInv, Unused, Drawn
<1>6. \A f \in t.sent : SentInv(t, n, f)
  BY <1>1 DEF NodeInv, SentInv, Drawn
<1>7. \A f \in t.got : Drawn(t, n, OurEphOf(f))
  BY <1>1 DEF NodeInv, Drawn
<1>8. /\ \A h \in t.hs, q \in t.resp : h.eph # q.e2
      /\ \A i \in t.init, q \in t.resp : i.eph # q.e2
      /\ \A q \in t.resp : q.e1[1] # n
  BY DEF Live
<1>9. s.hs = {} => t.hs = {}
  OBVIOUS
<1>10. NodeInv(t, n)
  BY <1>1, <1>2, <1>4, <1>5, <1>6, <1>7, <1>8, <1>9, SMTT(40) DEF NodeInv
<1>11. QED
  BY <1>10 DEF Good

HsReset(s) == {[h EXCEPT !.resends = 0] : h \in s.hs}

LEMMA HsResetTyped ==
    ASSUME NEW s \in NodeState
    PROVE  /\ HsReset(s) \in Option([eph : Eph, resends : Nat])
           /\ \A h \in HsReset(s) : \E g \in s.hs : h.eph = g.eph
BY DEF HsReset, NodeState, Option

LEMMA HsResetGood ==
    ASSUME NEW n \in Node, NEW s, Good(s, n)
    PROVE  Good([s EXCEPT !.hs = HsReset(s)], n)
<1> DEFINE t == [s EXCEPT !.hs = HsReset(s)]
<1>1. s \in NodeState
  BY DEF Good
<1>2. t \in NodeState
  BY <1>1, HsResetTyped, Zenon DEF NodeState
<1>3. /\ t.phase = s.phase /\ t.hs = HsReset(s) /\ t.resp = s.resp
      /\ t.cur = s.cur /\ t.pend = s.pend /\ t.prev = s.prev
      /\ t.init = s.init /\ t.next = s.next /\ t.sent = s.sent
      /\ t.got = s.got
  BY <1>1 DEF NodeState
<1> HIDE DEF t
<1>4. Good(t, n)
  BY <1>1, <1>2, <1>3, HsResetTyped, DropGood, SMTT(40)
<1>5. QED
  BY <1>4 DEF t

LEMMA HandshakeMsg1OK ==
    ASSUME LinkOK, NEW n \in Node, NEW m \in Node \ {n},
           NEW f \in node[m].sent, HandshakeMsg1(n, f)
    PROVE  LinkOK'
<1> DEFINE s == node[n]
           r == Fresh(s, n)
           a == [s EXCEPT !.next = @ + 1,
                          !.sent = @ \cup {Msg2(f.e1, r, Pattern = "XX")}]
           x == Slot(f.e1, r, "resp", FALSE)
           Q == {[e1 |-> f.e1, e2 |-> r]}
           w == [a EXCEPT !.phase = "awaitMsg3", !.hs = HsReset(a), !.resp = Q]
<1>1. Good(s, n) /\ s \in NodeState /\ f.type = "msg1" /\ s.phase = "handshake"
  BY DEF LinkOK, LinkInv, Good, HandshakeMsg1
<1>2. f.e1 \in Eph /\ f.e1[1] # n
  BY <1>1, Received
<1>3. \/ Become(n, [s EXCEPT !.hs = HsReset(s)])
      \/ Become(n, EnterSteady(a, x))
      \/ Become(n, w)
  BY Zenon DEF HandshakeMsg1, HsReset
<1> HIDE DEF s
<1>4. r \in Eph /\ Msg2(f.e1, r, Pattern = "XX") \in Frame
  BY <1>1, <1>2 DEF Fresh, Eph, NodeState, Msg2, Frame, HandshakeFrame
<1>5. a \in NodeState
  <2>1. s.next + 1 \in Nat
    BY <1>1 DEF NodeState
  <2> HIDE DEF r
  <2>2. QED
    BY <1>1, <1>4, <2>1, Zenon DEF NodeState
<1>6. /\ a.phase = s.phase /\ a.hs = s.hs /\ a.resp = s.resp /\ a.cur = s.cur
      /\ a.pend = s.pend /\ a.prev = s.prev /\ a.init = s.init
      /\ a.got = s.got /\ a.next = s.next + 1
      /\ a.sent = s.sent \cup {Msg2(f.e1, r, Pattern = "XX")}
  BY <1>1 DEF NodeState
<1> HIDE DEF a
<1>7. Good(a, n) /\ r \notin Live(a) /\ Unused(a, n, r)
  BY <1>1, <1>2, <1>5, <1>6, AnswerGood, SMTT(40)
<1> HIDE DEF r
<1>8. CASE Become(n, [s EXCEPT !.hs = HsReset(s)])
  BY <1>1, <1>8, HsResetGood, BecomeOK
<1>9. CASE Become(n, EnterSteady(a, x))
  <2>1. x \in EpochSlot /\ OurEph(x) = r /\ PeerEph(x) = f.e1
    BY <1>2, <1>4 DEF EpochSlot, Slot, Role, OurEph, PeerEph
  <2> HIDE DEF x
  <2>2. Good(EnterSteady(a, x), n)
    BY <1>2, <1>7, <2>1, EnterSteadyGood
  <2>3. QED
    BY <1>9, <2>2, BecomeOK
<1>10. CASE Become(n, w)
  <2>1. Q \in Option([e1 : Eph, e2 : Eph])
    BY <1>2, <1>4 DEF Option
  <2>2. w \in NodeState
    <3> HIDE DEF Q
    <3>1. QED
      BY <1>5, <2>1, HsResetTyped, Zenon DEF NodeState
  <2>3. /\ w.phase = "awaitMsg3" /\ w.hs = HsReset(a) /\ w.resp = Q
        /\ w.cur = a.cur /\ w.pend = a.pend /\ w.prev = a.prev
        /\ w.init = a.init /\ w.next = a.next /\ w.sent = a.sent
        /\ w.got = a.got
    BY <1>5 DEF NodeState
  <2> HIDE DEF w
  <2>4. Good(w, n)
    <3>1. \A h \in w.hs : \E g \in a.hs : h.eph = g.eph
      BY <1>5, <2>3, HsResetTyped
    <3>2. a.phase = "handshake" /\ w.phase = "awaitMsg3"
      BY <1>1, <1>6, <2>3
    <3>3. QED
      BY <1>2, <1>4, <1>7, <2>2, <2>3, <3>1, <3>2, AwaitGood
  <2>5. QED
    BY <1>10, <2>4, BecomeOK
<1>11. QED
  BY <1>3, <1>8, <1>9, <1>10, Zenon

LEMMA HandshakeOtherOK ==
    ASSUME LinkOK, NEW n \in Node, NEW f, HandshakeOther(n, f)
    PROVE  LinkOK'
<1>1. Good(node[n], n) /\ Become(n, [node[n] EXCEPT !.hs = HsReset(node[n])])
  BY DEF LinkOK, LinkInv, HandshakeOther, HsReset
<1>2. QED
  BY <1>1, HsResetGood, BecomeOK

LEMMA HandshakeMsg3OK ==
    ASSUME LinkOK, NEW n \in Node, NEW m \in Node \ {n},
           NEW f \in node[m].sent, HandshakeMsg3(n, f)
    PROVE  LinkOK'
<1> DEFINE s == node[n]
           x == Slot(f.e1, f.e2, "resp", FALSE)
<1>1. Good(s, n) /\ NodeInv(s, n) /\ f.type = "msg3"
  BY DEF LinkOK, LinkInv, Good, HandshakeMsg3
<1>2. f.e1 \in Eph /\ f.e2 \in Eph
  BY <1>1, Received
<1>3. PICK r \in s.resp :
         \/ f.e1 = r.e1 /\ f.e2 = r.e2 /\ Become(n, EnterSteady(s, x))
         \/ Become(n, EndSession(s))
  BY Zenon DEF HandshakeMsg3
<1> HIDE DEF s
<1>4. CASE Become(n, EndSession(s))
  BY <1>1, <1>4, EndSessionGood, BecomeOK
<1>5. CASE f.e1 = r.e1 /\ f.e2 = r.e2 /\ Become(n, EnterSteady(s, x))
  <2>1. x \in EpochSlot /\ OurEph(x) = f.e2 /\ PeerEph(x) = f.e1
    BY <1>2 DEF EpochSlot, Slot, Role, OurEph, PeerEph
  <2>2. f.e2 \in Live(s) /\ f.e1[1] # n
    BY <1>1, <1>3, <1>5 DEF Live, NodeInv
  <2>3. Unused(s, n, OurEph(x))
    BY <1>1, <2>1, <2>2, Zenon DEF NodeInv
  <2> HIDE DEF x
  <2>4. Good(EnterSteady(s, x), n)
    BY <1>1, <2>1, <2>2, <2>3, EnterSteadyGood
  <2>5. QED
    BY <1>5, <2>4, BecomeOK
<1>6. QED
  BY <1>3, <1>4, <1>5, Zenon

LEMMA HandshakeTimeoutOK ==
    ASSUME LinkOK, NEW n \in Node, HandshakeTimeout(n)
    PROVE  LinkOK'
<1> DEFINE s == node[n]
<1>1. Good(s, n) /\ s \in NodeState
  BY DEF LinkOK, LinkInv, Good
<1>2. PICK h \in s.hs :
         \/ Become(n, EndSession(s))
         \/ Become(n, [s EXCEPT !.hs = {[h EXCEPT !.resends = @ + 1]}])
  BY Zenon DEF HandshakeTimeout
<1> HIDE DEF s
<1>3. CASE Become(n, EndSession(s))
  BY <1>1, <1>3, EndSessionGood, BecomeOK
<1>4. CASE Become(n, [s EXCEPT !.hs = {[h EXCEPT !.resends = @ + 1]}])
  <2> DEFINE H == {[h EXCEPT !.resends = @ + 1]}
             t == [s EXCEPT !.hs = H]
  <2>1. h \in [eph : Eph, resends : Nat]
    BY <1>1, <1>2 DEF NodeState, Option
  <2>2. H \in Option([eph : Eph, resends : Nat]) /\ \A g \in H : g.eph = h.eph
    BY <2>1 DEF Option
  <2> HIDE DEF H
  <2>3. t \in NodeState
    BY <1>1, <2>2 DEF NodeState
  <2>4. /\ t.phase = s.phase /\ t.hs = H /\ t.resp = s.resp
        /\ t.cur = s.cur /\ t.pend = s.pend /\ t.prev = s.prev
        /\ t.init = s.init /\ t.next = s.next /\ t.sent = s.sent
        /\ t.got = s.got
    BY <1>1 DEF NodeState
  <2> HIDE DEF t
  <2>5. Good(t, n)
    BY <1>1, <1>2, <2>2, <2>3, <2>4, DropGood
  <2>6. QED
    BY <1>4, <2>5, BecomeOK DEF t, H
<1>5. QED
  BY <1>2, <1>3, <1>4

LEMMA RekeyMsg1OK ==
    ASSUME LinkOK, NEW n \in Node, NEW m \in Node \ {n},
           NEW f \in node[m].sent, RekeyMsg1(n, f)
    PROVE  LinkOK'
<1> DEFINE s == node[n]
           r == Fresh(s, n)
           Q == {[e1 |-> f.e1, e2 |-> r]}
           heard == [s EXCEPT !.dampened = TRUE, !.lastRx = "auth"]
           a == [heard EXCEPT !.next = @ + 1, !.sent = @ \cup {Msg2(f.e1, r, FALSE)},
                              !.cache = Q]
           w == [a EXCEPT !.resp = Q]
           armed == IF Pattern = "IK" THEN ArmPend(a, f.e1, r, "resp") ELSE w
<1>1. /\ Good(s, n) /\ s \in NodeState /\ NodeInv(s, n) /\ f.type = "msg1"
      /\ s.phase = "steady"
  BY DEF LinkOK, LinkInv, Good, RekeyMsg1, Steady
<1>2. f.e1 \in Eph /\ f.e1[1] # n
  BY <1>1, Received
<1>3. PICK t : t \in MaybeTransmit(heard) \cup MaybeTransmit(armed) /\ Become(n, t)
  BY DEF RekeyMsg1
<1> HIDE DEF s
<1>4. Good(heard, n)
  <2>1. heard \in NodeState
    BY <1>1, Zenon DEF NodeState
  <2>2. /\ heard.phase = s.phase /\ heard.hs = s.hs /\ heard.resp = s.resp
        /\ heard.cur = s.cur /\ heard.pend = s.pend /\ heard.prev = s.prev
        /\ heard.init = s.init /\ heard.next = s.next
        /\ heard.sent = s.sent /\ heard.got = s.got
    BY <1>1 DEF NodeState
  <2> HIDE DEF heard
  <2>3. QED
    BY <1>1, <2>1, <2>2, SameGood
<1>5. heard \in NodeState /\ heard.phase = "steady" /\ r = Fresh(heard, n)
  BY <1>1, Zenon DEF NodeState, Fresh
<1> HIDE DEF heard
<1>6. r \in Eph /\ Msg2(f.e1, r, FALSE) \in Frame
  BY <1>1, <1>2 DEF Fresh, Eph, NodeState, Msg2, Frame, HandshakeFrame
<1>7. Q \in Option([e1 : Eph, e2 : Eph])
  BY <1>2, <1>6 DEF Option
<1>8. a \in NodeState
  <2>1. heard.next + 1 \in Nat
    BY <1>5 DEF NodeState
  <2> HIDE DEF r, Q
  <2>2. QED
    BY <1>5, <1>6, <1>7, <2>1, Zenon DEF NodeState
<1>9. /\ a.phase = heard.phase /\ a.hs = heard.hs /\ a.resp = heard.resp
      /\ a.cur = heard.cur /\ a.pend = heard.pend /\ a.prev = heard.prev
      /\ a.init = heard.init /\ a.got = heard.got /\ a.next = heard.next + 1
      /\ a.sent = heard.sent \cup {Msg2(f.e1, r, FALSE)}
  BY <1>5 DEF NodeState
<1> HIDE DEF a, r
<1>10. Good(a, n) /\ r \notin Live(a) /\ Unused(a, n, r)
  BY <1>2, <1>4, <1>5, <1>8, <1>9, AnswerGood, Zenon
<1>11. Good(ArmPend(a, f.e1, r, "resp"), n)
  BY <1>2, <1>5, <1>6, <1>9, <1>10, ArmPendGood DEF Role
<1>12. Good(w, n)
  <2>1. w \in NodeState
    <3> HIDE DEF Q
    <3>1. QED
      BY <1>7, <1>8 DEF NodeState
  <2>2. /\ w.phase = a.phase /\ w.hs = a.hs /\ w.resp = Q
        /\ w.cur = a.cur /\ w.pend = a.pend /\ w.prev = a.prev
        /\ w.init = a.init /\ w.next = a.next /\ w.sent = a.sent
        /\ w.got = a.got
    BY <1>8 DEF NodeState
  <2> HIDE DEF w
  <2>3. a.phase = "steady" /\ w.phase = "steady"
    BY <1>5, <1>9, <2>2
  <2>4. \A h \in w.hs : \E g \in a.hs : h.eph = g.eph
    BY <2>2
  <2>5. QED
    BY <1>2, <1>6, <1>10, <2>1, <2>2, <2>3, <2>4, AwaitGood
<1>13. Good(armed, n)
  BY <1>11, <1>12
<1> HIDE DEF armed
<1>14. Good(t, n)
  BY <1>3, <1>4, <1>13, MaybeTransmitGood
<1>15. QED
  BY <1>3, <1>14, BecomeOK

LEMMA RekeyMsg3OK ==
    ASSUME LinkOK, NEW n \in Node, NEW m \in Node \ {n},
           NEW f \in node[m].sent, RekeyMsg3(n, f)
    PROVE  LinkOK'
<1> DEFINE s == node[n]
           taken(rx) == [s EXCEPT !.resp = {}, !.lastRx = rx]
           armed == ArmPend(taken("auth"), f.e1, f.e2, "resp")
<1>1. /\ Good(s, n) /\ s \in NodeState /\ NodeInv(s, n) /\ f.type = "msg3"
      /\ s.phase = "steady"
  BY DEF LinkOK, LinkInv, Good, RekeyMsg3, Steady
<1>2. f.e1 \in Eph /\ f.e2 \in Eph
  BY <1>1, Received
<1>3. PICK r \in s.resp :
         \E t : /\ Become(n, t)
                /\ \/ /\ f.e1 = r.e1 /\ f.e2 = r.e2
                      /\ t \in MaybeTransmit(armed)
                   \/ t \in MaybeTransmit(taken("unauth"))
  BY DEF RekeyMsg3
<1>4. PICK t : /\ Become(n, t)
               /\ \/ /\ f.e1 = r.e1 /\ f.e2 = r.e2
                     /\ t \in MaybeTransmit(armed)
                  \/ t \in MaybeTransmit(taken("unauth"))
  BY <1>3
<1> HIDE DEF s
<1>5. ASSUME NEW rx \in {"auth", "unauth"}
      PROVE  /\ Good(taken(rx), n) /\ taken(rx).phase = "steady"
             /\ r.e2 \notin Live(taken(rx)) /\ Unused(taken(rx), n, r.e2)
  <2> DEFINE u == taken(rx)
  <2>1. u \in NodeState
    BY <1>1, Zenon DEF NodeState, Option
  <2>2. /\ u.phase = s.phase /\ u.hs = s.hs /\ u.resp = {}
        /\ u.cur = s.cur /\ u.pend = s.pend /\ u.prev = s.prev
        /\ u.init = s.init /\ u.next = s.next
        /\ u.sent = s.sent /\ u.got = s.got
    BY <1>1 DEF NodeState
  <2> HIDE DEF u
  <2>3. Good(u, n)
    BY <1>1, <2>1, <2>2, DropGood
  <2>4. r.e2 \notin Live(u)
    BY <1>1, <1>3, <2>2 DEF NodeInv, Live
  <2>5. Unused(s, n, r.e2)
    BY <1>1, <1>3 DEF NodeInv, Live
  <2>6. Unused(u, n, r.e2)
    BY <2>2, <2>5 DEF Unused, Drawn, Slots
  <2>7. QED
    BY <1>1, <2>2, <2>3, <2>4, <2>6 DEF u
<1>6. r.e1[1] # n
  BY <1>1, <1>3 DEF NodeInv
<1> HIDE DEF taken
<1>7. CASE f.e1 = r.e1 /\ f.e2 = r.e2 /\ t \in MaybeTransmit(armed)
  <2>1. Good(armed, n)
    BY <1>2, <1>5, <1>6, <1>7, ArmPendGood DEF Role
  <2> HIDE DEF armed
  <2>2. QED
    BY <1>4, <1>7, <2>1, MaybeTransmitGood, BecomeOK
<1>8. CASE t \in MaybeTransmit(taken("unauth"))
  BY <1>4, <1>5, <1>8, MaybeTransmitGood, BecomeOK
<1>9. QED
  BY <1>4, <1>7, <1>8

LEMMA RekeyMsg2OK ==
    ASSUME LinkOK, NEW n \in Node, NEW m \in Node \ {n},
           NEW f \in node[m].sent, RekeyMsg2(n, f)
    PROVE  LinkOK'
<1> DEFINE s == node[n]
           ignored == [s EXCEPT !.lastRx = "unauth"]
           over(rx) == [TakeInit(s) EXCEPT !.lastRx = rx]
           done == over("auth")
           failed == over("unauth")
           pended == ArmPend(done, f.e1, f.e2, "init")
           B == IF Pattern = "IK" THEN pended.sent
                ELSE pended.sent \cup {Msg3(f.e1, f.e2, FALSE)}
           armed == [pended EXCEPT !.pendSelf = TRUE, !.sent = B]
<1>1. /\ Good(s, n) /\ s \in NodeState /\ NodeInv(s, n) /\ f.type = "msg2"
      /\ s.phase = "steady"
  BY DEF LinkOK, LinkInv, Good, RekeyMsg2, Steady
<1>2. f.e1 \in Eph /\ f.e2 \in Eph /\ f.e2[1] # n
  BY <1>1, Received
<1>3. PICK i \in s.init :
         \E t : /\ Become(n, t)
                /\ \/ t \in MaybeTransmit(ignored)
                   \/ f.e1 = i.eph /\ t \in MaybeTransmit(armed)
                   \/ t \in MaybeTransmit(done)
                   \/ t \in MaybeTransmit(failed)
  BY DEF RekeyMsg2
<1>4. PICK t : /\ Become(n, t)
               /\ \/ t \in MaybeTransmit(ignored)
                  \/ f.e1 = i.eph /\ t \in MaybeTransmit(armed)
                  \/ t \in MaybeTransmit(done)
                  \/ t \in MaybeTransmit(failed)
  BY <1>3
<1> HIDE DEF s
<1>5. Good(ignored, n)
  <2>1. ignored \in NodeState
    BY <1>1 DEF NodeState
  <2>2. /\ ignored.phase = s.phase /\ ignored.hs = s.hs /\ ignored.resp = s.resp
        /\ ignored.cur = s.cur /\ ignored.pend = s.pend
        /\ ignored.prev = s.prev /\ ignored.init = s.init
        /\ ignored.next = s.next /\ ignored.sent = s.sent /\ ignored.got = s.got
    BY <1>1 DEF NodeState
  <2> HIDE DEF ignored
  <2>3. QED
    BY <1>1, <2>1, <2>2, SameGood
<1>6. /\ done \in NodeState
      /\ done.phase = s.phase /\ done.hs = s.hs /\ done.resp = s.resp
      /\ done.cur = s.cur /\ done.pend = s.pend /\ done.prev = s.prev
      /\ done.init = {} /\ done.next = s.next
      /\ done.sent = s.sent /\ done.got = s.got
  BY <1>1, Zenon DEF NodeState, Option, TakeInit
<1> HIDE DEF done, ignored
<1>7. Good(failed, n)
  <2>1. /\ failed \in NodeState
        /\ failed.phase = s.phase /\ failed.hs = s.hs /\ failed.resp = s.resp
        /\ failed.cur = s.cur /\ failed.pend = s.pend /\ failed.prev = s.prev
        /\ failed.init = {} /\ failed.next = s.next
        /\ failed.sent = s.sent /\ failed.got = s.got
    BY <1>1, Zenon DEF NodeState, Option, TakeInit
  <2> HIDE DEF failed
  <2>2. QED
    BY <1>1, <2>1, DropGood
<1> HIDE DEF failed
<1>8. Good(done, n)
  BY <1>1, <1>6, DropGood
<1>9. i.eph \notin Live(done) /\ Unused(done, n, i.eph)
  <2>1. i.eph \notin Live(done)
    BY <1>1, <1>3, <1>6 DEF NodeInv, Live
  <2>2. Unused(s, n, i.eph)
    BY <1>1, <1>3 DEF NodeInv, Live
  <2>3. QED
    BY <1>6, <2>1, <2>2 DEF Unused, Drawn, Slots
<1>10. CASE f.e1 = i.eph /\ t \in MaybeTransmit(armed)
  <2>1. Good(pended, n)
    BY <1>1, <1>2, <1>6, <1>8, <1>9, <1>10, ArmPendGood DEF Role
  <2> HIDE DEF pended
  <2>2. Msg3(f.e1, f.e2, FALSE) \in Frame /\ Msg3(f.e1, f.e2, FALSE).type = "msg3"
    BY <1>2 DEF Msg3, Frame, HandshakeFrame
  <2>3. /\ B \in SUBSET Frame /\ pended.sent \subseteq B
        /\ \A g \in B \ pended.sent : g.type = "msg3"
    BY <2>1, <2>2, Zenon DEF Good, NodeState
  <2> HIDE DEF B
  <2>4. armed \in NodeState
    BY <2>1, <2>3, Zenon DEF Good, NodeState
  <2>5. /\ armed.phase = pended.phase /\ armed.hs = pended.hs
        /\ armed.resp = pended.resp /\ armed.cur = pended.cur
        /\ armed.pend = pended.pend /\ armed.prev = pended.prev
        /\ armed.init = pended.init /\ armed.next = pended.next
        /\ armed.sent = B /\ armed.got = pended.got /\ pended.next \in Nat
    BY <2>1 DEF Good, NodeState
  <2> HIDE DEF armed
  <2>6. \A g \in armed.sent \ pended.sent : SentInv(armed, n, g) /\ g.type # "data"
    BY <2>3, <2>5 DEF SentInv
  <2>7. Good(armed, n)
    <3>1. pended.next <= armed.next /\ pended.sent \subseteq armed.sent
      BY <2>3, <2>5
    <3>2. QED
      BY <2>1, <2>4, <2>5, <2>6, <3>1, SayGood
  <2>8. QED
    BY <1>4, <1>10, <2>7, MaybeTransmitGood, BecomeOK
<1>11. CASE \/ t \in MaybeTransmit(ignored)
           \/ t \in MaybeTransmit(done)
           \/ t \in MaybeTransmit(failed)
  BY <1>4, <1>5, <1>8, <1>7, <1>11, MaybeTransmitGood, BecomeOK
<1>12. QED
  BY <1>4, <1>10, <1>11

(* The cascade accepted f and recorded it.                                 *)
LEMMA AcceptedGood ==
    ASSUME NEW n \in Node, NEW s, Good(s, n), s.phase = "steady",
           NEW f \in DataFrame, NEW a \in Accepted(s, f)
    PROVE  Good([a EXCEPT !.lastRx = "auth", !.got = @ \cup {f}], n)
<1> DEFINE b == [a EXCEPT !.lastRx = "auth", !.got = @ \cup {f}]
<1>1. s \in NodeState
  BY DEF Good
<1>2. /\ s.cur \in Option(EpochSlot) /\ s.prev \in Option(EpochSlot)
      /\ s.pend \in Option(EpochSlot) /\ {} \in Option(EpochSlot)
  BY <1>1 DEF NodeState, Option
<1>3. /\ Mark(s.cur, f) \in Option(EpochSlot)
      /\ Mark(s.pend, f) \in Option(EpochSlot)
      /\ Mark(s.prev, f) \in Option(EpochSlot)
  BY <1>2, MarkTyped
<1>4. CASE a = [s EXCEPT !.cur = Mark(s.cur, f)] /\ Opens(s.cur, f)
  <2>1. b \in NodeState
    BY <1>1, <1>3, <1>4, Zenon DEF NodeState
  <2>2. /\ b.phase = s.phase /\ b.hs = s.hs /\ b.resp = s.resp
        /\ b.cur = Mark(s.cur, f) /\ b.pend = s.pend /\ b.prev = s.prev
        /\ b.init = s.init /\ b.next = s.next /\ b.sent = s.sent
        /\ b.got = s.got \cup {f}
    BY <1>1, <1>4 DEF NodeState
  <2> HIDE DEF b
  <2>3. QED
    BY <1>4, <2>1, <2>2, MarkGood, Zenon DEF b
<1>5. CASE a = [s EXCEPT !.prev = Mark(s.prev, f)] /\ Opens(s.prev, f)
  <2>1. b \in NodeState
    BY <1>1, <1>3, <1>5, Zenon DEF NodeState
  <2>2. /\ b.phase = s.phase /\ b.hs = s.hs /\ b.resp = s.resp
        /\ b.cur = s.cur /\ b.pend = s.pend /\ b.prev = Mark(s.prev, f)
        /\ b.init = s.init /\ b.next = s.next /\ b.sent = s.sent
        /\ b.got = s.got \cup {f}
    BY <1>1, <1>5 DEF NodeState
  <2> HIDE DEF b
  <2>3. QED
    BY <1>5, <2>1, <2>2, MarkGood, Zenon DEF b
<1>6. CASE /\ a = [s EXCEPT !.prev = s.cur, !.cur = Mark(s.pend, f), !.pend = {}]
           /\ Opens(s.pend, f)
  <2> DEFINE u == [s EXCEPT !.prev = s.cur, !.cur = s.pend, !.pend = {}]
  <2>1. u \in NodeState
    BY <1>1, <1>2, Zenon DEF NodeState
  <2>2. /\ u.phase = s.phase /\ u.hs = s.hs /\ u.resp = s.resp
        /\ u.cur = s.pend /\ u.pend = {} /\ u.prev = s.cur
        /\ u.init = s.init /\ u.next = s.next /\ u.sent = s.sent
        /\ u.got = s.got
    BY <1>1 DEF NodeState
  <2> HIDE DEF u
  <2>3. s.pend # {}
    BY <1>6 DEF Opens
  <2>4. Good(u, n)
    BY <2>1, <2>2, <2>3, RotateGood
  <2>5. b \in NodeState
    BY <1>1, <1>2, <1>3, <1>6, Zenon DEF NodeState
  <2>6. /\ b.phase = u.phase /\ b.hs = u.hs /\ b.resp = u.resp
        /\ b.cur = Mark(u.cur, f) /\ b.pend = u.pend /\ b.prev = u.prev
        /\ b.init = u.init /\ b.next = u.next /\ b.sent = u.sent
        /\ b.got = u.got \cup {f}
    BY <1>1, <1>6, <2>2 DEF NodeState
  <2> HIDE DEF b
  <2>7. Opens(u.cur, f)
    BY <1>6, <2>2
  <2>8. QED
    BY <2>4, <2>5, <2>6, <2>7, MarkGood, Zenon DEF b
<1>7. QED
  BY <1>4, <1>5, <1>6 DEF Accepted, FromCur, FromPend, FromPrev

LEMMA EstablishedOK ==
    ASSUME LinkOK, NEW n \in Node, NEW m \in Node \ {n},
           NEW f \in node[m].sent, Established(n, f)
    PROVE  LinkOK'
<1> DEFINE s == node[n]
<1>1. Good(s, n) /\ f.type = "data" /\ s.phase = "steady"
  BY DEF LinkOK, LinkInv, Established, Steady
<1>2. f \in DataFrame
  BY <1>1, Received
<1>3. PICK a \in Accepted(s, f) :
         LET b == [a EXCEPT !.lastRx = "auth", !.got = @ \cup {f}]
         IN  \/ Become(n, EndSession(b))
             \/ \E t \in MaybeTransmit(b) : Become(n, t)
             \/ Become(n, EndSession(Transmit(b, "disconnect")))
  BY Zenon DEF Established
<1> HIDE DEF s
<1> DEFINE b == [a EXCEPT !.lastRx = "auth", !.got = @ \cup {f}]
<1>4. Good(b, n)
  BY <1>1, <1>2, AcceptedGood, Zenon
<1>5. \/ Become(n, EndSession(b))
      \/ \E t \in MaybeTransmit(b) : Become(n, t)
      \/ Become(n, EndSession(Transmit(b, "disconnect")))
  BY <1>3
<1> HIDE DEF b
<1>6. Good(Transmit(b, "disconnect"), n)
  BY <1>4, TransmitGood DEF Kind
<1>7. QED
  BY <1>4, <1>5, <1>6, EndSessionGood, MaybeTransmitGood, BecomeOK

LEMMA SelfCutoverGood ==
    ASSUME NEW n \in Node, NEW s, Good(s, n), s.phase = "steady"
    PROVE  Good(SelfCutover(s), n) /\ SelfCutover(s).phase = "steady"
<1>1. CASE ~(s.pendSelf /\ s.pend # {})
  BY <1>1 DEF SelfCutover
<1>2. CASE s.pendSelf /\ s.pend # {}
  <2> DEFINE u == [s EXCEPT !.prev = s.cur, !.cur = s.pend, !.pend = {},
                            !.pendSelf = FALSE]
  <2>1. u \in NodeState
    <3>1. {} \in Option(EpochSlot)
      BY DEF Option
    <3>2. QED
      BY <3>1, Zenon DEF NodeState, Good
  <2>2. /\ u.phase = s.phase /\ u.hs = s.hs /\ u.resp = s.resp
        /\ u.cur = s.pend /\ u.pend = {} /\ u.prev = s.cur
        /\ u.init = s.init /\ u.next = s.next /\ u.sent = s.sent
        /\ u.got = s.got
    BY DEF NodeState, Good
  <2>3. SelfCutover(s) = u
    BY <1>2 DEF SelfCutover
  <2> HIDE DEF u
  <2>4. Good(u, n)
    BY <1>2, <2>1, <2>2, RotateGood
  <2>5. QED
    BY <2>2, <2>3, <2>4
<1>3. QED
  BY <1>1, <1>2

LEMMA InitiateGood ==
    ASSUME NEW n \in Node, NEW s, Good(s, n), s.phase = "steady", s.init = {}
    PROVE  Good(Initiate(s, n), n)
<1> DEFINE e == Fresh(s, n)
           I == {[eph |-> e, resends |-> 0]}
           B == s.sent \cup {Msg1(e)}
           u == [s EXCEPT !.next = @ + 1, !.sent = B]
           t == [s EXCEPT !.init = I, !.next = @ + 1, !.sent = B]
<1>1. s \in NodeState /\ NodeInv(s, n) /\ s.next \in Nat
  BY DEF Good, NodeState
<1>2. /\ e \in Eph /\ Msg1(e) \in Frame /\ Msg1(e).type = "msg1"
      /\ Msg1(e).e1 = e /\ e[1] = n
  BY <1>1 DEF Fresh, Eph, Msg1, Frame, HandshakeFrame
<1>3. /\ I \in Option([eph : Eph, resends : Nat])
      /\ \A h \in I : h.eph = e
  BY <1>2 DEF Option
<1>4. /\ B \in SUBSET Frame /\ s.sent \subseteq B
      /\ \A f \in B \ s.sent : f.type = "msg1" /\ f.e1 = e
  BY <1>1, <1>2 DEF NodeState
<1>5. t = Initiate(s, n)
  BY DEF Initiate
<1> HIDE DEF e, I, B
<1>6. u \in NodeState /\ t \in NodeState
  <2>1. s.next + 1 \in Nat
    BY <1>1
  <2>2. u \in NodeState
    BY <1>1, <1>4, <2>1, Zenon DEF NodeState
  <2>3. t \in NodeState
    BY <1>1, <1>3, <1>4, <2>1, Zenon DEF NodeState
  <2>4. QED
    BY <2>2, <2>3
<1>7. /\ u.phase = s.phase /\ u.hs = s.hs /\ u.resp = s.resp
      /\ u.cur = s.cur /\ u.pend = s.pend /\ u.prev = s.prev
      /\ u.init = s.init /\ u.next = s.next + 1 /\ u.sent = B
      /\ u.got = s.got
  BY <1>1 DEF NodeState
<1>8. /\ t.phase = s.phase /\ t.hs = s.hs /\ t.resp = s.resp
      /\ t.cur = s.cur /\ t.pend = s.pend /\ t.prev = s.prev
      /\ t.init = I /\ t.next = s.next + 1 /\ t.sent = B
      /\ t.got = s.got
  BY <1>1 DEF NodeState
<1> HIDE DEF t, u
<1>9. Good(u, n)
  <2>1. \A f \in u.sent \ s.sent : SentInv(u, n, f) /\ f.type # "data"
    BY <1>2, <1>4, <1>7 DEF SentInv
  <2>2. s.next <= u.next /\ s.sent \subseteq u.sent
    BY <1>1, <1>4, <1>7
  <2>3. QED
    BY <1>6, <1>7, <2>1, <2>2, SayGood
<1>10. e \notin Live(s) /\ Unused(t, n, e)
  BY <1>4, <1>6, <1>8, FreshUnused DEF e
<1>11. Live(t) \subseteq Live(u) \cup {e} /\ Slots(t) = Slots(u)
  BY <1>3, <1>7, <1>8 DEF Live, Slots
<1>12. NodeInv(u, n)
  BY <1>9 DEF Good
<1>13. \A x \in Slots(t) : SlotInv(t, n, x)
  BY <1>7, <1>8, <1>11, <1>12, Zenon DEF NodeInv, SlotInv, Drawn
<1>14. \A x \in Live(t) : Unused(t, n, x)
  BY <1>7, <1>8, <1>10, <1>11, <1>12, ZenonT(40) DEF NodeInv, Unused, Drawn
<1>15. \A f \in t.sent : SentInv(t, n, f)
  BY <1>7, <1>8, <1>12 DEF NodeInv, SentInv, Drawn
<1>16. \A f \in t.got : Drawn(t, n, OurEphOf(f))
  BY <1>7, <1>8, <1>12 DEF NodeInv, Drawn
<1>17. \A i \in t.init, r \in t.resp : i.eph # r.e2
  BY <1>3, <1>8, <1>10 DEF Live
<1>18. /\ \A x \in t.cur, y \in t.pend : OurEph(x) # OurEph(y) /\ x.k # y.k
       /\ \A x \in t.cur, y \in t.prev : OurEph(x) # OurEph(y) /\ x.k # y.k
       /\ \A x \in t.pend, y \in t.prev : OurEph(x) # OurEph(y)
       /\ t.cur # {} /\ t.hs = {} /\ t.phase = "steady"
       /\ \A r \in t.resp : r.e1[1] # n
  BY <1>1, <1>8 DEF NodeInv
<1>19. NodeInv(t, n)
  BY <1>13, <1>14, <1>15, <1>16, <1>17, <1>18, Zenon DEF NodeInv
<1>20. QED
  BY <1>5, <1>6, <1>19 DEF Good

LEMMA LadderGood ==
    ASSUME NEW n \in Node, NEW s, Good(s, n)
    PROVE  Good(Ladder(s), n)
<1> DEFINE I == {[i EXCEPT !.resends = @ + 1] :
                   i \in {j \in s.init : j.resends < MaxResends}}
           t == [s EXCEPT !.init = I]
<1>1. s \in NodeState /\ s.init \in Option([eph : Eph, resends : Nat])
  BY DEF Good, NodeState
<1>2. /\ I \in Option([eph : Eph, resends : Nat])
      /\ \A i \in I : \E g \in s.init : i.eph = g.eph
  BY <1>1 DEF Option
<1>3. t = Ladder(s)
  BY DEF Ladder
<1> HIDE DEF I
<1>4. t \in NodeState
  BY <1>1, <1>2 DEF NodeState
<1>5. /\ t.phase = s.phase /\ t.hs = s.hs /\ t.resp = s.resp
      /\ t.cur = s.cur /\ t.pend = s.pend /\ t.prev = s.prev
      /\ t.init = I /\ t.next = s.next /\ t.sent = s.sent
      /\ t.got = s.got
  BY <1>1 DEF NodeState
<1> HIDE DEF t
<1>6. QED
  BY <1>2, <1>3, <1>4, <1>5, DropGood, Zenon

LEMMA DrainGood ==
    ASSUME NEW n \in Node, NEW s, Good(s, n)
    PROVE  Good(Drain(s), n)
<1> DEFINE t == Drain(s)
<1>1. t \in NodeState
  BY DEF Drain, Good, NodeState, Option
<1>2. /\ t.phase = s.phase /\ t.hs = s.hs /\ t.resp = s.resp
      /\ t.cur = s.cur /\ t.pend = s.pend /\ t.prev = {}
      /\ t.init = s.init /\ t.next = s.next /\ t.sent = s.sent
      /\ t.got = s.got
  BY DEF Drain, Good, NodeState
<1> HIDE DEF t
<1>3. Good(t, n)
  BY <1>1, <1>2, DropGood
<1>4. QED
  BY <1>3 DEF t

LEMMA TimerFiresOK ==
    ASSUME LinkOK, NEW n \in Node, TimerFires(n)
    PROVE  LinkOK'
<1>1. PICK rekeyDue \in BOOLEAN, resendDue \in BOOLEAN, drainDue \in BOOLEAN :
         Tick(n, rekeyDue, resendDue, drainDue)
  BY DEF TimerFires
<1> DEFINE s == node[n]
           s1 == SelfCutover(s)
           s2 == IF rekeyDue THEN Initiate(s1, n) ELSE s1
           s3 == IF resendDue THEN Ladder(s2) ELSE s2
           s4 == IF drainDue THEN Drain(s3) ELSE s3
<1>2. /\ Good(s, n) /\ s.phase = "steady"
      /\ rekeyDue => s1 = s /\ s.init = {}
      /\ \E t \in MaybeTransmit(s4) : Become(n, t)
  BY <1>1 DEF LinkOK, LinkInv, Tick, Steady, MayRekey
<1> HIDE DEF s
<1>3. Good(s1, n) /\ s1.phase = "steady"
  BY <1>2, SelfCutoverGood, Zenon
<1> HIDE DEF s1
<1>4. Good(s2, n)
  BY <1>2, <1>3, InitiateGood
<1> HIDE DEF s2
<1>5. Good(s3, n)
  BY <1>4, LadderGood
<1> HIDE DEF s3
<1>6. Good(s4, n)
  BY <1>5, DrainGood
<1> HIDE DEF s4
<1>7. QED
  BY <1>2, <1>6, MaybeTransmitGood, BecomeOK

LEMMA TimestampsOK ==
    ASSUME LinkOK, NEW n \in Node, DampeningEnds(n) \/ Silence(n)
    PROVE  LinkOK'
<1> DEFINE s == node[n]
<1>1. Good(s, n) /\ s \in NodeState
  BY DEF LinkOK, LinkInv, Good
<1>2. PICK t : /\ Become(n, t)
               /\ \/ t = [s EXCEPT !.dampened = FALSE]
                  \/ t = [s EXCEPT !.lastRx = "expired"]
  BY DEF DampeningEnds, Silence
<1> HIDE DEF s
<1>3. t \in NodeState
  <2>1. [s EXCEPT !.dampened = FALSE] \in NodeState
    BY <1>1, Zenon DEF NodeState
  <2>2. [s EXCEPT !.lastRx = "expired"] \in NodeState
    BY <1>1 DEF NodeState
  <2>3. QED
    BY <1>2, <2>1, <2>2, Zenon
<1>4. /\ t.phase = s.phase /\ t.hs = s.hs /\ t.resp = s.resp
      /\ t.cur = s.cur /\ t.pend = s.pend /\ t.prev = s.prev
      /\ t.init = s.init /\ t.next = s.next /\ t.sent = s.sent
      /\ t.got = s.got
  BY <1>1, <1>2 DEF NodeState
<1>5. Good(t, n)
  BY <1>1, <1>3, <1>4, SameGood
<1>6. QED
  BY <1>2, <1>5, BecomeOK

LEMMA SessionEndsOK ==
    ASSUME LinkOK, NEW n \in Node,
           LinkDead(n) \/ PolicyOrTransportError(n) \/ HandshakeError(n)
    PROVE  LinkOK'
<1>1. Good(node[n], n)
  BY DEF LinkOK, LinkInv
<1>2. Good(Transmit(node[n], "disconnect"), n)
  BY <1>1, TransmitGood DEF Kind
<1>3. QED
  BY <1>1, <1>2, EndSessionGood, BecomeOK
     DEF LinkDead, PolicyOrTransportError, HandshakeError

LEMMA InitOK == Init => LinkOK
<1> SUFFICES ASSUME Init PROVE LinkOK
  OBVIOUS
<1>1. \A n \in Node : node[n] = NewNode
  BY Zenon DEF Init
<1>2. NewNode \in NodeState
  <2>1. \A S : {} \in Option(S)
    BY DEF Option
  <2>2. QED
    BY <2>1 DEF NodeState, NewNode
<1>3. TypeOK
  BY <1>2 DEF Init, TypeOK
<1>4. Live(NewNode) = {} /\ Slots(NewNode) = {}
  BY Zenon DEF NewNode, Live, Slots
<1>5. \A n \in Node : NodeInv(NewNode, n)
  BY <1>4, Zenon DEF NodeInv, NewNode
<1>6. QED
  BY <1>1, <1>2, <1>3, <1>5 DEF LinkOK, LinkInv, Good

LEMMA StepOK == LinkOK /\ [Next]_node => LinkOK'
<1> SUFFICES ASSUME LinkOK, [Next]_node PROVE LinkOK'
  OBVIOUS
<1>1. CASE UNCHANGED node
  BY <1>1 DEF LinkOK, TypeOK, LinkInv
<1>2. ASSUME NEW n \in Node, Local(n)
      PROVE  LinkOK'
  <2>1. CASE Wait(n)
    BY <1>1, <2>1 DEF Wait
  <2>2. QED
    BY <1>2, <2>1, StartSessionOK, HandshakeTimeoutOK, TimerFiresOK,
       TimestampsOK, SessionEndsOK DEF Local
<1>3. ASSUME NEW n \in Node, NEW m \in Node \ {n}, NEW f \in node[m].sent,
             Receive(n, f)
      PROVE  LinkOK'
  BY <1>3, HandshakeMsg1OK, HandshakeMsg2OK, HandshakeMsg3OK,
     HandshakeOtherOK, RekeyMsg1OK, RekeyMsg2OK, RekeyMsg3OK, EstablishedOK, Zenon
     DEF Receive
<1>4. QED
  BY <1>1, <1>2, <1>3 DEF Next

-----------------------------------------------------------------------------
(* The inductive invariant holds in every reachable state of the link.     *)
THEOREM LinkInvariant == Spec => []LinkOK
BY InitOK, StepOK, PTL DEF Spec

(* The type invariant, for every set of ends and every bound.              *)
THEOREM LinkTypes == Spec => []TypeOK
BY LinkInvariant, PTL DEF LinkOK

LEMMA SlotFacts ==
    ASSUME LinkOK, NEW n \in Node, NEW x \in Slots(node[n])
    PROVE  SlotInv(node[n], n, x)
BY Zenon DEF LinkOK, LinkInv, Good, NodeInv

(* No (key, counter) pair seals two frames: the counters that the send_*   *)
(* functions take from a slot are unused under that slot's key, whatever   *)
(* rekeys, resent handshake messages and reconnects came before.           *)
THEOREM NoncesNeverReused == Spec => []NonceFresh
<1>1. LinkOK => NonceFresh
  BY SlotFacts DEF NonceFresh, SlotInv
<1>2. QED
  BY <1>1, LinkInvariant, PTL

(* decrypt_established_frame accepts every frame at most once, across the  *)
(* moves of a replay window from pend to cur to prev and across sessions.  *)
THEOREM FramesOpenOnce == Spec => []NoReplay
<1>1. LinkOK => NoReplay
  BY SlotFacts DEF NoReplay, SlotInv, Opens, Acceptable
<1>2. QED
  BY <1>1, LinkInvariant, PTL

(* The cascade's outcome never depends on the order in which it tries the  *)
(* slots: distinct slots hold distinct epochs and cur's K-bit is its own.  *)
THEOREM SlotsHoldDistinctEpochs == Spec => []OneSlotPerEpoch
<1>1. ASSUME LinkOK, NEW n \in Node
      PROVE  LET s == node[n]
             IN  /\ \A x, y \in Slots(s) : x.ep = y.ep => x = y
                 /\ s.cur \cap s.pend = {} /\ s.pend \cap s.prev = {}
                 /\ s.cur \cap s.prev = {}
                 /\ \A x \in s.pend \cup s.prev : x.k = ~CurK(s)
  <2> DEFINE s == node[n]
  <2>1. s \in NodeState /\ NodeInv(s, n)
    BY <1>1 DEF LinkOK, LinkInv, Good
  <2>2. /\ s.cur \in Option(EpochSlot) /\ s.pend \in Option(EpochSlot)
        /\ s.prev \in Option(EpochSlot)
    BY <2>1 DEF NodeState
  <2> HIDE DEF s
  <2>3. \A x, y \in Slots(s) : x.ep = y.ep => OurEph(x) = OurEph(y)
    <3>1. \A x \in Slots(s) : OurEph(x)[1] = n /\ PeerEph(x)[1] # n
      BY <2>1 DEF NodeInv, SlotInv, Drawn
    <3>2. \A x \in Slots(s) : x.role \in Role
      BY <2>2 DEF Slots, Option, EpochSlot
    <3>3. QED
      BY <3>1, <3>2 DEF OurEph, PeerEph, Role
  <2>4. \A x, y \in Slots(s) : x.ep = y.ep => x = y
    <3>1. /\ \A x, y \in s.cur : x = y
          /\ \A x, y \in s.pend : x = y
          /\ \A x, y \in s.prev : x = y
      BY <2>2 DEF Option
    <3>2. /\ \A x \in s.cur, y \in s.pend : OurEph(x) # OurEph(y)
          /\ \A x \in s.cur, y \in s.prev : OurEph(x) # OurEph(y)
          /\ \A x \in s.pend, y \in s.prev : OurEph(x) # OurEph(y)
      BY <2>1, Zenon DEF NodeInv
    <3>3. QED
      BY <2>3, <3>1, <3>2 DEF Slots
  <2>5. /\ s.cur \cap s.pend = {} /\ s.pend \cap s.prev = {}
        /\ s.cur \cap s.prev = {}
    BY <2>1 DEF NodeInv
  <2>6. \A x \in s.pend \cup s.prev : x.k = ~CurK(s)
    <3>1. \A x \in s.cur \cup s.pend \cup s.prev : x.k \in BOOLEAN
      BY <2>2 DEF Option, EpochSlot
    <3>2. s.pend \cup s.prev # {} => s.cur # {}
      BY <2>1, Zenon DEF NodeInv, Slots
    <3>3. QED
      BY <2>1, <2>2, <3>1, <3>2, Zenon DEF NodeInv, Option, CurK
  <2>7. QED
    BY <2>4, <2>5, <2>6 DEF s
<1>2. LinkOK => OneSlotPerEpoch
  BY <1>1, Zenon DEF OneSlotPerEpoch
<1>3. QED
  BY <1>2, LinkInvariant, PTL
=============================================================================
