------------------------ MODULE EspNowGatewayProofs ------------------------
(***************************************************************************)
(* The ESP-NOW gateway for every set of leaves, every width of the message *)
(* id and every hold time: it hands on whole frames only, the peer slot,   *)
(* the radio's table, PEER_MAC and the reassembler agree on one owner, and *)
(* a frame from the host goes to one place.                                *)
(*                                                                         *)
(* FramesWhole needs to know how far a leaf has moved on since the         *)
(* reassembler's partial frame: as many frames as the radio lost the first *)
(* fragment of, which is less than the message ids take to come round.     *)
(***************************************************************************)
EXTENDS EspNowGateway, SequenceTheorems, FiniteSetTheorems, TLAPS

CutState == [no : FrameNo, idx : Nat, of : Nat, unseen : 0..(IdMod - 1)]

GwShape ==
    /\ cut \in [Node -> CutState]
    /\ peerSlot \in [mac : SUBSET Node, seen : Nat]
    /\ asm \in [src : SUBSET Node, active : BOOLEAN, id : Nat, next : Nat, parts : Seq(FrameNo)]

\* The leaf n is d frames past the partial frame, and so many first fragments
\* of its frames were lost, but for that of a frame it has not begun.
Ahead(n, d) ==
    /\ \/ cut[n].no = asm.parts[1] + d
       \/ cut[n].no = asm.parts[1] + d - 2 * IdMod
    /\ d <= cut[n].unseen + (IF cut[n].idx = 0 THEN 1 ELSE 0)

PartialOK ==
    asm.active =>
        /\ asm.parts # <<>> /\ asm.next > 0
        /\ asm.id = asm.parts[1] % IdMod
        /\ \A n \in Node : asm.src = {n} => \E d \in 0..IdMod : Ahead(n, d)

DownOK == down.reached \subseteq {down.to}

GwInv == GwShape /\ OneOwner /\ FramesWhole /\ PartialOK /\ DownOK

----------------------------------------------------------------------------
(* Message ids *)

LEMMA IdIs ==
    ASSUME NEW x \in FrameNo
    PROVE  /\ x \in Nat /\ x % IdMod \in Nat
           /\ x < IdMod => x % IdMod = x
           /\ x >= IdMod => x % IdMod = x - IdMod
<1>1. IdMod \in Nat \ {0} /\ x \in 0..(2 * IdMod - 1)
  BY GwAssumption DEF FrameNo
<1>2. CASE x \in 0..(IdMod - 1)
  BY <1>1, <1>2
<1>3. CASE x \in IdMod..(2 * IdMod - 1)
  BY <1>1, <1>3
<1> QED
  BY <1>1, <1>2, <1>3

\* Two frames of a leaf less than IdMod apart that have the same id are one.
LEMMA SameId ==
    ASSUME NEW p \in FrameNo, NEW q \in FrameNo, NEW d \in Nat, d < IdMod,
           q = p + d \/ q = p + d - 2 * IdMod, q % IdMod = p % IdMod
    PROVE  q = p
<1>1. IdMod \in Nat /\ p \in 0..(2 * IdMod - 1) /\ q \in 0..(2 * IdMod - 1)
  BY GwAssumption DEF FrameNo
<1>2. /\ p < IdMod => p % IdMod = p
      /\ p >= IdMod => p % IdMod = p - IdMod
      /\ q < IdMod => q % IdMod = q
      /\ q >= IdMod => q % IdMod = q - IdMod
  BY IdIs
<1> QED
  BY <1>1, <1>2

\* The number after x.
LEMMA NextNo ==
    ASSUME NEW x \in FrameNo
    PROVE  /\ (x + 1) % (2 * IdMod) \in FrameNo
           /\ \/ (x + 1) % (2 * IdMod) = x + 1
              \/ (x + 1) % (2 * IdMod) = x + 1 - 2 * IdMod
<1> DEFINE N == 2 * IdMod
<1>1. N \in Nat \ {0} /\ x \in 0..(N - 1)
  BY GwAssumption DEF FrameNo
<1>2. FrameNo = 0..(N - 1)
  BY DEF FrameNo
<1> HIDE DEF N
<1>3. CASE x + 1 \in 0..(N - 1)
  <2>1. (x + 1) % N = x + 1
    BY <1>1, <1>3
  <2> QED
    BY <1>2, <1>3, <2>1 DEF N
<1>4. CASE x + 1 = N
  <2>1. (x + 1) % N = 0
    BY <1>1, <1>4
  <2>2. 0 \in 0..(N - 1)
    BY <1>1
  <2>3. 0 = x + 1 - N
    BY <1>1, <1>4
  <2> QED
    BY <1>2, <2>1, <2>2, <2>3 DEF N
<1> QED
  BY <1>1, <1>3, <1>4

----------------------------------------------------------------------------
(* Leaves *)

\* What a leaf sends, and its state after.
LEMMA FragmentIs ==
    ASSUME GwShape, NEW n \in Node, NEW f \in NextFragment(n)
    PROVE  /\ f.no = cut[n].no /\ f.no \in FrameNo /\ f.id = f.no % IdMod /\ f.id \in Nat
           /\ f.idx = cut[n].idx /\ f.idx \in Nat /\ f.of \in Nat
           /\ Advance(n, f) \in CutState
           /\ Advance(n, f).unseen = cut[n].unseen
           /\ LastFragment(f) => /\ Advance(n, f).no = (cut[n].no + 1) % (2 * IdMod)
                                 /\ Advance(n, f).idx = 0
           /\ ~LastFragment(f) => Advance(n, f).no = f.no /\ Advance(n, f).idx = f.idx + 1
<1>1. cut[n] \in CutState
  BY DEF GwShape
<1>2. PICK k \in IF cut[n].of = 0 THEN FragCounts ELSE {cut[n].of} :
        f = [no |-> cut[n].no, id |-> cut[n].no % IdMod, idx |-> cut[n].idx, of |-> k]
  BY DEF NextFragment
<1>3. k \in Nat
  BY <1>1, <1>2, GwAssumption DEF CutState
<1>4. /\ f.no = cut[n].no /\ f.no \in FrameNo /\ f.id = f.no % IdMod
      /\ f.idx = cut[n].idx /\ f.idx \in Nat /\ f.of \in Nat
  BY <1>1, <1>2, <1>3 DEF CutState
<1>5. f.id \in Nat
  BY <1>4, IdIs
<1>6. CASE LastFragment(f)
  <2> DEFINE next == (cut[n].no + 1) % (2 * IdMod)
  <2>1. Advance(n, f) = [cut[n] EXCEPT !.no = next, !.idx = 0, !.of = 0]
    BY <1>6 DEF Advance
  <2>2. next \in FrameNo
    BY <1>4, NextNo
  <2> HIDE DEF next
  <2>3. \A m \in FrameNo : LET a == [cut[n] EXCEPT !.no = m, !.idx = 0, !.of = 0]
                          IN  /\ a \in CutState /\ a.unseen = cut[n].unseen
                              /\ a.no = m /\ a.idx = 0
    BY <1>1 DEF CutState
  <2>4. /\ Advance(n, f) \in CutState /\ Advance(n, f).unseen = cut[n].unseen
        /\ Advance(n, f).no = next /\ Advance(n, f).idx = 0
    BY <2>1, <2>2, <2>3, Zenon
  <2> QED
    BY <1>4, <1>5, <1>6, <2>4 DEF next
<1>7. CASE ~LastFragment(f)
  <2>1. Advance(n, f) = [cut[n] EXCEPT !.idx = cut[n].idx + 1, !.of = f.of]
    BY <1>7 DEF Advance
  <2>2. cut[n].idx + 1 \in Nat
    BY <1>4
  <2> QED
    BY <1>1, <1>4, <1>5, <1>7, <2>1, <2>2 DEF CutState
<1> QED
  BY <1>6, <1>7

\* Moving on to the next fragment keeps a leaf where Ahead says, if the loss of a
\* first fragment is counted.
LEMMA AdvanceAhead ==
    ASSUME GwShape, NEW n \in Node, NEW f \in NextFragment(n), NEW p \in FrameNo,
           NEW d \in 0..IdMod, NEW u \in 0..(IdMod - 1),
           cut[n].no = p + d \/ cut[n].no = p + d - 2 * IdMod,
           IF f.idx = 0 THEN d <= u ELSE d <= u /\ u = cut[n].unseen
    PROVE  \E e \in 0..IdMod :
             /\ Advance(n, f).no = p + e \/ Advance(n, f).no = p + e - 2 * IdMod
             /\ e <= u + (IF Advance(n, f).idx = 0 THEN 1 ELSE 0)
<1>1. IdMod \in Nat /\ cut[n].no \in FrameNo /\ f.idx \in Nat /\ d <= u
  BY GwAssumption, FragmentIs
<1>2. p \in 0..(2 * IdMod - 1) /\ cut[n].no \in 0..(2 * IdMod - 1)
  BY <1>1 DEF FrameNo
<1>3. CASE LastFragment(f)
  <2> DEFINE next == (cut[n].no + 1) % (2 * IdMod)
  <2>1. Advance(n, f).no = next /\ Advance(n, f).idx = 0
    BY <1>3, FragmentIs
  <2>2. /\ next \in FrameNo
        /\ next = cut[n].no + 1 \/ next = cut[n].no + 1 - 2 * IdMod
    BY <1>1, NextNo
  <2> HIDE DEF next
  <2>3. next \in 0..(2 * IdMod - 1)
    BY <2>2 DEF FrameNo
  <2>4. /\ d + 1 \in 0..IdMod /\ d + 1 <= u + 1
        /\ next = p + (d + 1) \/ next = p + (d + 1) - 2 * IdMod
    BY <1>1, <1>2, <2>2, <2>3
  <2> QED
    BY <2>1, <2>4
<1>4. CASE ~LastFragment(f)
  <2>1. Advance(n, f).no = cut[n].no /\ Advance(n, f).idx = f.idx + 1
    BY <1>4, FragmentIs
  <2>2. f.idx + 1 # 0
    BY <1>1
  <2> QED
    BY <1>1, <2>1, <2>2
<1> QED
  BY <1>3, <1>4

\* The radio loses a fragment.
LEMMA LossKeeps ==
    ASSUME GwInv, NEW n \in Node, LoseFragment(n)
    PROVE  GwInv'
<1>0. GwShape /\ OneOwner /\ FramesWhole /\ PartialOK /\ DownOK /\ IdMod \in Nat
  BY GwAssumption DEF GwInv
<1>1. PICK f \in NextFragment(n) :
        LET unseen == IF f.idx = 0 THEN cut[n].unseen + 1 ELSE cut[n].unseen
        IN  /\ unseen < IdMod
            /\ cut' = [cut EXCEPT ![n] = [Advance(n, f) EXCEPT !.unseen = unseen]]
            /\ UNCHANGED <<peerSlot, table, peerMac, asm, down>>
  BY DEF LoseFragment
<1> DEFINE u == IF f.idx = 0 THEN cut[n].unseen + 1 ELSE cut[n].unseen
           c == [Advance(n, f) EXCEPT !.unseen = u]
<1>2. cut[n] \in CutState /\ cut[n].unseen \in 0..(IdMod - 1)
  BY <1>0 DEF GwShape, CutState
<1>3. u \in 0..(IdMod - 1)
  BY <1>0, <1>1, <1>2
<1>4. cut' = [cut EXCEPT ![n] = c] /\ UNCHANGED <<peerSlot, table, peerMac, asm, down>>
  BY <1>1
<1>5. /\ c \in CutState /\ c.no = Advance(n, f).no /\ c.idx = Advance(n, f).idx
      /\ c.unseen = u
  <2>1. Advance(n, f) \in CutState
    BY <1>0, FragmentIs
  <2> HIDE DEF u
  <2> QED
    BY <1>3, <2>1 DEF CutState
<1>6. f.idx = cut[n].idx /\ f.idx \in Nat
  BY <1>0, FragmentIs
<1>7. IF f.idx = 0 THEN u = cut[n].unseen + 1 ELSE u = cut[n].unseen
  OBVIOUS
<1> HIDE DEF u, c
<1>8. GwShape' /\ cut'[n] = c /\ \A m \in Node \ {n} : cut'[m] = cut[m]
  BY <1>0, <1>4, <1>5 DEF GwShape
<1>9. OneOwner' /\ FramesWhole' /\ DownOK'
  BY <1>0, <1>4 DEF OneOwner, FramesWhole, DownOK
<1>10. ASSUME asm.active, NEW m \in Node, asm.src = {m}
       PROVE  \E d \in 0..IdMod : Ahead(m, d)'
  <2>1. PICK d \in 0..IdMod : Ahead(m, d)
    BY <1>0, <1>10 DEF PartialOK
  <2>2. CASE m # n
    <3>1. cut'[m] = cut[m] /\ asm' = asm
      BY <1>4, <1>8, <2>2
    <3> QED
      BY <2>1, <3>1 DEF Ahead
  <2>3. CASE m = n
    <3> DEFINE p == asm.parts[1]
    <3>1. asm.parts \in Seq(FrameNo) /\ asm.parts # <<>>
      BY <1>0, <1>10 DEF PartialOK, GwShape
    <3>2. p \in FrameNo
      BY <3>1, EmptySeq, ElementOfSeq, LenProperties
    <3>3. /\ cut[n].no = p + d \/ cut[n].no = p + d - 2 * IdMod
          /\ d <= cut[n].unseen + (IF cut[n].idx = 0 THEN 1 ELSE 0)
      BY <2>1, <2>3 DEF Ahead
    <3> HIDE DEF p
    <3>4. IF f.idx = 0 THEN d <= u ELSE d <= u /\ u = cut[n].unseen
      BY <1>2, <1>6, <1>7, <3>3
    <3>5. PICK e \in 0..IdMod :
            /\ Advance(n, f).no = p + e \/ Advance(n, f).no = p + e - 2 * IdMod
            /\ e <= u + (IF Advance(n, f).idx = 0 THEN 1 ELSE 0)
      BY <1>0, <1>3, <3>2, <3>3, <3>4, AdvanceAhead
    <3>6. /\ cut'[n].no = asm'.parts[1] + e \/ cut'[n].no = asm'.parts[1] + e - 2 * IdMod
          /\ e <= cut'[n].unseen + (IF cut'[n].idx = 0 THEN 1 ELSE 0)
      BY <1>4, <1>5, <1>8, <3>5 DEF p
    <3>7. Ahead(n, e)'
      BY <3>6, Zenon DEF Ahead
    <3> QED
      BY <2>3, <3>7
  <2> QED
    BY <2>2, <2>3
<1>11. PartialOK'
  <2>1. asm' = asm
    BY <1>4
  <2>2. asm.active => /\ asm.parts # <<>> /\ asm.next > 0 /\ asm.id = asm.parts[1] % IdMod
    BY <1>0 DEF PartialOK
  <2> QED
    BY <1>10, <2>1, <2>2 DEF PartialOK
<1> QED
  BY <1>8, <1>9, <1>11 DEF GwInv

----------------------------------------------------------------------------
(* The gateway *)

\* A leaf after a fragment that arrived: it moves on, or the radio repeats it.
LEMMA ReceiveCut ==
    ASSUME GwShape, NEW n \in Node, NEW f \in NextFragment(n),
           \E next \in {Advance(n, f), [cut[n] EXCEPT !.of = f.of]} :
             cut' = [cut EXCEPT ![n] = [next EXCEPT !.unseen = IF f.idx = 0 THEN 0 ELSE @]]
    PROVE  /\ cut' \in [Node -> CutState]
           /\ \A m \in Node \ {n} : cut'[m] = cut[m]
           /\ cut'[n].unseen = IF f.idx = 0 THEN 0 ELSE cut[n].unseen
           /\ \/ cut'[n].no = cut[n].no /\ cut'[n].idx = cut[n].idx
              \/ cut'[n].no = Advance(n, f).no /\ cut'[n].idx = Advance(n, f).idx
<1>0. PICK next \in {Advance(n, f), [cut[n] EXCEPT !.of = f.of]} :
        cut' = [cut EXCEPT ![n] = [next EXCEPT !.unseen = IF f.idx = 0 THEN 0 ELSE @]]
  OBVIOUS
<1>1. /\ IdMod \in Nat \ {0} /\ cut \in [Node -> CutState]
      /\ cut[n] \in CutState /\ f.of \in Nat
  BY GwAssumption, FragmentIs DEF GwShape
<1>2. /\ next \in CutState /\ next.unseen = cut[n].unseen
      /\ \/ next.no = cut[n].no /\ next.idx = cut[n].idx
         \/ next.no = Advance(n, f).no /\ next.idx = Advance(n, f).idx
  <2>1. CASE next = Advance(n, f)
    BY <2>1, FragmentIs
  <2>2. CASE next = [cut[n] EXCEPT !.of = f.of]
    BY <1>1, <2>2 DEF CutState
  <2> QED
    BY <2>1, <2>2
<1> DEFINE u == IF f.idx = 0 THEN 0 ELSE next.unseen
           c == [next EXCEPT !.unseen = u]
<1>3. u \in 0..(IdMod - 1)
  BY <1>1, <1>2 DEF CutState
<1>4. cut' = [cut EXCEPT ![n] = c]
  BY <1>0
<1> HIDE DEF u
<1>5. c \in CutState /\ c.unseen = u /\ c.no = next.no /\ c.idx = next.idx
  BY <1>2, <1>3 DEF CutState
<1> HIDE DEF c
<1>6. cut' \in [Node -> CutState] /\ cut'[n] = c /\ \A m \in Node \ {n} : cut'[m] = cut[m]
  BY <1>1, <1>4, <1>5
<1>7. u = IF f.idx = 0 THEN 0 ELSE cut[n].unseen
  BY <1>2 DEF u
<1> QED
  BY <1>2, <1>5, <1>6, <1>7

\* The slot, the table and PEER_MAC after a fragment that is relayed.
LEMMA RelaySlots ==
    ASSUME GwShape, OneOwner, NEW n \in Node, NEW f, Relay(n, f), Observe(n) # "Ignore"
    PROVE  /\ peerSlot' = [mac |-> {n}, seen |-> 0]
           /\ table' = {n} /\ peerMac' = {n} /\ asm' = Push(n, f)
<1>1. /\ peerSlot' = [mac |-> {n}, seen |-> 0] /\ peerMac' = {n} /\ asm' = Push(n, f)
      /\ table' = CASE Observe(n) = "Keep" -> table
                    [] Observe(n) = "Register" -> table \cup {n}
                    [] Observe(n) = "Swap" -> (table \ peerSlot.mac) \cup {n}
  BY DEF Relay
<1>2. table = peerSlot.mac
  BY DEF OneOwner
<1>3. CASE peerSlot.mac = {n}
  <2>1. Observe(n) = "Keep"
    BY <1>3 DEF Observe
  <2> QED
    BY <1>1, <1>2, <1>3, <2>1
<1>4. CASE peerSlot.mac # {n} /\ peerSlot.mac = {}
  <2>1. Observe(n) = "Register"
    BY <1>4 DEF Observe
  <2>2. table' = table \cup {n}
    BY <1>1, <2>1
  <2> QED
    BY <1>1, <1>2, <1>4, <2>2
<1>5. CASE peerSlot.mac # {n} /\ peerSlot.mac # {}
  <2>1. Observe(n) = "Swap"
    BY <1>5 DEF Observe
  <2>2. table' = (table \ peerSlot.mac) \cup {n}
    BY <1>1, <2>1
  <2> QED
    BY <1>1, <1>2, <2>2
<1> QED
  BY <1>3, <1>4, <1>5

\* What Push makes of a first fragment, of the fragment it waits for and of any
\* other.
LEMMA PushIs ==
    ASSUME GwInv, NEW n \in Node, NEW f \in NextFragment(n)
    PROVE  LET a == Push(n, f)
           IN  /\ a \in [src : SUBSET Node, active : BOOLEAN, id : Nat, next : Nat,
                         parts : Seq(FrameNo)]
               /\ a.src = {n}
               /\ \A i \in 1..Len(a.parts) : a.parts[i] = a.parts[1]
               /\ a.active =>
                    /\ a.parts # <<>> /\ a.next > 0 /\ a.id = f.id
                    /\ a.parts[1] = f.no
                    /\ f.idx # 0 => asm.active /\ asm.src = {n} /\ asm.parts[1] = f.no
<1>0. GwShape /\ FramesWhole /\ PartialOK /\ IdMod \in Nat
  BY GwAssumption DEF GwInv
<1>1. /\ f.no = cut[n].no /\ f.no \in FrameNo /\ f.id = f.no % IdMod /\ f.id \in Nat
      /\ f.idx = cut[n].idx /\ f.idx \in Nat /\ f.of \in Nat
  BY <1>0, FragmentIs
<1>2. asm \in [src : SUBSET Node, active : BOOLEAN, id : Nat, next : Nat, parts : Seq(FrameNo)]
  BY <1>0 DEF GwShape
<1> DEFINE waited == asm.src = {n} /\ asm.active /\ f.id = asm.id /\ f.idx = asm.next
<1>l. LastFragment(f) \in BOOLEAN
  BY <1>1 DEF LastFragment
<1>3. CASE f.idx = 0
  <2>1. Push(n, f) = [src |-> {n}, active |-> ~LastFragment(f), id |-> f.id,
                      next |-> f.idx + 1, parts |-> <<>> \o <<f.no>>]
    BY <1>3 DEF Push
  <2>2. <<>> \o <<f.no>> = <<f.no>> /\ <<f.no>> \in Seq(FrameNo)
    BY <1>1
  <2>3. Len(<<f.no>>) = 1 /\ <<f.no>>[1] = f.no /\ <<f.no>> # <<>>
    BY <1>1
  <2>4. f.idx + 1 \in Nat /\ f.idx + 1 > 0
    BY <1>1
  <2> QED
    BY <1>1, <1>l, <1>3, <2>1, <2>2, <2>3, <2>4
<1>4. CASE f.idx # 0 /\ waited
  <2> DEFINE parts == asm.parts \o <<f.no>>
  <2>1. Push(n, f) = [src |-> {n}, active |-> ~LastFragment(f), id |-> f.id,
                      next |-> f.idx + 1, parts |-> parts]
    BY <1>4 DEF Push
  <2>2. /\ asm.parts # <<>> /\ asm.id = asm.parts[1] % IdMod
        /\ \E d \in 0..IdMod : Ahead(n, d)
    BY <1>0, <1>4 DEF PartialOK
  <2>3. asm.parts \in Seq(FrameNo) /\ Len(asm.parts) \in Nat /\ Len(asm.parts) > 0
    BY <1>2, <2>2, EmptySeq, LenProperties
  <2>4. asm.parts[1] \in FrameNo
    BY <2>3, ElementOfSeq
  <2>5. PICK d \in 0..IdMod : Ahead(n, d)
    BY <2>2
  <2>6. /\ cut[n].no = asm.parts[1] + d \/ cut[n].no = asm.parts[1] + d - 2 * IdMod
        /\ d <= cut[n].unseen
    <3>1. cut[n].unseen \in 0..(IdMod - 1)
      BY <1>0 DEF GwShape, CutState
    <3> QED
      BY <1>1, <1>4, <2>5, <3>1 DEF Ahead
  <2>7. d \in Nat /\ d < IdMod
    <3>1. cut[n].unseen \in 0..(IdMod - 1)
      BY <1>0 DEF GwShape, CutState
    <3> QED
      BY <1>0, <2>6, <3>1
  <2>8. f.no % IdMod = asm.parts[1] % IdMod
    BY <1>1, <1>4, <2>2
  <2>9. f.no = asm.parts[1]
    BY <1>1, <2>4, <2>6, <2>7, <2>8, SameId
  <2>10. parts \in Seq(FrameNo) /\ Len(parts) = Len(asm.parts) + 1
    BY <1>1, <2>3
  <2>11. /\ \A i \in 1..Len(asm.parts) : parts[i] = asm.parts[i]
         /\ parts[Len(asm.parts) + 1] = f.no
    BY <1>1, <2>3
  <2>12. \A i \in 1..Len(asm.parts) : asm.parts[i] = asm.parts[1]
    BY <1>0 DEF FramesWhole
  <2> HIDE DEF parts
  <2>13. \A i \in 1..Len(parts) : parts[i] = f.no
    BY <2>3, <2>9, <2>10, <2>11, <2>12
  <2>14. parts[1] = f.no /\ parts # <<>>
    BY <2>3, <2>10, <2>13, EmptySeq
  <2>15. f.idx + 1 \in Nat /\ f.idx + 1 > 0
    BY <1>1
  <2> QED
    BY <1>1, <1>l, <1>4, <2>1, <2>9, <2>10, <2>13, <2>14, <2>15
<1>5. CASE f.idx # 0 /\ ~waited
  <2>1. Push(n, f) = [asm EXCEPT !.src = {n}, !.active = FALSE]
    BY <1>5 DEF Push
  <2>2. \A i \in 1..Len(asm.parts) : asm.parts[i] = asm.parts[1]
    BY <1>0 DEF FramesWhole
  <2>3. /\ Push(n, f) \in [src : SUBSET Node, active : BOOLEAN, id : Nat, next : Nat,
                           parts : Seq(FrameNo)]
        /\ Push(n, f).src = {n} /\ Push(n, f).active = FALSE
        /\ Push(n, f).parts = asm.parts
    BY <1>2, <2>1
  <2> QED
    BY <2>2, <2>3
<1> QED
  BY <1>3, <1>4, <1>5

\* A fragment arrives at the gateway.
LEMMA ReceiveKeeps ==
    ASSUME GwInv, NEW n \in Node, Receive(n)
    PROVE  GwInv'
<1>0. GwShape /\ OneOwner /\ FramesWhole /\ PartialOK /\ DownOK /\ IdMod \in Nat \ {0}
  BY GwAssumption DEF GwInv
<1>1. PICK f \in NextFragment(n) :
        /\ Relay(n, f)
        /\ \E next \in {Advance(n, f), [cut[n] EXCEPT !.of = f.of]} :
             cut' = [cut EXCEPT ![n] = [next EXCEPT !.unseen = IF f.idx = 0 THEN 0 ELSE @]]
        /\ UNCHANGED down
  BY DEF Receive
<1>2. /\ cut' \in [Node -> CutState]
      /\ \A m \in Node \ {n} : cut'[m] = cut[m]
      /\ cut'[n].unseen = IF f.idx = 0 THEN 0 ELSE cut[n].unseen
      /\ \/ cut'[n].no = cut[n].no /\ cut'[n].idx = cut[n].idx
         \/ cut'[n].no = Advance(n, f).no /\ cut'[n].idx = Advance(n, f).idx
  BY <1>0, <1>1, ReceiveCut, Zenon
<1>3. DownOK'
  BY <1>0, <1>1 DEF DownOK
<1>4. CASE Observe(n) = "Ignore"
  <2>1. UNCHANGED <<peerSlot, table, peerMac, asm>>
    BY <1>1, <1>4 DEF Relay
  <2>2. asm.src # {n}
    BY <1>0, <1>4 DEF Observe, OneOwner
  <2>3. GwShape' /\ OneOwner' /\ FramesWhole'
    BY <1>0, <1>2, <2>1 DEF GwShape, OneOwner, FramesWhole
  <2>4. ASSUME asm.active, NEW m \in Node, asm.src = {m}
        PROVE  \E d \in 0..IdMod : Ahead(m, d)'
    <3>1. PICK d \in 0..IdMod : Ahead(m, d)
      BY <1>0, <2>4 DEF PartialOK
    <3>2. cut'[m] = cut[m] /\ asm' = asm
      BY <1>2, <2>1, <2>2, <2>4
    <3> QED
      BY <3>1, <3>2 DEF Ahead
  <2>5. asm' = asm /\ (asm.active => /\ asm.parts # <<>> /\ asm.next > 0
                                    /\ asm.id = asm.parts[1] % IdMod)
    BY <1>0, <2>1 DEF PartialOK
  <2>6. PartialOK'
    BY <2>4, <2>5 DEF PartialOK
  <2> QED
    BY <1>3, <2>3, <2>6 DEF GwInv
<1>5. CASE Observe(n) # "Ignore"
  <2>1. /\ peerSlot' = [mac |-> {n}, seen |-> 0]
        /\ table' = {n} /\ peerMac' = {n} /\ asm' = Push(n, f)
    BY <1>0, <1>1, <1>5, RelaySlots
  <2>2. /\ asm' \in [src : SUBSET Node, active : BOOLEAN, id : Nat, next : Nat,
                     parts : Seq(FrameNo)]
        /\ asm'.src = {n}
        /\ \A i \in 1..Len(asm'.parts) : asm'.parts[i] = asm'.parts[1]
        /\ asm'.active =>
             /\ asm'.parts # <<>> /\ asm'.next > 0 /\ asm'.id = f.id
             /\ asm'.parts[1] = f.no
             /\ f.idx # 0 => asm.active /\ asm.src = {n} /\ asm.parts[1] = f.no
    BY <2>1, PushIs
  <2>3. peerSlot' \in [mac : SUBSET Node, seen : Nat] /\ peerSlot'.mac = {n}
    BY <2>1
  <2>4. GwShape'
    BY <1>2, <2>2, <2>3 DEF GwShape
  <2>5. OneOwner' /\ FramesWhole'
    BY <2>1, <2>2, <2>3 DEF OneOwner, FramesWhole
  <2>6. ASSUME asm'.active
        PROVE  \E d \in 0..IdMod : Ahead(n, d)'
    <3> DEFINE u == cut'[n].unseen
    <3>1. /\ f.no = cut[n].no /\ f.no \in FrameNo /\ f.idx = cut[n].idx /\ f.idx \in Nat
          /\ asm'.parts[1] = f.no
      BY <1>0, <2>2, <2>6, FragmentIs
    <3>2. f.no \in Nat /\ u \in 0..(IdMod - 1)
      BY <1>2, <3>1, IdIs DEF CutState
    <3>3. f.idx # 0 => u = cut[n].unseen
      BY <1>2
    <3>4. CASE cut'[n].no = cut[n].no /\ cut'[n].idx = cut[n].idx
      <4>1. 0 \in 0..IdMod /\ cut'[n].no = asm'.parts[1] + 0
        BY <1>0, <3>1, <3>2, <3>4
      <4>2. 0 <= cut'[n].unseen + (IF cut'[n].idx = 0 THEN 1 ELSE 0)
        BY <3>2
      <4>3. Ahead(n, 0)'
        BY <4>1, <4>2, Zenon DEF Ahead
      <4> QED
        BY <4>1, <4>3
    <3>5. CASE cut'[n].no = Advance(n, f).no /\ cut'[n].idx = Advance(n, f).idx
      <4> HIDE DEF u
      <4>1. /\ 0 \in 0..IdMod /\ cut[n].no = f.no + 0
            /\ IF f.idx = 0 THEN 0 <= u ELSE 0 <= u /\ u = cut[n].unseen
        BY <1>0, <3>1, <3>2, <3>3
      <4>2. PICK e \in 0..IdMod :
              /\ Advance(n, f).no = f.no + e \/ Advance(n, f).no = f.no + e - 2 * IdMod
              /\ e <= u + (IF Advance(n, f).idx = 0 THEN 1 ELSE 0)
        BY <1>0, <3>1, <3>2, <4>1, AdvanceAhead
      <4>3. /\ \/ cut'[n].no = asm'.parts[1] + e
               \/ cut'[n].no = asm'.parts[1] + e - 2 * IdMod
            /\ e <= cut'[n].unseen + (IF cut'[n].idx = 0 THEN 1 ELSE 0)
        BY <3>1, <3>5, <4>2 DEF u
      <4>4. Ahead(n, e)'
        BY <4>3, Zenon DEF Ahead
      <4> QED
        BY <4>4
    <3> QED
      BY <1>2, <3>4, <3>5
  <2>7. ASSUME asm'.active
        PROVE  asm'.id = asm'.parts[1] % IdMod
    <3>1. f.id = f.no % IdMod
      BY <1>0, FragmentIs
    <3> QED
      BY <2>2, <2>7, <3>1
  <2>8. PartialOK'
    <3>1. ASSUME asm'.active, NEW m \in Node, asm'.src = {m}
          PROVE  \E d \in 0..IdMod : Ahead(m, d)'
      <4>1. m = n
        BY <2>2, <3>1
      <4> QED
        BY <2>6, <3>1, <4>1
    <3> QED
      BY <2>2, <2>7, <3>1 DEF PartialOK
  <2> QED
    BY <1>3, <2>4, <2>5, <2>8 DEF GwInv
<1> QED
  BY <1>4, <1>5

\* Steps that leave the leaves and the reassembler alone.
LEMMA OthersKeep ==
    ASSUME GwInv, GwTick \/ BeginDown \/ SendDown \/ UNCHANGED gwVars
    PROVE  GwInv'
<1>1. GwShape /\ OneOwner /\ FramesWhole /\ PartialOK /\ DownOK
  BY DEF GwInv
<1>2. UNCHANGED <<cut, table, peerMac, asm>>
  BY DEF GwTick, BeginDown, SendDown, gwVars
<1>3. FramesWhole' /\ PartialOK'
  BY <1>1, <1>2 DEF FramesWhole, PartialOK, Ahead
<1>4. peerSlot' \in [mac : SUBSET Node, seen : Nat] /\ peerSlot'.mac = peerSlot.mac
  BY <1>1 DEF GwShape, GwTick, BeginDown, SendDown, gwVars
<1>5. GwShape' /\ OneOwner'
  BY <1>1, <1>2, <1>4 DEF GwShape, OneOwner
<1>6. DownOK'
  <2>1. CASE BeginDown
    <3>1. PICK k \in FragCounts : down' = [to |-> peerMac, left |-> k, reached |-> {}]
      BY <2>1 DEF BeginDown
    <3> QED
      BY <3>1 DEF DownOK
  <2>2. CASE SendDown
    <3>1. down' = [down EXCEPT !.left = down.left - 1, !.reached = down.reached \cup {down.to}]
      BY <2>2 DEF SendDown
    <3>2. down.reached \subseteq {down.to}
      BY <1>1 DEF DownOK
    <3> QED
      BY <3>1, <3>2 DEF DownOK
  <2>3. CASE GwTick \/ UNCHANGED gwVars
    BY <1>1, <2>3 DEF DownOK, GwTick, gwVars
  <2> QED
    BY <2>1, <2>2, <2>3
<1> QED
  BY <1>3, <1>5, <1>6 DEF GwInv

----------------------------------------------------------------------------
(* Theorems *)

LEMMA GwInvInductive == GwInit /\ [][GwNext]_gwVars => []GwInv
<1>1. GwInit => GwInv
  <2> SUFFICES ASSUME GwInit PROVE GwInv
    OBVIOUS
  <2>1. 0 \in FrameNo /\ 0 \in 0..(IdMod - 1)
    BY GwAssumption DEF FrameNo
  <2>2. <<>> \in Seq(FrameNo) /\ Len(<<>>) = 0
    OBVIOUS
  <2>3. GwShape
    BY <2>1, <2>2 DEF GwInit, GwShape, CutState
  <2>4. OneOwner /\ PartialOK /\ DownOK
    BY DEF GwInit, OneOwner, PartialOK, DownOK
  <2>5. FramesWhole
    BY <2>2 DEF GwInit, FramesWhole
  <2> QED
    BY <2>3, <2>4, <2>5 DEF GwInv
<1>2. GwInv /\ [GwNext]_gwVars => GwInv'
  <2> SUFFICES ASSUME GwInv, [GwNext]_gwVars PROVE GwInv'
    OBVIOUS
  <2>1. CASE \E n \in Node : LoseFragment(n)
    BY <2>1, LossKeeps
  <2>2. CASE \E n \in Node : Receive(n)
    BY <2>2, ReceiveKeeps
  <2>3. CASE GwTick \/ BeginDown \/ SendDown \/ UNCHANGED gwVars
    BY <2>3, OthersKeep
  <2> QED
    BY <2>1, <2>2, <2>3 DEF GwNext
<1> QED
  BY <1>1, <1>2, PTL

\* The peer slot, the radio's table, PEER_MAC and the reassembler agree on one
\* leaf, whichever leaves send and however long they are silent.
THEOREM OwnersAgree == GwSpec => []OneOwner
<1>1. GwInv => OneOwner
  BY DEF GwInv
<1> QED
  BY <1>1, GwInvInductive, PTL DEF GwSpec

\* The Reassembler never joins chunks of two frames, whatever the radio loses or
\* repeats and wherever the message id wraps.
THEOREM HandsOnWholeFrames == GwSpec => []FramesWhole
<1>1. GwInv => FramesWhole
  BY DEF GwInv
<1> QED
  BY <1>1, GwInvInductive, PTL DEF GwSpec

\* A frame from the host goes to one leaf, even when the slot moves on meanwhile.
THEOREM OneDestination == GwSpec => []FrameStaysTogether
<1>1. GwInv => FrameStaysTogether
  <2> SUFFICES ASSUME GwInv PROVE Cardinality(down.reached) <= 1
    BY DEF FrameStaysTogether
  <2>1. down.reached \subseteq {down.to}
    BY DEF GwInv, DownOK
  <2>2. down.reached = {} \/ down.reached = {down.to}
    BY <2>1
  <2>3. Cardinality({}) = 0 /\ Cardinality({down.to}) = 1
    BY FS_EmptySet, FS_Singleton
  <2> QED
    BY <2>2, <2>3
<1> QED
  BY <1>1, GwInvInductive, PTL DEF GwSpec
============================================================================
