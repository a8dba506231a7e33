--------------------------- MODULE EspNowGateway ---------------------------
(***************************************************************************)
(* The ESP-NOW gateways: espnow_gateway.rs (radio <-> USB serial) and      *)
(* espnow_wifi_gateway.rs (radio <-> UDP), with the fragmentation codec    *)
(* they share with the leaf transport (espnow_frag.rs) and the sticky slot *)
(* that decides whose frames are relayed (espnow_peer.rs).                 *)
(*                                                                         *)
(* Leaves cut frames into fragments; the radio loses and duplicates them   *)
(* but keeps the order of one sender; the gateway observes, reassembles    *)
(* and hands whole frames on, and in the other direction cuts the host's   *)
(* frames into fragments for the slot's owner.  A frame's chunks carry the *)
(* number of the frame they were cut from, which no receiver looks at.     *)
(***************************************************************************)
EXTENDS Naturals, Sequences, FiniteSets

CONSTANTS
    Node,        \* MACs of the leaves
    IdMod,       \* values of the wrapping message id (256)
    FragCounts,  \* numbers of fragments a frame may have
    HoldTicks    \* ACTIVE_HOLD_MS in ticks

ASSUME GwAssumption ==
    /\ IdMod \in Nat \ {0, 1}
    /\ FragCounts \subseteq Nat \ {0}
    /\ HoldTicks \in Nat \ {0}

VARIABLES
    cut,       \* per leaf: its Fragmenter and the frame it is sending
    peerSlot,  \* PeerSlot, with the age of last_seen_ms
    table,     \* the radio's peer table
    peerMac,   \* PEER_MAC, read by the other direction
    asm,       \* SrcReassembler
    down       \* the frame being sent to the radio

gwVars == <<cut, peerSlot, table, peerMac, asm, down>>

\* Frames are told apart modulo twice the id space, so that a frame and the
\* one that reuses its id differ.
FrameNo == 0..(2 * IdMod - 1)

----------------------------------------------------------------------------
(* Leaves and radio *)

\* Fragmenter::fragments and FragmentIter::next: the next fragment of leaf n; at
\* a frame's first one the number of its fragments is chosen.
NextFragment(n) ==
    {[no |-> cut[n].no, id |-> cut[n].no % IdMod, idx |-> cut[n].idx, of |-> k] :
        k \in IF cut[n].of = 0 THEN FragCounts ELSE {cut[n].of}}

LastFragment(f) == f.idx = f.of - 1

\* The Fragmenter after fragment f; the message id wraps.
Advance(n, f) ==
    IF LastFragment(f)
    THEN [cut[n] EXCEPT !.no = (@ + 1) % (2 * IdMod), !.idx = 0, !.of = 0]
    ELSE [cut[n] EXCEPT !.idx = @ + 1, !.of = f.of]

\* The radio loses a fragment.  Fewer than IdMod frames in a row go by without
\* their first fragment arriving.
LoseFragment(n) ==
    \E f \in NextFragment(n) :
        LET unseen == IF f.idx = 0 THEN cut[n].unseen + 1 ELSE cut[n].unseen
        IN  /\ unseen < IdMod
            /\ cut' = [cut EXCEPT ![n] = [Advance(n, f) EXCEPT !.unseen = unseen]]
            /\ UNCHANGED <<peerSlot, table, peerMac, asm, down>>

GwTick ==
    /\ peerSlot.seen <= HoldTicks
    /\ peerSlot' = [peerSlot EXCEPT !.seen = @ + 1]
    /\ UNCHANGED <<cut, table, peerMac, asm, down>>

----------------------------------------------------------------------------
(* Radio -> host *)

\* A plausible slip: an owner is never replaced.
ObserveSticky(src) ==
    IF peerSlot.mac = {src} THEN "Keep"
    ELSE IF peerSlot.mac = {} THEN "Register" ELSE "Ignore"

\* PeerSlot::observe
Observe(src) ==
    IF peerSlot.mac = {src} THEN "Keep"
    ELSE IF peerSlot.mac = {} THEN "Register"
    ELSE IF peerSlot.seen <= HoldTicks THEN "Ignore" ELSE "Swap"

\* A plausible slip: the message id is not compared.
PushAnyId(src, f) ==
    LET same == asm.src = {src}
        takes == f.idx = 0 \/ (same /\ asm.active /\ f.idx = asm.next)
    IN  IF takes
        THEN [src |-> {src}, active |-> ~LastFragment(f), id |-> f.id, next |-> f.idx + 1,
              parts |-> (IF f.idx = 0 THEN <<>> ELSE asm.parts) \o <<f.no>>]
        ELSE [asm EXCEPT !.src = {src}, !.active = FALSE]

\* SrcReassembler::push: a change of source drops the partial frame, then
\* Reassembler::push takes the fragment or drops what it had.
Push(src, f) ==
    LET same == asm.src = {src}
        takes == f.idx = 0 \/ (same /\ asm.active /\ f.id = asm.id /\ f.idx = asm.next)
    IN  IF takes
        THEN [src |-> {src}, active |-> ~LastFragment(f), id |-> f.id, next |-> f.idx + 1,
              parts |-> (IF f.idx = 0 THEN <<>> ELSE asm.parts) \o <<f.no>>]
        ELSE [asm EXCEPT !.src = {src}, !.active = FALSE]

\* espnow_to_usb and espnow_to_udp on a fragment of n: observe the source, drive
\* the peer table, publish the owner, reassemble and hand a completed frame on
\* (best effort: the write to the host may time out).  The radio may then send
\* the fragment again because the acknowledgement was lost.
Relay(n, f) ==
    LET action == Observe(n)
    IN  IF action = "Ignore"
        THEN UNCHANGED <<peerSlot, table, peerMac, asm>>
        ELSE /\ peerSlot' = [mac |-> {n}, seen |-> 0]
             /\ table' = CASE action = "Keep" -> table
                           [] action = "Register" -> table \cup {n}
                           [] action = "Swap" -> (table \ peerSlot.mac) \cup {n}
             /\ peerMac' = {n}
             /\ asm' = Push(n, f)

Receive(n) ==
    \E f \in NextFragment(n) :
        /\ Relay(n, f)
        /\ \E next \in {Advance(n, f), [cut[n] EXCEPT !.of = f.of]} :
             cut' = [cut EXCEPT ![n] = [next EXCEPT !.unseen = IF f.idx = 0 THEN 0 ELSE @]]
        /\ UNCHANGED down

----------------------------------------------------------------------------
(* Host -> radio *)

\* usb_to_espnow_task and udp_to_espnow_task read PEER_MAC once per frame ...
BeginDown ==
    /\ down.left = 0
    /\ \E k \in FragCounts : down' = [to |-> peerMac, left |-> k, reached |-> {}]
    /\ UNCHANGED <<cut, peerSlot, table, peerMac, asm>>

\* ... and send every fragment of it there, awaiting the radio in between.
SendDown ==
    /\ down.left > 0
    /\ down' = [down EXCEPT !.left = @ - 1, !.reached = @ \cup {down.to}]
    /\ UNCHANGED <<cut, peerSlot, table, peerMac, asm>>

----------------------------------------------------------------------------
GwInit ==
    /\ cut = [n \in Node |-> [no |-> 0, idx |-> 0, of |-> 0, unseen |-> 0]]
    /\ peerSlot = [mac |-> {}, seen |-> 0]
    /\ table = {} /\ peerMac = {}
    /\ asm = [src |-> {}, active |-> FALSE, id |-> 0, next |-> 0, parts |-> <<>>]
    /\ down = [to |-> {}, left |-> 0, reached |-> {}]

GwNext ==
    \/ \E n \in Node : LoseFragment(n) \/ Receive(n)
    \/ GwTick \/ BeginDown \/ SendDown

GwSpec == GwInit /\ [][GwNext]_gwVars

\* Time passes.
GwFairness == WF_gwVars(GwTick)

GwFair == GwSpec /\ GwFairness

----------------------------------------------------------------------------
(* Properties *)

\* What the Reassembler holds, and hands to the host when it is complete, was
\* cut from one frame: losses, duplicates, a second leaf and the wrapping
\* message id never join chunks of two frames.
FramesWhole ==
    \A i \in 1..Len(asm.parts) : asm.parts[i] = asm.parts[1]

\* The slot's owner is the only MAC in the radio's table, the one the other
\* direction sends to and the only source the reassembler has chunks of.
OneOwner ==
    table = peerSlot.mac /\ peerMac = peerSlot.mac /\ asm.src = peerSlot.mac

\* All fragments of a frame from the host go to one place, even when the slot
\* moves between two of them.
FrameStaysTogether == Cardinality(down.reached) <= 1

\* A leaf that is heard again and again while every other is silent gets the
\* slot: the silent owner is replaced once ACTIVE_HOLD_MS have passed.
SlotIsReleased ==
    \A n \in Node :
        /\ []<><<Receive(n)>>_gwVars
        /\ <>[][\A m \in Node \ {n} : ~Receive(m)]_gwVars
        => <>[](peerSlot.mac = {n})

============================================================================
