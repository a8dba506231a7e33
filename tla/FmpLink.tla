------------------------------- MODULE FmpLink ------------------------------
(***************************************************************************)
(* The FMP link of crates/microfips-protocol/src/node.rs: two nodes that   *)
(* each run session() = handshake() ; steady() in a loop, over a transport *)
(* that may lose, delay, reorder and duplicate frames.                     *)
(*                                                                         *)
(* A key epoch is named by the pair of ephemerals it is derived from: the  *)
(* initiator's and the responder's.  Both ends derive the same keys exactly *)
(* when they hold the same pair, and a frame opens under a slot exactly    *)
(* when it was sealed by the other role of the same epoch.  A session      *)
(* index is drawn with each ephemeral, so an ephemeral also stands for the *)
(* index that travels with it.                                             *)
(*                                                                         *)
(* Timers are abstracted to the order in which they may fire: a deadline   *)
(* that may have passed is a choice of the step that tests it.  Everything *)
(* a node has sent stays deliverable, which covers loss, duplication,      *)
(* reordering and delay; a frame suppressed by the frame-rate policy or by *)
(* the rekey-answer rate limit is a lost frame.                            *)
(***************************************************************************)
EXTENDS Naturals

CONSTANTS
    Node,           \* the two ends of the link
    LowNode,        \* the end whose NodeAddr compares lower
    PeerSentFirst,  \* ends configured with set_peer_sent_first(true)
    Rekeyers,       \* ends with rekey_after_secs or rekey_after_messages > 0
    Pattern,        \* "IK", or "XX" for the noise-xx build
    MaxResends,     \* NodeTiming::handshake_max_resends
    Window,         \* REPLAY_WINDOW_SIZE
    MaxEph,         \* bound: ephemerals a node draws
    MaxCtr          \* bound: frames sealed per epoch

ASSUME LinkAssumption ==
    /\ LowNode \in Node
    /\ PeerSentFirst \subseteq Node
    /\ Rekeyers \subseteq Node
    /\ Pattern \in {"IK", "XX"}
    /\ MaxResends \in Nat
    /\ Window \in Nat \ {0}
    /\ MaxEph \in Nat
    /\ MaxCtr \in Nat

VARIABLE node   \* node[n]: the state of one end (record of type NodeState)

-----------------------------------------------------------------------------
(* Frames on the wire.                                                     *)

Eph == Node \X Nat
Role == {"init", "resp"}
Kind == {"app", "disconnect"}

(* `neg': an encrypted negotiation payload follows the Noise message.  The *)
(* XX handshake appends one to msg2 and msg3; a rekey never does, and its  *)
(* Noise reads insist on the bare length.                                  *)
Msg1(e) == [type |-> "msg1", e1 |-> e]
Msg2(e, r, neg) == [type |-> "msg2", e1 |-> e, e2 |-> r, neg |-> neg]
Msg3(e, r, neg) == [type |-> "msg3", e1 |-> e, e2 |-> r, neg |-> neg]
Data(x, kind) ==
    [type |-> "data", ep |-> x.ep, role |-> x.role, ctr |-> x.ctr,
     k |-> x.k, kind |-> kind]

DataFrame == [type : {"data"}, ep : Eph \X Eph, role : Role, ctr : Nat,
              k : BOOLEAN, kind : Kind]
HandshakeFrame == [type : {"msg1"}, e1 : Eph]
                  \cup [type : {"msg2", "msg3"}, e1 : Eph, e2 : Eph,
                         neg : BOOLEAN]
Frame == DataFrame \cup HandshakeFrame

-----------------------------------------------------------------------------
(* State of one end.  An Option is a set with at most one element.         *)

Option(S) == {o \in SUBSET S : \A x, y \in o : x = y}

EpochSlot == [ep : Eph \X Eph, role : Role, ctr : Nat, k : BOOLEAN,
              seen : SUBSET Nat]

NodeState ==
    [phase : {"idle", "handshake", "awaitMsg3", "steady"},
     hs    : Option([eph : Eph, resends : Nat]),  \* initiator of handshake()
     resp  : Option([e1 : Eph, e2 : Eph]),        \* XX responder before msg3
     cur   : Option(EpochSlot),
     pend  : Option(EpochSlot),
     prev  : Option(EpochSlot),
     pendSelf : BOOLEAN,
     init  : Option([eph : Eph, resends : Nat]),  \* rekey_init
     cache : Option([e1 : Eph, e2 : Eph]),  \* last_rekey_msg1/last_rekey_msg2
     dampened : BOOLEAN,   \* last_peer_rekey_at within REKEY_DAMPENING_SECS
     lastRx : {"auth", "unauth", "expired"},  \* what refreshed last_rx last
     epoch : Nat,                 \* Node::epoch, one per session attempt
     next  : Nat,                 \* number of the next ephemeral drawn
     sent  : SUBSET Frame,        \* every frame this end put on the wire
     got   : SUBSET DataFrame]    \* history: established frames accepted

NewNode ==
    [phase |-> "idle", hs |-> {}, resp |-> {}, cur |-> {}, pend |-> {},
     prev |-> {}, pendSelf |-> FALSE, init |-> {}, cache |-> {},
     dampened |-> FALSE, lastRx |-> "auth", epoch |-> 0, next |-> 1,
     sent |-> {}, got |-> {}]

TypeOK == node \in [Node -> NodeState]

Fresh(s, n) == <<n, s.next>>
CanDraw(s) == s.next <= MaxEph
Slots(s) == s.cur \cup s.pend \cup s.prev

Slot(e, r, role, k) ==
    [ep |-> <<e, r>>, role |-> role, ctr |-> 0, k |-> k, seen |-> {}]

CurK(s) == \E c \in s.cur : c.k

(* A plausible slip: the pending epoch is given the K-bit of the current   *)
(* one.                                                                    *)
ArmPendSameK(s, e, r, role) ==
    [s EXCEPT !.pend = {Slot(e, r, role, CurK(s))}]

(* A completed rekey handshake replaces whatever was pending.              *)
ArmPend(s, e, r, role) ==
    [s EXCEPT !.pend = {Slot(e, r, role, ~CurK(s))}]

(* Entry of steady(): the handshake keys become `cur', the rest is fresh.  *)
EnterSteady(s, x) ==
    [s EXCEPT !.phase = "steady", !.hs = {}, !.resp = {}, !.cur = {x},
              !.pend = {}, !.prev = {}, !.pendSelf = FALSE, !.init = {},
              !.cache = {}, !.dampened = FALSE, !.lastRx = "auth"]

(* session() returns: every local of handshake() and steady() is gone.     *)
EndSession(s) ==
    [s EXCEPT !.phase = "idle", !.hs = {}, !.resp = {}, !.cur = {},
              !.pend = {}, !.prev = {}, !.pendSelf = FALSE, !.init = {},
              !.cache = {}, !.dampened = FALSE, !.lastRx = "auth"]

(* send_heartbeat, send_link_message, send_session_datagram and            *)
(* send_disconnect: seal under `cur' with its next counter.                *)
Transmit(s, kind) ==
    [s EXCEPT !.cur = {[x EXCEPT !.ctr = @ + 1] : x \in s.cur},
              !.sent = @ \cup {Data(x, kind) : x \in s.cur}]

CanTransmit(s) == \A x \in s.cur : x.ctr < MaxCtr

(* The sends a step may make because a timer was due or the dispatcher     *)
(* answered: none or one (several are several steps).                      *)
MaybeTransmit(s) ==
    {s} \cup (IF CanTransmit(s) THEN {Transmit(s, "app")} ELSE {})

Become(n, s) == node' = [node EXCEPT ![n] = s]


-----------------------------------------------------------------------------
(* run() and handshake_ik() / handshake_xx().                              *)

(* run() holds the node between sessions: policy backoff or rejection, and *)
(* wait_ready().                                                           *)
Wait(n) ==
    /\ node[n].phase = "idle"
    /\ UNCHANGED node

(* session() up to the first receive of handshake().                       *)
StartSession(n) ==
    LET s == node[n]
        e == Fresh(s, n)
    IN  /\ s.phase = "idle"
        /\ CanDraw(s)
        /\ Become(n, [s EXCEPT !.phase = "handshake",
                               !.epoch = @ + 1,
                               !.hs = {[eph |-> e, resends |-> 0]},
                               !.next = @ + 1,
                               !.sent = IF n \in PeerSentFirst THEN @
                                        ELSE @ \cup {Msg1(e)}])

(* Msg2 in handshake(): the index is not compared, so a msg2 that answers  *)
(* another msg1 fails the Noise read and with it the whole handshake.      *)
HandshakeMsg2(n, f) ==
    LET s == node[n]
    IN  /\ s.phase = "handshake"
        /\ f.type = "msg2"
        /\ \E h \in s.hs :
             \/ /\ f.e1 # h.eph
                /\ Become(n, EndSession(s))
             \/ /\ f.e1 = h.eph
                /\ LET up == EnterSteady(s, Slot(f.e1, f.e2, "init", FALSE))
                   IN  Become(n, IF Pattern = "IK" THEN up
                                 ELSE [up EXCEPT !.sent = @ \cup
                                     {Msg3(f.e1, f.e2, TRUE)}])

(* Who answers a msg1 that crosses its own: everyone but the lower end.    *)
AnswersMsg1(n) == n \in PeerSentFirst \/ n # LowNode

(* Msg1 in handshake(): the lower end keeps its own msg1 in play.          *)
HandshakeMsg1(n, f) ==
    LET s == node[n]
        r == Fresh(s, n)
        answered == [s EXCEPT !.next = @ + 1,
                              !.sent = @ \cup
                                {Msg2(f.e1, r, Pattern = "XX")}]
    IN  /\ s.phase = "handshake"
        /\ f.type = "msg1"
        /\ \/ /\ ~AnswersMsg1(n)
              /\ Become(n, [s EXCEPT !.hs = {[h EXCEPT !.resends = 0] : h \in @}])
           \/ /\ AnswersMsg1(n)
              /\ CanDraw(s)
              /\ IF Pattern = "IK"
                 THEN Become(n, EnterSteady(answered, Slot(f.e1, r, "resp", FALSE)))
                 ELSE Become(n, [answered EXCEPT
                                   !.phase = "awaitMsg3",
                                   !.hs = {[h EXCEPT !.resends = 0] : h \in @},
                                   !.resp = {[e1 |-> f.e1, e2 |-> r]}])

(* Any other frame in handshake() only resets the resend counter.          *)
HandshakeOther(n, f) ==
    LET s == node[n]
    IN  /\ s.phase = "handshake"
        /\ f.type \notin {"msg1", "msg2"}
        /\ Become(n, [s EXCEPT !.hs = {[h EXCEPT !.resends = 0] : h \in @}])

(* Msg3 for the XX responder: one that does not continue the msg2 we sent  *)
(* fails the handshake; every other frame is ignored.                      *)
HandshakeMsg3(n, f) ==
    LET s == node[n]
    IN  /\ s.phase = "awaitMsg3"
        /\ f.type = "msg3"
        /\ \E r \in s.resp :
             \/ /\ <<f.e1, f.e2>> = <<r.e1, r.e2>>
                /\ Become(n, EnterSteady(s, Slot(f.e1, f.e2, "resp", FALSE)))
             \/ /\ <<f.e1, f.e2>> # <<r.e1, r.e2>>
                /\ Become(n, EndSession(s))

(* recv_frame timed out: resend msg1 (or, awaiting msg3, msg2) until the   *)
(* ladder is exhausted.                                                    *)
HandshakeTimeout(n) ==
    LET s == node[n]
    IN  /\ s.phase \in {"handshake", "awaitMsg3"}
        /\ \E h \in s.hs :
             \/ /\ h.resends + 1 > MaxResends
                /\ Become(n, EndSession(s))
             \/ /\ h.resends + 1 <= MaxResends
                /\ Become(n, [s EXCEPT !.hs = {[h EXCEPT !.resends = @ + 1]}])

-----------------------------------------------------------------------------
(* steady(): receive branch.                                               *)

Steady(n) == node[n].phase = "steady"
(* A rekey msg1.  The cached one draws the cached msg2 again; another one  *)
(* is answered afresh: IK arms `pend' at once, XX waits for msg3.          *)
RekeyMsg1(n, f) ==
    LET s == node[n]
        r == Fresh(s, n)
        isDup == \E c \in s.cache : c.e1 = f.e1
        heard == [s EXCEPT !.dampened = TRUE, !.lastRx = "auth"]
        answered == [heard EXCEPT !.next = @ + 1,
                                  !.sent = @ \cup {Msg2(f.e1, r, FALSE)},
                                  !.cache = {[e1 |-> f.e1, e2 |-> r]}]
    IN  /\ Steady(n)
        /\ f.type = "msg1"
        /\ \/ /\ isDup
              /\ \E t \in MaybeTransmit(heard) : Become(n, t)
           \/ /\ ~isDup
              /\ CanDraw(s)
              /\ LET armed ==
                       IF Pattern = "IK"
                       THEN ArmPend(answered, f.e1, r, "resp")
                       ELSE [answered EXCEPT
                               !.resp = {[e1 |-> f.e1, e2 |-> r]}]
                 IN  \E t \in MaybeTransmit(armed) : Become(n, t)

(* rekey_init.take(): a completed or failed rekey is over.  The slip leaves *)
(* it in place.                                                            *)
TakeInitKeeps(s) == s
TakeInit(s) == [s EXCEPT !.init = {}]

(* Msg2 while a rekey of ours is in flight.  A foreign one is ignored and  *)
(* one that carries a negotiation payload fails the Noise read, but both   *)
(* count as a sign of life.  XX completes by sending msg3; when that send  *)
(* fails the rekey is abandoned.                                           *)
RekeyMsg2(n, f) ==
    LET s == node[n]
        over(rx) == [TakeInit(s) EXCEPT !.lastRx = rx]
        armed == [ArmPend(over("auth"), f.e1, f.e2, "init") EXCEPT
                    !.pendSelf = TRUE,
                    !.sent = IF Pattern = "IK" THEN @
                             ELSE @ \cup {Msg3(f.e1, f.e2, FALSE)}]
    IN  /\ Steady(n)
        /\ f.type = "msg2"
        /\ \E i \in s.init :
             \/ /\ f.e1 # i.eph
                /\ \E t \in MaybeTransmit([s EXCEPT !.lastRx = "unauth"]) :
                     Become(n, t)
             \/ /\ f.e1 = i.eph /\ ~f.neg
                /\ \E t \in MaybeTransmit(armed) : Become(n, t)
             \/ /\ f.e1 = i.eph /\ f.neg
                /\ \E t \in MaybeTransmit(over("unauth")) : Become(n, t)
             \/ /\ f.e1 = i.eph /\ ~f.neg
                /\ Pattern = "XX"
                /\ \E t \in MaybeTransmit(over("auth")) : Become(n, t)

(* Msg3 while an XX rekey answer of ours waits for it.  The answer is      *)
(* consumed whether or not the msg3 completes it.                          *)
RekeyMsg3(n, f) ==
    LET s == node[n]
    IN  /\ Steady(n)
        /\ Pattern = "XX"
        /\ f.type = "msg3"
        /\ \E r \in s.resp :
             LET taken == [s EXCEPT !.resp = {}, !.lastRx = "unauth"]
                 armed == ArmPend([s EXCEPT !.resp = {}, !.lastRx = "auth"],
                                  f.e1, f.e2, "resp")
                 reads == <<f.e1, f.e2>> = <<r.e1, r.e2>> /\ ~f.neg
             IN  \/ /\ reads
                    /\ \E t \in MaybeTransmit(armed) : Become(n, t)
                 \/ /\ ~reads
                    /\ \E t \in MaybeTransmit(taken) : Become(n, t)

(* decrypt_established_frame: the replay window is consulted before the    *)
(* AEAD open (see AntiReplay) and marked after it.                         *)
Acceptable(seen, c) == c \notin seen /\ \A d \in seen : d < c + Window

Opens(slots, f) ==
    \E x \in slots : /\ f.ep = x.ep
                     /\ f.role # x.role
                     /\ Acceptable(x.seen, f.ctr)

Mark(slots, f) == {[x EXCEPT !.seen = @ \cup {f.ctr}] : x \in slots}

(* The trial-decrypt cascade: `pend' is tried first when the K-bit differs *)
(* from ours, else `cur'; `prev' comes last.                               *)
PendFirst(s, f) == s.pend # {} /\ f.k # CurK(s)
FromCur(s, f) == Opens(s.cur, f) /\ ~(PendFirst(s, f) /\ Opens(s.pend, f))
FromPend(s, f) == Opens(s.pend, f) /\ (PendFirst(s, f) \/ ~Opens(s.cur, f))
FromPrev(s, f) == Opens(s.prev, f) /\ ~Opens(s.cur, f) /\ ~Opens(s.pend, f)

(* A plausible slip in the cutover on proof: the promoted slot forgets the *)
(* counter of the frame that proved it.                                    *)
AcceptedForgetful(s, f) ==
    IF FromCur(s, f) THEN {[s EXCEPT !.cur = Mark(@, f)]}
    ELSE IF FromPend(s, f)
    THEN {[s EXCEPT !.prev = s.cur, !.cur = s.pend, !.pend = {}]}
    ELSE IF FromPrev(s, f) THEN {[s EXCEPT !.prev = Mark(@, f)]}
    ELSE {}

(* The state after the cascade accepted f (empty when no slot opens it).   *)
(* Opening under `pend' is the peer's cutover proof: pend becomes cur and  *)
(* cur becomes prev.  pend_self is left as it is.                          *)
Accepted(s, f) ==
    IF FromCur(s, f) THEN {[s EXCEPT !.cur = Mark(@, f)]}
    ELSE IF FromPend(s, f)
    THEN {[s EXCEPT !.prev = s.cur, !.cur = Mark(s.pend, f), !.pend = {}]}
    ELSE IF FromPrev(s, f) THEN {[s EXCEPT !.prev = Mark(@, f)]}
    ELSE {}

(* An established frame that opens.  A peer disconnect ends the session;   *)
(* otherwise the dispatcher may answer, or the handler may ask to leave.   *)
Established(n, f) ==
    LET s == node[n]
    IN  /\ Steady(n)
        /\ f.type = "data"
        /\ \E a \in Accepted(s, f) :
             LET b == [a EXCEPT !.lastRx = "auth", !.got = @ \cup {f}]
             IN  \/ /\ f.kind = "disconnect"
                    /\ Become(n, EndSession(b))
                 \/ /\ f.kind # "disconnect"
                    /\ \E t \in MaybeTransmit(b) : Become(n, t)
                 \/ /\ f.kind # "disconnect"
                    /\ Become(n, EndSession(Transmit(b, "disconnect")))

-----------------------------------------------------------------------------
(* steady(): timer branch, in the order of the code.                       *)

(* A plausible slip: every pending epoch is promoted by the timer.         *)
SelfCutoverAny(s) ==
    IF s.pend # {}
    THEN [s EXCEPT !.prev = s.cur, !.cur = s.pend, !.pend = {},
                   !.pendSelf = FALSE]
    ELSE s

(* The cutover of an epoch we initiated.                                   *)
SelfCutover(s) ==
    IF s.pendSelf /\ s.pend # {}
    THEN [s EXCEPT !.prev = s.cur, !.cur = s.pend, !.pend = {},
                   !.pendSelf = FALSE]
    ELSE s

(* The rekey trigger.  A cutover in the same tick has just restarted the   *)
(* age and the counter it tests, so it cannot fire then.  An initiate_rekey *)
(* whose send fails leaves only a drawn ephemeral behind, a stutter here.  *)
MayRekey(s, n) ==
    /\ n \in Rekeyers
    /\ s.init = {}
    /\ s.pend = {}
    /\ ~s.dampened
    /\ CanDraw(s)

Initiate(s, n) ==
    [s EXCEPT !.init = {[eph |-> Fresh(s, n), resends |-> 0]},
              !.next = @ + 1,
              !.sent = @ \cup {Msg1(Fresh(s, n))}]

(* A plausible slip: the ladder never counts its resends.                  *)
LadderUncounted(s) == s

(* The resend ladder: the same msg1 again, or the cycle is abandoned.      *)
Ladder(s) ==
    [s EXCEPT !.init = {[i EXCEPT !.resends = @ + 1] :
                          i \in {j \in s.init : j.resends < MaxResends}}]

Drain(s) == [s EXCEPT !.prev = {}]

(* One pass of the timer branch with the deadlines that had passed.        *)
Tick(n, rekeyDue, resendDue, drainDue) ==
    LET s == node[n]
        s1 == SelfCutover(s)
        s2 == IF rekeyDue THEN Initiate(s1, n) ELSE s1
        s3 == IF resendDue THEN Ladder(s2) ELSE s2
        s4 == IF drainDue THEN Drain(s3) ELSE s3
    IN  /\ Steady(n)
        /\ rekeyDue => s1 = s /\ MayRekey(s, n)
        /\ resendDue => s.init # {}
        /\ drainDue => s1 = s /\ s.prev # {}
        /\ \E t \in MaybeTransmit(s4) : Become(n, t)

TimerFires(n) == \E a, b, c \in BOOLEAN : Tick(n, a, b, c)

(* REKEY_DAMPENING_SECS have passed since the peer's last rekey msg1.      *)
DampeningEnds(n) ==
    /\ Steady(n)
    /\ node[n].dampened
    /\ Become(n, [node[n] EXCEPT !.dampened = FALSE])

(* link_dead_timeout_secs have passed since last_rx.                       *)
Silence(n) ==
    /\ Steady(n)
    /\ node[n].lastRx # "expired"
    /\ Become(n, [node[n] EXCEPT !.lastRx = "expired"])

(* steady() gives up: link death, bad-frame limit, silent peer or a        *)
(* transport error, each with a disconnect to the peer.                    *)
LinkDead(n) ==
    /\ Steady(n)
    /\ node[n].lastRx = "expired"
    /\ Become(n, EndSession(Transmit(node[n], "disconnect")))

PolicyOrTransportError(n) ==
    /\ Steady(n)
    /\ Become(n, EndSession(Transmit(node[n], "disconnect")))

HandshakeError(n) ==
    /\ node[n].phase \in {"handshake", "awaitMsg3"}
    /\ Become(n, EndSession(node[n]))

-----------------------------------------------------------------------------
Init == node = [n \in Node |-> NewNode]

Receive(n, f) ==
    \/ HandshakeMsg1(n, f)
    \/ HandshakeMsg2(n, f)
    \/ HandshakeMsg3(n, f)
    \/ HandshakeOther(n, f)
    \/ RekeyMsg1(n, f)
    \/ RekeyMsg2(n, f)
    \/ RekeyMsg3(n, f)
    \/ Established(n, f)

Local(n) ==
    \/ Wait(n)
    \/ StartSession(n)
    \/ HandshakeTimeout(n)
    \/ HandshakeError(n)
    \/ TimerFires(n)
    \/ DampeningEnds(n)
    \/ Silence(n)
    \/ LinkDead(n)
    \/ PolicyOrTransportError(n)

Next ==
    \E n \in Node :
       \/ Local(n)
       \/ \E m \in Node \ {n} : \E f \in node[m].sent : Receive(n, f)

Spec == Init /\ [][Next]_node

-----------------------------------------------------------------------------
(* Safety.                                                                 *)

(* A (key, counter) pair is never used twice: the counter that the next    *)
(* send under any live slot would take has not been used by this end with  *)
(* that key, across rekeys, resent handshake messages and reconnects.      *)
(* (send_* take slot.send_ctr as the AEAD nonce.)                          *)
NonceFresh ==
    \A n \in Node : \A x \in Slots(node[n]) :
      \A f \in node[n].sent :
        f.type = "data" /\ f.ep = x.ep /\ f.role = x.role => f.ctr < x.ctr

(* An established frame that was accepted once opens under no slot the     *)
(* node holds now, nor under any slot of a later session: the per-epoch    *)
(* replay windows lose nothing when slots move from pend to cur to prev.   *)
NoReplay ==
    \A n \in Node : \A f \in node[n].got : ~Opens(Slots(node[n]), f)

(* At most one slot of the cascade can open a frame, so the order in which *)
(* it tries them, and the K-bit that chooses it, never changes the result; *)
(* and the K-bit of a pending or draining epoch always differs from cur's. *)
OneSlotPerEpoch ==
    \A n \in Node :
      LET s == node[n]
      IN  /\ \A x, y \in Slots(s) : x.ep = y.ep => x = y
          /\ s.cur \cap s.pend = {} /\ s.pend \cap s.prev = {}
          /\ s.cur \cap s.prev = {}
          /\ \A x \in s.pend \cup s.prev : x.k = ~CurK(s)

(* Both ends are in their first session and no rekey is under way.         *)
Settled ==
    \A n \in Node : LET s == node[n]
                    IN  /\ Steady(n)
                        /\ s.epoch = 1
                        /\ s.init = {} /\ s.pend = {} /\ s.resp = {}

(* Once every rekey has run its course both ends seal under the same       *)
(* epoch.  REKEY_DAMPENING_SECS is there for this: "dual-init protection". *)
SettledAgree ==
    Settled => \A n, m \in Node :
                 \A x \in node[n].cur, y \in node[m].cur : x.ep = y.ep

(* An epoch the peer initiated becomes cur only after the peer has sealed  *)
(* a frame under it ("responder-armed pend waits for proof").              *)
ProofBeforeCutover ==
    [][\A n \in Node : Steady(n) /\ Steady(n)' =>
         \A y \in node'[n].cur :
           y.role = "resp" /\ (\A x \in node[n].cur : x.ep # y.ep) =>
             \E m \in Node : \E f \in node[m].sent :
               f.type = "data" /\ f.ep = y.ep /\ f.role = "init"]_node

-----------------------------------------------------------------------------
(* Liveness.  steady() wakes at every deadline, so a due resend is made, a *)
(* due rekey trigger is tested and the dampening window passes; nothing is *)
(* assumed of the transport.                                               *)

Fairness ==
    \A n \in Node :
       /\ WF_node(TimerFires(n))
       /\ WF_node(\E a, c \in BOOLEAN : Tick(n, a, TRUE, c))
       /\ WF_node(\E b, c \in BOOLEAN : Tick(n, TRUE, b, c))
       /\ WF_node(DampeningEnds(n))

FairSpec == Spec /\ Fairness

(* A rekey we start always ends: completed, abandoned by the resend        *)
(* ladder, or gone with the session.                                       *)
RekeyCycleEnds ==
    \A n \in Node : (node[n].init # {}) ~> (node[n].init = {})
=============================================================================
