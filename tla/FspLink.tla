------------------------------ MODULE FspLink -------------------------------
(***************************************************************************)
(* The FSP session layer: FspDualHandler of microfips-protocol, with the   *)
(* responder (FspSession) and the initiator (FspInitiatorSession) of       *)
(* microfips-core, on two nodes whose datagrams a mesh forwards.           *)
(*                                                                         *)
(* A handler is created once per boot with one initiator ephemeral and one *)
(* responder ephemeral.  The session keys are a function of the two, so a  *)
(* session is named by that pair.  A handshake or data message opens       *)
(* exactly when it was made for the pair (for the SessionAck: the          *)
(* initiator ephemeral) of the state that reads it.                        *)
(*                                                                         *)
(* The handler runs inside the link's session loop: HandshakeOk,           *)
(* Disconnected and Error are the events it sees of the link, and          *)
(* datagrams and ticks reach it only while the link is steady.  A timer is *)
(* armed or not; when armed it fires at some later moment.                 *)
(* send_counter, fsp_epoch (a constant of the handler, checked by nobody)  *)
(* and the plaintexts are left out: no property here tells them apart.     *)
(***************************************************************************)
EXTENDS Naturals, SequencesExt

CONSTANTS
    Node,        \* the two nodes; each is the target of the other
    Dual,        \* nodes built with new_dual, the others with new_responder
    TestPing,    \* nodes with test_ping set
    AppResults,  \* what on_fsp_message may return
    Losable,     \* message types the mesh may lose
    Reorder,     \* whether the mesh may deliver out of order
    MaxLoss,     \* bound: messages lost
    MaxFlight,   \* bound: messages in flight per initiator
    MaxBoot,     \* bound: restarts of a node
    MaxLink      \* bound: link sessions a node attempts per boot

ASSUME FspAssumption ==
    /\ \E a, b \in Node : a # b /\ Node = {a, b}
    /\ Dual \subseteq Node
    /\ TestPing \subseteq Dual
    /\ AppResults \subseteq {"None", "Reply", "Disconnect"}
    /\ Losable \subseteq {"setup", "ack", "msg3", "data"}
    /\ Reorder \in BOOLEAN
    /\ MaxLoss \in Nat /\ MaxFlight \in Nat
    /\ MaxBoot \in Nat /\ MaxLink \in Nat \ {0}

VARIABLES
    node,   \* node[n]: handler and link state of a node
    chan,   \* chan[n]: datagrams on their way to n, in sending order
    lost    \* number of messages lost so far

vars == <<node, chan, lost>>

-----------------------------------------------------------------------------
Eph == Node \X Nat
Peer(n) == CHOOSE p \in Node : p # n
Option(S) == {o \in SUBSET S : \A x, y \in o : x = y}

Setup(e) == [type |-> "setup", ei |-> e]
Ack(e, r) == [type |-> "ack", ei |-> e, er |-> r]
Msg3(e, r) == [type |-> "msg3", ei |-> e, er |-> r]
Data(e, r, role) == [type |-> "data", ei |-> e, er |-> r, role |-> role]

Message == [type : {"setup"}, ei : Eph]
           \cup [type : {"ack", "msg3"}, ei : Eph, er : Eph]
           \cup [type : {"data"}, ei : Eph, er : Eph,
                 role : {"init", "resp"}]

(* FspSession: `ei' is the ephemeral of the initiator it talks to.         *)
Responder == [state : {"Idle", "AwaitingMsg3", "Established"},
              ei : Option(Eph)]

(* FspInitiatorSession: `er' is the responder ephemeral learned from the   *)
(* ack; `spoiled' says that a SessionAck that did not open was mixed into  *)
(* the Noise state.                                                        *)
Initiator == [state : {"Idle", "AwaitingAck", "Established"},
              eph : Eph, er : Option(Eph), spoiled : BOOLEAN]

NodeState ==
    [boot : Nat,              \* restarts so far; names the ephemerals
     up : BOOLEAN,            \* the link is in steady()
     link : Nat,              \* Node::epoch, advanced by every session()
     resp : Responder,        \* fsp_session
     ini : Option(Initiator), \* initiator
     timer : BOOLEAN,         \* fsp_timer is Some
     lastSetup : Option(Eph), \* last_setup
     done : SUBSET (Eph \X Eph)]  \* history: sessions initiated

TypeOK ==
    /\ node \in [Node -> NodeState]
    /\ chan \in [Node -> Seq(Message)]
    /\ lost \in 0..MaxLoss

NoSession == [state |-> "Idle", ei |-> {}]

(* new_dual and new_responder.                                             *)
NewHandler(n, boot, done) ==
    [boot |-> boot, up |-> FALSE, link |-> 0, resp |-> NoSession,
     ini |-> IF n \in Dual
             THEN {[state |-> "Idle", eph |-> <<n, boot>>, er |-> {},
                    spoiled |-> FALSE]}
             ELSE {},
     timer |-> FALSE, lastSetup |-> {}, done |-> done]

Init ==
    /\ node = [n \in Node |-> NewHandler(n, 0, {})]
    /\ chan = [n \in Node |-> <<>>]
    /\ lost = 0

-----------------------------------------------------------------------------
(* Sending and receiving.  A reply replaces the message that asked for it, *)
(* so only the timer of n adds to what is in flight for its initiator.     *)

Flight(n) ==
    Len(SelectSeq(chan[n] \o chan[Peer(n)], LAMBDA m : m.ei[1] = n))
Deliverable(n) == IF Reorder THEN DOMAIN chan[n] ELSE {1} \cap DOMAIN chan[n]

Become(n, s) == node' = [node EXCEPT ![n] = s]
Send(n, m) == chan' = [chan EXCEPT ![Peer(n)] = Append(@, m)]
Consume(n, k) == chan' = [chan EXCEPT ![n] = RemoveAt(@, k)]
Answer(n, k, m) ==
    chan' = [chan EXCEPT ![n] = RemoveAt(@, k), ![Peer(n)] = Append(@, m)]

(* The node is steady and its k-th datagram is of this type.               *)
Receives(n, k, type) ==
    /\ node[n].up
    /\ k \in Deliverable(n)
    /\ chan[n][k].type = type

-----------------------------------------------------------------------------
(* Link events, on_event_default.                                          *)

(* Disconnected and Error: the responder session is left as it is.         *)
DropInitiator(s) == [s EXCEPT !.up = FALSE, !.ini = {}, !.timer = FALSE]

(* session() completes the link handshake: HandshakeOk.                    *)
LinkUp(n) ==
    LET s == node[n] IN
    /\ ~s.up /\ s.link < MaxLink
    /\ Become(n, [s EXCEPT !.up = TRUE, !.link = @ + 1, !.resp = NoSession,
                           !.timer = @ \/ s.ini # {}])
    /\ UNCHANGED <<chan, lost>>

(* session() fails in the link handshake: Error.                           *)
LinkFail(n) ==
    LET s == node[n] IN
    /\ ~s.up /\ s.link + 1 < MaxLink
    /\ Become(n, DropInitiator([s EXCEPT !.link = @ + 1]))
    /\ UNCHANGED <<chan, lost>>

(* steady() returns: Disconnected.                                         *)
LinkDown(n) ==
    /\ node[n].up /\ node[n].link < MaxLink
    /\ Become(n, DropInitiator(node[n]))
    /\ UNCHANGED <<chan, lost>>

(* The node restarts; its main builds a new handler from fresh randomness. *)
Restart(n) ==
    /\ node[n].boot < MaxBoot
    /\ Become(n, NewHandler(n, node[n].boot + 1, node[n].done))
    /\ UNCHANGED <<chan, lost>>

-----------------------------------------------------------------------------
(* The responder: handle_responder over FspSession.                        *)

Me(n) == <<n, node[n].boot>>

(* handle_setup.  In every state but Idle it reports InvalidState, and     *)
(* handle_responder resets the session and calls it again.                 *)
HandleSetup(s, e) ==
    [s EXCEPT !.resp = [state |-> "AwaitingMsg3", ei |-> {e}]]

ReceiveSetup(n, k) ==
    LET m == chan[n][k] IN
    /\ Receives(n, k, "setup")
    /\ Become(n, HandleSetup(node[n], m.ei))
    /\ Answer(n, k, Ack(m.ei, Me(n)))
    /\ UNCHANGED lost

(* A plausible slip: msg3 is taken for granted once one is awaited.        *)
HandleMsg3Unread(s, me, m) ==
    IF s.resp.state = "AwaitingMsg3"
    THEN [s EXCEPT !.resp.state = "Established"]
    ELSE s

(* handle_msg3: a msg3 made for another pair fails to open before it has   *)
(* touched the Noise state.                                                *)
HandleMsg3(s, me, m) ==
    IF s.resp = [state |-> "AwaitingMsg3", ei |-> {m.ei}] /\ m.er = me
    THEN [s EXCEPT !.resp.state = "Established"]
    ELSE s

ReceiveMsg3(n, k) ==
    /\ Receives(n, k, "msg3")
    /\ Become(n, HandleMsg3(node[n], Me(n), chan[n][k]))
    /\ Consume(n, k)
    /\ UNCHANGED lost

(* Data that opens under the responder session goes to the application.    *)
OpensAtResponder(n, m) ==
    /\ node[n].resp = [state |-> "Established", ei |-> {m.ei}]
    /\ m.er = Me(n) /\ m.role = "init"

AppReplies(n, k) ==
    LET m == chan[n][k] IN
    /\ Receives(n, k, "data") /\ OpensAtResponder(n, m)
    /\ "Reply" \in AppResults
    /\ Answer(n, k, Data(m.ei, m.er, "resp"))
    /\ UNCHANGED <<node, lost>>

AppDisconnects(n, k) ==
    /\ Receives(n, k, "data") /\ OpensAtResponder(n, chan[n][k])
    /\ "Disconnect" \in AppResults
    /\ Become(n, DropInitiator(node[n]))
    /\ Consume(n, k)
    /\ UNCHANGED lost

-----------------------------------------------------------------------------
(* The initiator: handle_initiator and on_tick over FspInitiatorSession.   *)
(* AwaitingEstablished lasts only between handle_ack and build_msg3 of one *)
(* call and is not a state of the model.                                   *)

OpensAtInitiator(n, m) ==
    /\ m.role = "resp"
    /\ \E i \in node[n].ini :
          i.state = "Established" /\ i.eph = m.ei /\ i.er = {m.er}

(* Data nobody acts on: it opens nowhere, or the application returns None, *)
(* or the initiator opens it and it is not a PONG, or test_ping is off.    *)
Quiet(n, m) == OpensAtResponder(n, m) => "None" \in AppResults

ReceiveQuietData(n, k) ==
    /\ Receives(n, k, "data") /\ Quiet(n, chan[n][k])
    /\ Consume(n, k)
    /\ UNCHANGED <<node, lost>>

(* With test_ping a PONG ends the session.                                 *)
ReceivePong(n, k) ==
    /\ Receives(n, k, "data") /\ n \in TestPing
    /\ OpensAtInitiator(n, chan[n][k])
    /\ Become(n, DropInitiator(node[n]))
    /\ Consume(n, k)
    /\ UNCHANGED lost

(* handle_ack, with read_message2: the message is mixed into the Noise     *)
(* state before it is opened, so one that does not open leaves a state no  *)
(* later ack opens under.                                                  *)
HandleAck(i, m) ==
    IF i.state # "AwaitingAck" THEN i
    ELSE IF ~i.spoiled /\ m.ei = i.eph
         THEN [i EXCEPT !.state = "Established", !.er = {m.er}]
         ELSE [i EXCEPT !.spoiled = TRUE]

(* An ack that opens is answered with msg3, and the timer runs again.      *)
AcceptAck(n, k) ==
    LET s == node[n]
        m == chan[n][k]
    IN
    /\ Receives(n, k, "ack")
    /\ \E i \in s.ini :
          /\ HandleAck(i, m).state = "Established" /\ i # HandleAck(i, m)
          /\ Become(n, [s EXCEPT !.ini = {HandleAck(i, m)}, !.timer = TRUE,
                                 !.done = @ \cup {<<i.eph, m.er>>}])
          /\ Answer(n, k, Msg3(i.eph, m.er))
    /\ UNCHANGED lost

(* Any other ack is swallowed.                                             *)
RejectAck(n, k) ==
    LET s == node[n]
        m == chan[n][k]
    IN
    /\ Receives(n, k, "ack")
    /\ \A i \in s.ini :
          HandleAck(i, m).state # "Established" \/ i = HandleAck(i, m)
    /\ Become(n, [s EXCEPT !.ini = {HandleAck(i, m) : i \in @}])
    /\ Consume(n, k)
    /\ UNCHANGED lost

(* on_tick runs: the link is steady and the timer was armed.  Every branch *)
(* arms it again.                                                          *)
Ticks(n, state) ==
    /\ node[n].up /\ node[n].timer
    /\ Flight(n) < MaxFlight
    /\ \E i \in node[n].ini : i.state = state

TickIdle(n) ==
    LET s == node[n] IN
    /\ Ticks(n, "Idle")
    /\ \E i \in s.ini :
          /\ Become(n, [s EXCEPT !.ini = {[i EXCEPT !.state = "AwaitingAck"]},
                                 !.lastSetup = {i.eph}])
          /\ Send(n, Setup(i.eph))
    /\ UNCHANGED lost

(* Plausible slips: the retry the code used to have, which reset the       *)
(* session and could not rebuild it, and a retry with a new ephemeral.     *)
TickAwaitingAckResets(n) ==
    /\ Ticks(n, "AwaitingAck")
    /\ Become(n, [node[n] EXCEPT !.timer = FALSE])
    /\ UNCHANGED <<chan, lost>>
TickAwaitingAckRedraws(n) ==
    LET e == <<n, node[n].boot + 1>> IN
    /\ Ticks(n, "AwaitingAck")
    /\ Become(n, [node[n] EXCEPT !.ini = {[i EXCEPT !.eph = e] : i \in @}])
    /\ Send(n, Setup(e))
    /\ UNCHANGED lost

(* The retry sends the cached setup again, byte for byte.                  *)
TickAwaitingAck(n) ==
    /\ Ticks(n, "AwaitingAck")
    /\ \E e \in node[n].lastSetup : Send(n, Setup(e))
    /\ UNCHANGED <<node, lost>>

(* A plausible slip: the retry goes on after the session is up.            *)
TickEstablishedRetries(n) ==
    /\ Ticks(n, "Established")
    /\ \E e \in node[n].lastSetup : Send(n, Setup(e))
    /\ UNCHANGED <<node, lost>>

(* send_ping.                                                              *)
TickEstablished(n) ==
    /\ Ticks(n, "Established")
    /\ \E i \in node[n].ini :
          \E r \in i.er : Send(n, Data(i.eph, r, "init"))
    /\ UNCHANGED <<node, lost>>

-----------------------------------------------------------------------------
(* The mesh.                                                               *)

(* A datagram for a node without a link session goes nowhere.              *)
Undeliverable(n, k) ==
    /\ ~node[n].up
    /\ k \in Deliverable(n)
    /\ Consume(n, k)
    /\ UNCHANGED <<node, lost>>

Lose(n, k) ==
    /\ lost < MaxLoss
    /\ k \in DOMAIN chan[n] /\ chan[n][k].type \in Losable
    /\ Consume(n, k)
    /\ lost' = lost + 1
    /\ UNCHANGED node

Tick(n) == TickIdle(n) \/ TickAwaitingAck(n) \/ TickEstablished(n)

Deliver(n, k) ==
    \/ ReceiveSetup(n, k) \/ ReceiveMsg3(n, k)
    \/ AcceptAck(n, k) \/ RejectAck(n, k)
    \/ AppReplies(n, k) \/ AppDisconnects(n, k)
    \/ ReceiveQuietData(n, k) \/ ReceivePong(n, k)
    \/ Undeliverable(n, k)

Next ==
    \E n \in Node :
       \/ LinkUp(n) \/ LinkFail(n) \/ LinkDown(n) \/ Restart(n)
       \/ Tick(n)
       \/ \E k \in DOMAIN chan[n] : Deliver(n, k) \/ Lose(n, k)

Spec == Init /\ [][Next]_vars

(* run() reconnects, a timer that is armed fires, and what is in flight    *)
(* arrives unless it is lost.                                              *)
Fairness ==
    \A n \in Node :
       /\ WF_vars(LinkUp(n))
       /\ WF_vars(Tick(n))
       /\ WF_vars(\E k \in DOMAIN chan[n] : Deliver(n, k))

FairSpec == Spec /\ Fairness

-----------------------------------------------------------------------------
(* Properties.                                                             *)

(* A responder is Established only in a session its peer completed: the    *)
(* initiator named by the session built msg3 for this very responder       *)
(* (handle_msg3 after build_msg3), across restarts, link drops, resent     *)
(* setups and late handshake messages of earlier boots.                    *)
ResponderFollowsInitiator ==
    \A n \in Node :
       node[n].resp.state = "Established" =>
          \A e \in node[n].resp.ei : <<e, Me(n)>> \in node[e[1]].done

(* One initiator ephemeral completes at most one session: resent setups    *)
(* draw several acks, from several boots of the responder, and handle_ack  *)
(* takes one of them.                                                      *)
OneSessionPerEphemeral ==
    \A n \in Node : \A x, y \in node[n].done : x[1] = y[1] => x = y

(* On a node that has not restarted, no SessionAck ever spoils the Noise   *)
(* state of the initiator: all the acks it can meet answer its one setup,  *)
(* because the retry of on_tick resends that setup and not a new one.      *)
FirstBootAcksOpen ==
    \A n \in Node : \A i \in node[n].ini : i.spoiled => node[n].boot > 0

Handshakes(n) ==
    SelectSeq(chan[n], LAMBDA m : m.type \in {"setup", "msg3"})

(* In-order delivery without loss of msg3, and links that stay up: when    *)
(* the initiator is Established, the responder is in the same session or   *)
(* will be when the last handshake message on the way to it has arrived,   *)
(* although every resent setup on the way resets it.                       *)
SetupRetryIsHarmless ==
    \A n \in Node : \A i \in node[n].ini :
       i.state = "Established" =>
          LET p == Peer(n)
              h == Handshakes(p)
          IN IF h = <<>>
             THEN node[p].resp = [state |-> "Established", ei |-> {i.eph}]
             ELSE Last(h) = Msg3(i.eph, Me(p))

Joined(n) ==
    \E i \in node[n].ini :
       /\ i.state = "Established" /\ i.er = {Me(Peer(n))}
       /\ node[Peer(n)].resp = [state |-> "Established", ei |-> {i.eph}]

(* Lost setups and acks are made up for by the retry of on_tick: every     *)
(* initiator ends up in a session with its target, and stays there.        *)
SessionsSettle == \A n \in Dual : <>[]Joined(n)

(* What the documentation of new_dual and its test                         *)
(* dual_handler_starts_timer_after_handshake say: a dual-mode handler      *)
(* starts its timer on every HandshakeOk.                                  *)
DualStartsTimer ==
    [][\A n \in Dual : ~node[n].up /\ node'[n].up => node'[n].timer]_vars

=============================================================================
