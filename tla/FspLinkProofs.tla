---------------------------- MODULE FspLinkProofs ---------------------------
(***************************************************************************)
(* Proofs about FspLink, for any bounds, any set of dual-mode nodes and    *)
(* any behaviour of the mesh.  The inductive invariant says of each node   *)
(* that its initiator carries the ephemeral of the current boot and that   *)
(* no session of that ephemeral is complete before it is Established; and  *)
(* of the mesh that every msg3 on its way stands for a completed session.  *)
(***************************************************************************)
EXTENDS FspLink, SequenceTheorems, TLAPS

(* The initiator named by e completed a session with the responder r.      *)
Completed(e, r) == <<e, r>> \in node[e[1]].done

NodeInv(s, n) ==
    /\ s \in NodeState
    /\ \A x \in s.done : x[1][1] = n /\ x[1][2] <= s.boot
    /\ \A x, y \in s.done : x[1] = y[1] => x = y
    /\ \A i \in s.ini :
          /\ i.eph = <<n, s.boot>>
          /\ i.state # "Established" => \A x \in s.done : x[1] # i.eph

MessageInv(m) == m \in Message /\ (m.type = "msg3" => Completed(m.ei, m.er))

FspInv ==
    /\ TypeOK
    /\ \A n \in Node : NodeInv(node[n], n)
    /\ \A n \in Node : \A k \in DOMAIN chan[n] : MessageInv(chan[n][k])
    /\ ResponderFollowsInitiator

-----------------------------------------------------------------------------
(* The channels.                                                           *)

LEMMA PeerIsNode == ASSUME NEW n \in Node PROVE Peer(n) \in Node /\ Peer(n) # n
<1>1. \E p \in Node : p # n
  BY FspAssumption
<1>2. QED
  BY <1>1 DEF Peer

(* Removing an element of a sequence leaves elements of the sequence.      *)
LEMMA RemoveAtElements ==
    ASSUME NEW S, NEW q \in Seq(S), NEW k \in DOMAIN q
    PROVE  /\ RemoveAt(q, k) \in Seq(S)
           /\ \A j \in DOMAIN RemoveAt(q, k) :
                 \E i \in DOMAIN q : RemoveAt(q, k)[j] = q[i]
<1> DEFINE u == SubSeq(q, 1, k - 1)
           v == SubSeq(q, k + 1, Len(q))
<1>1. k \in 1..Len(q) /\ Len(q) \in Nat
  OBVIOUS
<1>2. u \in Seq(S) /\ Len(u) = k - 1 /\ \A i \in 1..(k - 1) : u[i] = q[i]
  BY <1>1
<1>3. v \in Seq(S) /\ Len(v) = Len(q) - k
      /\ \A i \in 1..(Len(q) - k) : v[i] = q[k + i]
  BY <1>1
<1>4. RemoveAt(q, k) = u \o v
  BY DEF RemoveAt
<1> HIDE DEF u, v
<1>5. /\ u \o v \in Seq(S) /\ Len(u \o v) = Len(u) + Len(v)
      /\ \A i \in 1..(Len(u) + Len(v)) :
            (u \o v)[i] = IF i <= Len(u) THEN u[i] ELSE v[i - Len(u)]
  BY <1>2, <1>3, ConcatProperties, Zenon
<1>6. \A j \in 1..(Len(q) - 1) : \E i \in 1..Len(q) : (u \o v)[j] = q[i]
  <2> TAKE j \in 1..(Len(q) - 1)
  <2>1. CASE j <= k - 1
    <3>1. (u \o v)[j] = u[j]
      BY <1>1, <1>2, <1>3, <1>5, <2>1
    <3>2. j \in 1..Len(q) /\ u[j] = q[j]
      BY <1>1, <1>2, <2>1
    <3>3. QED
      BY <3>1, <3>2
  <2>2. CASE j > k - 1
    <3>0. j \in 1..(Len(u) + Len(v)) /\ ~(j <= Len(u))
      BY <1>1, <1>2, <1>3, <2>2
    <3>1. (u \o v)[j] = v[j - Len(u)]
      BY <1>5, <3>0, Zenon
    <3>2. j + 1 \in 1..Len(q) /\ v[j - Len(u)] = q[j + 1]
      <4>1. /\ j - (k - 1) \in 1..(Len(q) - k) /\ k + (j - (k - 1)) = j + 1
            /\ j + 1 \in 1..Len(q)
        BY <1>1, <2>2
      <4>2. v[j - (k - 1)] = q[k + (j - (k - 1))]
        BY <1>3, <4>1, Zenon
      <4>3. QED
        BY <1>2, <4>1, <4>2, Zenon
    <3>3. QED
      BY <3>1, <3>2
  <2>3. j <= k - 1 \/ j > k - 1
    BY <1>1
  <2>4. QED
    BY <2>1, <2>2, <2>3, Zenon
<1>7. Len(u \o v) = Len(q) - 1
  BY <1>1, <1>2, <1>3, <1>5
<1>8. DOMAIN (u \o v) = 1..(Len(q) - 1) /\ DOMAIN q = 1..Len(q)
  BY <1>5, <1>7, LenProperties
<1>9. QED
  BY <1>4, <1>5, <1>6, <1>8, Zenon

(* Every message in the channels after the step was there before or is m.  *)
Brings(m) ==
    /\ chan' \in [Node -> Seq(Message)]
    /\ \A p \in Node : \A j \in DOMAIN chan'[p] :
          \/ \E q \in Node : \E i \in DOMAIN chan[q] : chan'[p][j] = chan[q][i]
          \/ chan'[p][j] = m

LEMMA ConsumeBrings ==
    ASSUME TypeOK, NEW n \in Node, NEW k \in DOMAIN chan[n], Consume(n, k),
           NEW m
    PROVE  Brings(m)
<1>1. chan \in [Node -> Seq(Message)]
  BY DEF TypeOK
<1>2. /\ RemoveAt(chan[n], k) \in Seq(Message)
      /\ \A j \in DOMAIN RemoveAt(chan[n], k) :
            \E i \in DOMAIN chan[n] : RemoveAt(chan[n], k)[j] = chan[n][i]
  BY <1>1, RemoveAtElements
<1>3. chan' = [chan EXCEPT ![n] = RemoveAt(chan[n], k)]
  BY DEF Consume
<1>4. QED
  BY <1>1, <1>2, <1>3 DEF Brings

LEMMA SendBrings ==
    ASSUME TypeOK, NEW n \in Node, NEW m \in Message, Send(n, m)
    PROVE  Brings(m)
<1>1. chan \in [Node -> Seq(Message)] /\ Peer(n) \in Node
  BY PeerIsNode DEF TypeOK
<1>2. chan' = [chan EXCEPT ![Peer(n)] = Append(chan[Peer(n)], m)]
  BY DEF Send
<1>3. QED
  BY <1>1, <1>2 DEF Brings

LEMMA AnswerBrings ==
    ASSUME TypeOK, NEW n \in Node, NEW k \in DOMAIN chan[n],
           NEW m \in Message, Answer(n, k, m)
    PROVE  Brings(m)
<1> DEFINE p == Peer(n)
           r == RemoveAt(chan[n], k)
<1>1. chan \in [Node -> Seq(Message)] /\ p \in Node /\ p # n
  BY PeerIsNode DEF TypeOK
<1>2. /\ r \in Seq(Message)
      /\ \A j \in DOMAIN r : \E i \in DOMAIN chan[n] : r[j] = chan[n][i]
  BY <1>1, RemoveAtElements
<1>3. chan' = [chan EXCEPT ![n] = r, ![p] = Append(chan[p], m)]
  BY <1>1 DEF Answer
<1> HIDE DEF p, r
<1>4. /\ Append(chan[p], m) \in Seq(Message)
      /\ \A j \in DOMAIN Append(chan[p], m) :
            \/ \E i \in DOMAIN chan[p] : Append(chan[p], m)[j] = chan[p][i]
            \/ Append(chan[p], m)[j] = m
  BY <1>1
<1> DEFINE z == Append(chan[p], m)
<1> HIDE DEF z
<1>5. /\ z \in Seq(Message)
      /\ \A j \in DOMAIN z : (\E i \in DOMAIN chan[p] : z[j] = chan[p][i])
                              \/ z[j] = m
  BY <1>4 DEF z
<1>6. chan' = [chan EXCEPT ![n] = r, ![p] = z]
  BY <1>3 DEF z
<1>7. /\ chan' \in [Node -> Seq(Message)]
      /\ chan'[n] = r /\ chan'[p] = z
      /\ \A q \in Node \ {n, p} : chan'[q] = chan[q]
  BY <1>1, <1>2, <1>5, <1>6
<1>8. ASSUME NEW q \in Node, NEW j \in DOMAIN chan'[q]
      PROVE  \/ \E w \in Node : \E i \in DOMAIN chan[w] :
                   chan'[q][j] = chan[w][i]
             \/ chan'[q][j] = m
  <2>1. CASE q = n
    BY <1>1, <1>2, <1>7, <1>8, <2>1, Zenon
  <2>2. CASE q = p
    BY <1>1, <1>5, <1>7, <1>8, <2>2, Zenon
  <2>3. CASE q \in Node \ {n, p}
    BY <1>7, <1>8, <2>3, Zenon
  <2>4. QED
    BY <1>8, <2>1, <2>2, <2>3
<1>9. QED
  BY <1>7, <1>8 DEF Brings

-----------------------------------------------------------------------------
(* One node changes, keeping what it completed; at most one message is     *)
(* new.                                                                    *)
LEMMA StepKeepsInv ==
    ASSUME FspInv, NEW n \in Node, NEW t, NodeInv(t, n),
           node' = [node EXCEPT ![n] = t], node[n].done \subseteq t.done,
           NEW m, Brings(m), lost' \in 0..MaxLoss,
           m.type = "msg3" => <<m.ei, m.er>> \in node'[m.ei[1]].done,
           t.resp.state = "Established" =>
              \A e \in t.resp.ei : <<e, <<n, t.boot>>>> \in node'[e[1]].done
    PROVE  FspInv'
<1>1. node \in [Node -> NodeState] /\ t \in NodeState
  BY DEF FspInv, TypeOK, NodeInv
<1>2. /\ node' \in [Node -> NodeState] /\ node'[n] = t
      /\ \A p \in Node \ {n} : node'[p] = node[p]
  BY <1>1
<1>3. TypeOK'
  BY <1>2 DEF TypeOK, Brings
<1>4. \A p \in Node : NodeInv(node'[p], p)
  BY <1>2, Zenon DEF FspInv
<1>5. \A p \in Node : node[p].done \subseteq node'[p].done
  BY <1>2
<1>6. ASSUME NEW x \in Message, MessageInv(x)
      PROVE  x.type = "msg3" => <<x.ei, x.er>> \in node'[x.ei[1]].done
  <2>1. x.type = "msg3" => x.ei[1] \in Node
    BY DEF Message, Eph
  <2>2. QED
    BY <1>5, <1>6, <2>1 DEF MessageInv, Completed
<1>7. ASSUME NEW p \in Node, NEW j \in DOMAIN chan'[p]
      PROVE  /\ chan'[p][j] \in Message
             /\ chan'[p][j].type = "msg3" =>
                   <<chan'[p][j].ei, chan'[p][j].er>>
                      \in node'[chan'[p][j].ei[1]].done
  <2>1. chan'[p][j] \in Message
    BY <1>7 DEF Brings
  <2>2. CASE chan'[p][j] = m
    BY <2>1, <2>2
  <2>3. ASSUME NEW q \in Node, NEW i \in DOMAIN chan[q],
               chan'[p][j] = chan[q][i]
        PROVE  chan'[p][j].type = "msg3" =>
                  <<chan'[p][j].ei, chan'[p][j].er>>
                     \in node'[chan'[p][j].ei[1]].done
    <3>1. MessageInv(chan[q][i])
      BY DEF FspInv
    <3>2. QED
      BY <1>6, <2>1, <2>3, <3>1
  <2>4. QED
    BY <1>7, <2>1, <2>2, <2>3 DEF Brings
<1>8. \A p \in Node : \A j \in DOMAIN chan'[p] : MessageInv(chan[p][j])'
  BY <1>7 DEF MessageInv, Completed
<1>9. ASSUME NEW p \in Node, node'[p].resp.state = "Established",
             NEW e \in node'[p].resp.ei
      PROVE  <<e, <<p, node'[p].boot>>>> \in node'[e[1]].done
  <2>1. CASE p = n
    BY <1>2, <1>9, <2>1
  <2>2. CASE p # n
    <3>1. node'[p] = node[p]
      BY <1>2, <2>2
    <3>2. <<e, <<p, node[p].boot>>>> \in node[e[1]].done
      BY <1>9, <3>1 DEF FspInv, ResponderFollowsInitiator, Me
    <3>3. e[1] \in Node
      BY <1>1, <1>9, <3>1 DEF NodeState, Responder, Option, Eph
    <3>4. QED
      BY <1>5, <3>1, <3>2, <3>3
  <2>3. QED
    BY <2>1, <2>2
<1>10. ResponderFollowsInitiator'
  BY <1>9 DEF ResponderFollowsInitiator, Me
<1>11. QED
  BY <1>3, <1>4, <1>8, <1>10 DEF FspInv

(* The same when the responder stays as it is, or is not Established, and  *)
(* no msg3 is sent.                                                        *)
LEMMA PlainStepKeepsInv ==
    ASSUME FspInv, NEW n \in Node, NEW t, NodeInv(t, n),
           node' = [node EXCEPT ![n] = t], t.done = node[n].done,
           NEW m, Brings(m), m.type # "msg3", lost' \in 0..MaxLoss,
           \/ t.resp.state # "Established"
           \/ t.resp = node[n].resp /\ t.boot = node[n].boot
    PROVE  FspInv'
<1>1. node \in [Node -> NodeState] /\ t \in NodeState
  BY DEF FspInv, TypeOK, NodeInv
<1>2. node'[n] = t /\ \A p \in Node \ {n} : node'[p] = node[p]
  BY <1>1
<1>3. ASSUME t.resp.state = "Established", NEW e \in t.resp.ei
      PROVE  <<e, <<n, t.boot>>>> \in node'[e[1]].done
  <2>1. <<e, <<n, t.boot>>>> \in node[e[1]].done
    BY <1>3 DEF FspInv, ResponderFollowsInitiator, Me
  <2>2. e[1] \in Node
    BY <1>1, <1>3 DEF NodeState, Responder, Option, Eph
  <2>3. QED
    BY <1>2, <2>1, <2>2
<1>4. QED
  BY <1>3, StepKeepsInv, Zenon

-----------------------------------------------------------------------------
(* The actions.                                                            *)

(* Nothing that NodeInv relates changes, except that the initiator may go. *)
LEMMA SameNode ==
    ASSUME NEW n \in Node, NEW s, NodeInv(s, n), NEW t \in NodeState,
           t.done = s.done, t.boot = s.boot, t.ini = s.ini \/ t.ini = {}
    PROVE  NodeInv(t, n)
BY DEF NodeInv

LEMMA DropInitiatorKeeps ==
    ASSUME NEW n \in Node, NEW s, NodeInv(s, n)
    PROVE  /\ NodeInv(DropInitiator(s), n)
           /\ DropInitiator(s).done = s.done
           /\ DropInitiator(s).resp = s.resp
           /\ DropInitiator(s).boot = s.boot
<1> DEFINE t == DropInitiator(s)
<1>1. s \in NodeState
  BY DEF NodeInv
<1>2. t \in NodeState
  BY <1>1, Zenon DEF DropInitiator, NodeState, Option
<1>3. t.done = s.done /\ t.boot = s.boot /\ t.ini = {} /\ t.resp = s.resp
  BY <1>1 DEF DropInitiator, NodeState
<1> HIDE DEF t
<1>4. NodeInv(t, n)
  BY <1>2, <1>3, SameNode, Zenon
<1>5. QED
  BY <1>3, <1>4 DEF t

LEMMA IdleMessage == \A n \in Node : Setup(<<n, 0>>) \in Message
                                      /\ Setup(<<n, 0>>).type # "msg3"
BY DEF Setup, Message, Eph

(* No message moves.                                                       *)
LEMMA StillBrings == ASSUME TypeOK, chan' = chan, NEW m PROVE Brings(m)
BY DEF TypeOK, Brings

(* A plain step that leaves the channels alone.                            *)
LEMMA QuietStepKeepsInv ==
    ASSUME FspInv, NEW n \in Node, NEW t, NodeInv(t, n),
           node' = [node EXCEPT ![n] = t], t.done = node[n].done,
           chan' = chan, lost' \in 0..MaxLoss,
           \/ t.resp.state # "Established"
           \/ t.resp = node[n].resp /\ t.boot = node[n].boot
    PROVE  FspInv'
<1>1. Setup(<<n, 0>>).type # "msg3"
  BY IdleMessage, Zenon
<1>2. Brings(Setup(<<n, 0>>))
  BY StillBrings, Zenon DEF FspInv
<1>3. QED
  BY <1>1, <1>2, PlainStepKeepsInv, Zenon

LEMMA LinkUpKeeps ==
    ASSUME FspInv, NEW n \in Node, LinkUp(n)
    PROVE  FspInv'
<1> DEFINE s == node[n]
           b == s.timer \/ s.ini # {}
           l == s.link + 1
           t == [s EXCEPT !.up = TRUE, !.link = l, !.resp = NoSession,
                          !.timer = b]
<1>1. s \in NodeState /\ NodeInv(s, n) /\ TypeOK
  BY DEF FspInv, TypeOK
<1>2. node' = [node EXCEPT ![n] = t] /\ chan' = chan /\ lost' \in 0..MaxLoss
  BY <1>1 DEF LinkUp, Become, TypeOK
<1>3. b \in BOOLEAN
  BY <1>1, Zenon DEF NodeState
<1>0. l \in Nat
  BY <1>1 DEF NodeState
<1>4. NoSession \in Responder /\ NoSession.state # "Established"
  BY DEF NoSession, Responder, Option
<1> HIDE DEF b, l
<1>5. t \in NodeState
  BY <1>0, <1>1, <1>3, <1>4, Zenon DEF NodeState
<1>6. /\ t.done = s.done /\ t.boot = s.boot /\ t.ini = s.ini
      /\ t.resp.state # "Established"
  BY <1>1, <1>4 DEF NodeState
<1> HIDE DEF t
<1>7. NodeInv(t, n)
  BY <1>1, <1>5, <1>6, SameNode, Zenon
<1>8. QED
  BY <1>1, <1>2, <1>6, <1>7, QuietStepKeepsInv, Zenon

LEMMA LinkFailKeeps ==
    ASSUME FspInv, NEW n \in Node, LinkFail(n)
    PROVE  FspInv'
<1> DEFINE s == node[n]
           u == [s EXCEPT !.link = @ + 1]
           t == DropInitiator(u)
<1>1. s \in NodeState /\ NodeInv(s, n) /\ TypeOK
  BY DEF FspInv, TypeOK
<1>2. node' = [node EXCEPT ![n] = t] /\ chan' = chan /\ lost' \in 0..MaxLoss
  BY <1>1 DEF LinkFail, Become, TypeOK
<1>3. /\ u \in NodeState /\ u.done = s.done /\ u.boot = s.boot
      /\ u.ini = s.ini /\ u.resp = s.resp
  BY <1>1 DEF NodeState
<1> HIDE DEF u
<1>4. NodeInv(u, n)
  BY <1>1, <1>3, SameNode, Zenon
<1>5. NodeInv(t, n) /\ t.done = s.done /\ t.resp = s.resp /\ t.boot = s.boot
  BY <1>3, <1>4, DropInitiatorKeeps
<1> HIDE DEF t
<1>6. QED
  BY <1>1, <1>2, <1>5, QuietStepKeepsInv, Zenon

LEMMA LinkDownKeeps ==
    ASSUME FspInv, NEW n \in Node, LinkDown(n)
    PROVE  FspInv'
<1> DEFINE t == DropInitiator(node[n])
<1>1. NodeInv(node[n], n) /\ TypeOK
  BY DEF FspInv
<1>2. node' = [node EXCEPT ![n] = t] /\ chan' = chan /\ lost' \in 0..MaxLoss
  BY <1>1 DEF LinkDown, Become, TypeOK
<1>3. /\ NodeInv(t, n) /\ t.done = node[n].done
      /\ t.resp = node[n].resp /\ t.boot = node[n].boot
  BY <1>1, DropInitiatorKeeps
<1> HIDE DEF t
<1>4. QED
  BY <1>1, <1>2, <1>3, QuietStepKeepsInv, Zenon

(* A new boot has an ephemeral no session was completed with.              *)
LEMMA RestartKeeps ==
    ASSUME FspInv, NEW n \in Node, Restart(n)
    PROVE  FspInv'
<1> DEFINE s == node[n]
           t == NewHandler(n, s.boot + 1, s.done)
<1>1. s \in NodeState /\ NodeInv(s, n) /\ TypeOK
  BY DEF FspInv, TypeOK
<1>2. node' = [node EXCEPT ![n] = t] /\ chan' = chan /\ lost' \in 0..MaxLoss
  BY <1>1 DEF Restart, Become, TypeOK
<1>3. s.boot \in Nat /\ s.done \in SUBSET (Eph \X Eph)
  BY <1>1 DEF NodeState
<1>4. /\ t.done = s.done /\ t.boot = s.boot + 1
      /\ t.resp = NoSession
      /\ \A i \in t.ini : i = [state |-> "Idle", eph |-> <<n, s.boot + 1>>,
                               er |-> {}, spoiled |-> FALSE]
  BY <1>3 DEF NewHandler
<1>5. t \in NodeState
  <2>1. NoSession \in Responder
    BY DEF NoSession, Responder, Option
  <2>2. [state |-> "Idle", eph |-> <<n, s.boot + 1>>, er |-> {},
         spoiled |-> FALSE] \in Initiator
    BY <1>3 DEF Initiator, Option, Eph
  <2> DEFINE o == IF n \in Dual
                  THEN {[state |-> "Idle", eph |-> <<n, s.boot + 1>>,
                         er |-> {}, spoiled |-> FALSE]}
                  ELSE {}
  <2>3. o \in Option(Initiator)
    BY <2>2, Zenon DEF Option
  <2>4. {} \in Option(Eph)
    BY DEF Option
  <2>5. t = [boot |-> s.boot + 1, up |-> FALSE, link |-> 0,
             resp |-> NoSession, ini |-> o, timer |-> FALSE,
             lastSetup |-> {}, done |-> s.done]
    BY DEF NewHandler
  <2> HIDE DEF o, t
  <2>6. QED
    BY <1>3, <2>1, <2>3, <2>4, <2>5 DEF NodeState
<1>6. t.resp.state # "Established"
  BY <1>4 DEF NoSession
<1> HIDE DEF t
<1>7. \A x \in s.done : x[1][1] = n /\ x[1][2] \in Nat /\ x[1][2] <= s.boot
  BY <1>1, <1>3 DEF NodeInv, Eph
<1>8. \A x \in s.done : x[1][2] <= s.boot + 1 /\ x[1] # <<n, s.boot + 1>>
  BY <1>3, <1>7
<1>9. NodeInv(t, n)
  BY <1>1, <1>4, <1>5, <1>7, <1>8 DEF NodeInv
<1>10. QED
  BY <1>1, <1>2, <1>4, <1>6, <1>9, IdleMessage, StillBrings,
     PlainStepKeepsInv, Zenon

(* What is deliverable is in the channel, and meets MessageInv.            *)
LEMMA DeliverableInv ==
    ASSUME FspInv, NEW n \in Node, NEW k \in Deliverable(n)
    PROVE  k \in DOMAIN chan[n] /\ MessageInv(chan[n][k])
<1>1. k \in DOMAIN chan[n]
  BY FspAssumption DEF Deliverable
<1>2. QED
  BY <1>1 DEF FspInv

LEMMA ReceiveSetupKeeps ==
    ASSUME FspInv, NEW n \in Node, NEW k, ReceiveSetup(n, k)
    PROVE  FspInv'
<1> DEFINE s == node[n]
           m == chan[n][k]
           r == [state |-> "AwaitingMsg3", ei |-> {m.ei}]
           t == [s EXCEPT !.resp = r]
           z == Ack(m.ei, Me(n))
<1>1. s \in NodeState /\ NodeInv(s, n) /\ TypeOK
  BY DEF FspInv, TypeOK
<1>2. k \in DOMAIN chan[n] /\ m \in Message /\ m.type = "setup"
  BY DeliverableInv DEF ReceiveSetup, Receives, MessageInv
<1>3. /\ node' = [node EXCEPT ![n] = t] /\ Answer(n, k, z)
      /\ lost' \in 0..MaxLoss
  BY <1>1 DEF ReceiveSetup, HandleSetup, Become, TypeOK
<1>4. m.ei \in Eph
  BY <1>2 DEF Message
<1>5. z \in Message /\ z.type = "ack"
  BY <1>1, <1>4 DEF Ack, Message, Me, Eph, NodeState
<1>6. r \in Responder /\ r.state # "Established"
  BY <1>4 DEF Responder, Option
<1> HIDE DEF m, r
<1>8. t \in NodeState
  BY <1>1, <1>6, Zenon DEF NodeState
<1>9. t.done = s.done /\ t.boot = s.boot /\ t.ini = s.ini /\ t.resp = r
  BY <1>1 DEF NodeState
<1> HIDE DEF t, z
<1>10. NodeInv(t, n)
  BY <1>1, <1>8, <1>9, SameNode, Zenon
<1>11. Brings(z)
  BY <1>1, <1>2, <1>3, <1>5, AnswerBrings, Zenon
<1>12. QED
  BY <1>3, <1>5, <1>6, <1>9, <1>10, <1>11, PlainStepKeepsInv, Zenon

(* The step that establishes a responder: the msg3 it opened stands for a  *)
(* session its initiator completed.                                        *)
LEMMA ReceiveMsg3Keeps ==
    ASSUME FspInv, NEW n \in Node, NEW k, ReceiveMsg3(n, k)
    PROVE  FspInv'
<1> DEFINE s == node[n]
           m == chan[n][k]
           t == HandleMsg3(s, Me(n), m)
           z == Setup(<<n, 0>>)
<1>1. s \in NodeState /\ NodeInv(s, n) /\ TypeOK
  BY DEF FspInv, TypeOK
<1>2. k \in DOMAIN chan[n] /\ MessageInv(m) /\ m.type = "msg3"
  BY DeliverableInv DEF ReceiveMsg3, Receives
<1>3. /\ node' = [node EXCEPT ![n] = t] /\ Consume(n, k)
      /\ lost' \in 0..MaxLoss
  BY <1>1 DEF ReceiveMsg3, Become, TypeOK
<1>4. m.ei \in Eph /\ <<m.ei, m.er>> \in node[m.ei[1]].done
  BY <1>2 DEF MessageInv, Message, Completed
<1>5. Brings(z) /\ z.type # "msg3"
  BY <1>1, <1>2, <1>3, ConsumeBrings, IdleMessage
<1>6. CASE t = s
  BY <1>1, <1>3, <1>5, <1>6, PlainStepKeepsInv, Zenon
<1>7. CASE t # s
  <2>1. /\ s.resp = [state |-> "AwaitingMsg3", ei |-> {m.ei}] /\ m.er = Me(n)
        /\ t = [s EXCEPT !.resp.state = "Established"]
    BY <1>7 DEF HandleMsg3
  <2> DEFINE r == [state |-> "Established", ei |-> {m.ei}]
  <2>2. r \in Responder
    BY <1>4 DEF Responder, Option
  <2> HIDE DEF m, t
  <2>3. t = [s EXCEPT !.resp = r]
    <3>1. [s.resp EXCEPT !.state = "Established"] = r
      BY <2>1
    <3>2. QED
      BY <2>1, <3>1, Zenon
  <2> HIDE DEF r
  <2>4. t \in NodeState
    BY <1>1, <2>2, <2>3, Zenon DEF NodeState
  <2>5. t.done = s.done /\ t.boot = s.boot /\ t.ini = s.ini /\ t.resp = r
    BY <1>1, <2>3 DEF NodeState
  <2>6. NodeInv(t, n)
    BY <1>1, <2>4, <2>5, SameNode, Zenon
  <2>7. m.ei[1] \in Node /\ node'[m.ei[1]].done = node[m.ei[1]].done
    BY <1>1, <1>3, <1>4, <2>5 DEF Eph, TypeOK
  <2>8. <<m.ei, <<n, t.boot>>>> \in node'[m.ei[1]].done
    BY <1>4, <2>1, <2>5, <2>7 DEF Me
  <2>9. \A e \in t.resp.ei : <<e, <<n, t.boot>>>> \in node'[e[1]].done
    BY <2>5, <2>8 DEF r
  <2>10. QED
    BY <1>3, <1>5, <2>5, <2>6, <2>9, StepKeepsInv, Zenon
<1>8. QED
  BY <1>6, <1>7

(* Data changes no session: it is answered, dropped, or ends the link      *)
(* session.                                                                *)
LEMMA DataKeeps ==
    ASSUME FspInv, NEW n \in Node, NEW k,
           \/ AppReplies(n, k) \/ AppDisconnects(n, k)
           \/ ReceiveQuietData(n, k) \/ ReceivePong(n, k)
    PROVE  FspInv'
<1> DEFINE s == node[n]
           m == chan[n][k]
           z == Setup(<<n, 0>>)
           d == Data(m.ei, m.er, "resp")
           t == DropInitiator(s)
<1>1. s \in NodeState /\ NodeInv(s, n) /\ TypeOK
  BY DEF FspInv, TypeOK
<1>2. k \in DOMAIN chan[n] /\ MessageInv(m) /\ m.type = "data"
  BY DeliverableInv DEF AppReplies, AppDisconnects, ReceiveQuietData,
     ReceivePong, Receives
<1>3. lost' \in 0..MaxLoss
  BY <1>1 DEF AppReplies, AppDisconnects, ReceiveQuietData, ReceivePong, TypeOK
<1>4. node = [node EXCEPT ![n] = s]
  BY <1>1 DEF TypeOK
<1>5. Consume(n, k) => Brings(z) /\ z.type # "msg3"
  BY <1>1, <1>2, ConsumeBrings, IdleMessage
<1>6. CASE AppReplies(n, k)
  <2>1. d \in Message /\ d.type = "data"
    BY <1>2 DEF MessageInv, Message, Data
  <2>2. node' = node /\ Answer(n, k, d)
    BY <1>6 DEF AppReplies
  <2>3. Brings(d)
    BY <1>1, <1>2, <2>1, <2>2, AnswerBrings, Zenon
  <2> HIDE DEF d
  <2>4. node' = [node EXCEPT ![n] = s] /\ d.type # "msg3"
    BY <1>4, <2>1, <2>2
  <2>5. QED
    BY <1>1, <1>3, <2>3, <2>4, PlainStepKeepsInv, Zenon
<1>7. CASE ReceiveQuietData(n, k)
  <2>1. node' = [node EXCEPT ![n] = s] /\ Consume(n, k)
    BY <1>4, <1>7 DEF ReceiveQuietData
  <2>2. QED
    BY <1>1, <1>3, <1>5, <2>1, PlainStepKeepsInv, Zenon
<1>8. CASE AppDisconnects(n, k) \/ ReceivePong(n, k)
  <2>1. node' = [node EXCEPT ![n] = t] /\ Consume(n, k)
    BY <1>8 DEF AppDisconnects, ReceivePong, Become
  <2>2. NodeInv(t, n) /\ t.done = s.done /\ t.resp = s.resp /\ t.boot = s.boot
    BY <1>1, DropInitiatorKeeps
  <2> HIDE DEF t
  <2>3. QED
    BY <1>1, <1>3, <1>5, <2>1, <2>2, PlainStepKeepsInv, Zenon
<1>9. QED
  BY <1>6, <1>7, <1>8

(* The step that completes a session: no session of this ephemeral was     *)
(* complete before, because the initiator was not Established.             *)
LEMMA AcceptAckKeeps ==
    ASSUME FspInv, NEW n \in Node, NEW k, AcceptAck(n, k)
    PROVE  FspInv'
<1> DEFINE s == node[n]
           m == chan[n][k]
<1>1. s \in NodeState /\ NodeInv(s, n) /\ TypeOK
  BY DEF FspInv, TypeOK
<1>2. k \in DOMAIN chan[n] /\ MessageInv(m) /\ m.type = "ack"
  BY DeliverableInv DEF AcceptAck, Receives
<1>3. m \in Message /\ m.ei \in Eph /\ m.er \in Eph
  BY <1>2 DEF MessageInv, Message
<1>4. PICK i \in s.ini :
         /\ HandleAck(i, m).state = "Established" /\ i # HandleAck(i, m)
         /\ node' = [node EXCEPT ![n] =
                       [s EXCEPT !.ini = {HandleAck(i, m)}, !.timer = TRUE,
                                 !.done = @ \cup {<<i.eph, m.er>>}]]
         /\ Answer(n, k, Msg3(i.eph, m.er))
  BY DEF AcceptAck, Become
<1> DEFINE j == [i EXCEPT !.state = "Established", !.er = {m.er}]
           d == s.done \cup {<<i.eph, m.er>>}
           t == [s EXCEPT !.ini = {j}, !.timer = TRUE, !.done = d]
           z == Msg3(i.eph, m.er)
<1>5. i \in Initiator /\ i.eph = <<n, s.boot>> /\ i.eph \in Eph
  BY <1>1 DEF NodeInv, NodeState, Option, Initiator
<1>6. i.state = "AwaitingAck" /\ HandleAck(i, m) = j
  BY <1>4, <1>5 DEF HandleAck, Initiator
<1>7. \A x \in s.done : x[1] # i.eph
  BY <1>1, <1>6 DEF NodeInv
<1>8. j \in Initiator /\ j.eph = i.eph /\ j.state = "Established"
  BY <1>3, <1>5 DEF Initiator, Option
<1>9. /\ node' = [node EXCEPT ![n] = t] /\ Answer(n, k, z)
      /\ lost' \in 0..MaxLoss
  BY <1>1, <1>4, <1>6 DEF AcceptAck, TypeOK
<1>10. d \in SUBSET (Eph \X Eph)
  BY <1>1, <1>3, <1>5 DEF NodeState
<1>11. z \in Message /\ z.type = "msg3" /\ z.ei = i.eph /\ z.er = m.er
  BY <1>1, <1>3, <1>5 DEF Msg3, Message, NodeState
<1> HIDE DEF m, j
<1>12. {j} \in Option(Initiator)
  BY <1>8, Zenon DEF Option
<1> HIDE DEF d
<1>13. t \in NodeState
  BY <1>1, <1>10, <1>12, Zenon DEF NodeState
<1>14. /\ t.done = d /\ t.boot = s.boot /\ t.ini = {j} /\ t.resp = s.resp
  BY <1>1 DEF NodeState
<1> HIDE DEF t, z
<1>15. s.done \subseteq d /\ <<i.eph, m.er>> \in d
       /\ \A x \in d : x \in s.done \/ x = <<i.eph, m.er>>
  BY DEF d
<1>16. NodeInv(t, n)
  <2>1. s.boot \in Nat
    BY <1>1 DEF NodeState
  <2>2. \A x \in d : x[1][1] = n /\ x[1][2] <= s.boot
    BY <1>1, <1>5, <1>15, <2>1 DEF NodeInv
  <2>3. \A x, y \in d : x[1] = y[1] => x = y
    BY <1>1, <1>7, <1>15 DEF NodeInv
  <2>4. QED
    BY <1>5, <1>8, <1>13, <1>14, <2>2, <2>3 DEF NodeInv
<1>17. Brings(z)
  BY <1>1, <1>2, <1>9, <1>11, AnswerBrings, Zenon
<1>18. /\ node'[n] = t /\ \A p \in Node : node[p].done \subseteq node'[p].done
  BY <1>1, <1>9, <1>14, <1>15 DEF TypeOK
<1>19. <<z.ei, z.er>> \in node'[z.ei[1]].done
  BY <1>5, <1>11, <1>14, <1>15, <1>18
<1>20. ASSUME t.resp.state = "Established", NEW e \in t.resp.ei
       PROVE  <<e, <<n, t.boot>>>> \in node'[e[1]].done
  <2>1. <<e, <<n, t.boot>>>> \in node[e[1]].done
    BY <1>14, <1>20 DEF FspInv, ResponderFollowsInitiator, Me
  <2>2. e[1] \in Node
    BY <1>13, <1>20 DEF NodeState, Responder, Option, Eph
  <2>3. QED
    BY <1>18, <2>1, <2>2
<1>21. QED
  BY <1>9, <1>14, <1>15, <1>16, <1>17, <1>19, <1>20, StepKeepsInv, Zenon

(* A rejected ack may spoil the Noise state, and nothing else.             *)
LEMMA RejectAckKeeps ==
    ASSUME FspInv, NEW n \in Node, NEW k, RejectAck(n, k)
    PROVE  FspInv'
<1> DEFINE s == node[n]
           m == chan[n][k]
           o == {HandleAck(i, m) : i \in s.ini}
           t == [s EXCEPT !.ini = o]
           z == Setup(<<n, 0>>)
<1>1. s \in NodeState /\ NodeInv(s, n) /\ TypeOK
  BY DEF FspInv, TypeOK
<1>2. k \in DOMAIN chan[n]
  BY DeliverableInv DEF RejectAck, Receives
<1>3. /\ node' = [node EXCEPT ![n] = t] /\ Consume(n, k)
      /\ lost' \in 0..MaxLoss
  BY <1>1 DEF RejectAck, Become, TypeOK
<1>4. \A i \in s.ini :
         HandleAck(i, m).state # "Established" \/ i = HandleAck(i, m)
  BY DEF RejectAck
<1>5. ASSUME NEW i \in s.ini
      PROVE  /\ HandleAck(i, m) \in Initiator
             /\ HandleAck(i, m).eph = i.eph
             /\ HandleAck(i, m).state = i.state
  <2>1. i \in Initiator
    BY <1>1 DEF NodeState, Option
  <2>2. CASE i = HandleAck(i, m)
    BY <2>1, <2>2
  <2>3. CASE i # HandleAck(i, m)
    <3>1. HandleAck(i, m) = [i EXCEPT !.spoiled = TRUE]
      BY <1>4, <2>1, <2>3 DEF HandleAck, Initiator
    <3>2. QED
      BY <2>1, <3>1 DEF Initiator
  <2>4. QED
    BY <2>2, <2>3
<1>6. o \in Option(Initiator)
  <2>1. o \subseteq Initiator
    BY <1>5
  <2>2. \A x, y \in s.ini : x = y
    BY <1>1 DEF NodeState, Option
  <2>3. \A x, y \in o : x = y
    BY <2>2, Zenon
  <2>4. QED
    BY <2>1, <2>3, Zenon DEF Option
<1>7. \A j \in o : \E i \in s.ini : j.eph = i.eph /\ j.state = i.state
  BY <1>5
<1> HIDE DEF o
<1>8. t \in NodeState
  BY <1>1, <1>6, Zenon DEF NodeState
<1>9. /\ t.done = s.done /\ t.boot = s.boot /\ t.ini = o /\ t.resp = s.resp
  BY <1>1 DEF NodeState
<1> HIDE DEF t
<1>10. NodeInv(t, n)
  BY <1>1, <1>7, <1>8, <1>9 DEF NodeInv
<1>11. Brings(z) /\ z.type # "msg3"
  BY <1>1, <1>2, <1>3, ConsumeBrings, IdleMessage
<1>12. QED
  BY <1>3, <1>9, <1>10, <1>11, PlainStepKeepsInv, Zenon

LEMMA TickIdleKeeps ==
    ASSUME FspInv, NEW n \in Node, TickIdle(n)
    PROVE  FspInv'
<1> DEFINE s == node[n]
<1>1. s \in NodeState /\ NodeInv(s, n) /\ TypeOK
  BY DEF FspInv, TypeOK
<1>2. PICK i \in s.ini :
         /\ node' = [node EXCEPT ![n] =
                       [s EXCEPT !.ini = {[i EXCEPT !.state = "AwaitingAck"]},
                                 !.lastSetup = {i.eph}]]
         /\ Send(n, Setup(i.eph))
  BY DEF TickIdle, Become
<1>3. \A x \in s.ini : x = i /\ x \in Initiator
  BY <1>1 DEF NodeState, Option
<1>4. i.state = "Idle"
  BY <1>3 DEF TickIdle, Ticks
<1> DEFINE j == [i EXCEPT !.state = "AwaitingAck"]
           o == {i.eph}
           t == [s EXCEPT !.ini = {j}, !.lastSetup = o]
           z == Setup(i.eph)
<1>5. j \in Initiator /\ j.eph = i.eph /\ i.eph \in Eph
  BY <1>3 DEF Initiator
<1>6. o \in Option(Eph)
  BY <1>5, Zenon DEF Option
<1>7. z \in Message /\ z.type # "msg3"
  BY <1>5 DEF Setup, Message
<1>8. /\ node' = [node EXCEPT ![n] = t] /\ Send(n, z) /\ lost' \in 0..MaxLoss
  BY <1>1, <1>2 DEF TickIdle, TypeOK
<1> HIDE DEF j
<1>9. {j} \in Option(Initiator)
  BY <1>5, Zenon DEF Option
<1> HIDE DEF o
<1>10. t \in NodeState
  BY <1>1, <1>6, <1>9, Zenon DEF NodeState
<1>11. /\ t.done = s.done /\ t.boot = s.boot /\ t.ini = {j} /\ t.resp = s.resp
  BY <1>1 DEF NodeState
<1> HIDE DEF t, z
<1>12. NodeInv(t, n)
  BY <1>1, <1>4, <1>5, <1>10, <1>11 DEF NodeInv
<1>13. Brings(z)
  BY <1>1, <1>7, <1>8, SendBrings, Zenon
<1>14. QED
  BY <1>7, <1>8, <1>11, <1>12, <1>13, PlainStepKeepsInv, Zenon

(* The other two ticks only send.                                          *)
LEMMA TickSendsKeeps ==
    ASSUME FspInv, NEW n \in Node, TickAwaitingAck(n) \/ TickEstablished(n)
    PROVE  FspInv'
<1> DEFINE s == node[n]
<1>1. s \in NodeState /\ NodeInv(s, n) /\ TypeOK
  BY DEF FspInv, TypeOK
<1>2. /\ node' = [node EXCEPT ![n] = s] /\ lost' \in 0..MaxLoss
  BY <1>1 DEF TickAwaitingAck, TickEstablished, TypeOK
<1>3. \E z \in Message : z.type # "msg3" /\ Send(n, z)
  <2>1. CASE TickAwaitingAck(n)
    <3>1. PICK e \in s.lastSetup : Send(n, Setup(e))
      BY <2>1 DEF TickAwaitingAck
    <3>2. e \in Eph
      BY <1>1 DEF NodeState, Option
    <3>3. Setup(e) \in Message /\ Setup(e).type # "msg3"
      BY <3>2 DEF Setup, Message
    <3>4. QED
      BY <3>1, <3>3
  <2>2. CASE TickEstablished(n)
    <3>1. PICK i \in s.ini : \E r \in i.er : Send(n, Data(i.eph, r, "init"))
      BY <2>2 DEF TickEstablished
    <3>2. PICK r \in i.er : Send(n, Data(i.eph, r, "init"))
      BY <3>1
    <3>3. i \in Initiator
      BY <1>1 DEF NodeState, Option
    <3>4. i.eph \in Eph /\ r \in Eph
      BY <3>3 DEF Initiator, Option
    <3>5. /\ Data(i.eph, r, "init") \in Message
          /\ Data(i.eph, r, "init").type # "msg3"
      BY <3>4 DEF Data, Message
    <3>6. QED
      BY <3>2, <3>5
  <2>3. QED
    BY <2>1, <2>2
<1>4. PICK z \in Message : z.type # "msg3" /\ Send(n, z)
  BY <1>3
<1>5. Brings(z)
  BY <1>1, <1>4, SendBrings, Zenon
<1>6. QED
  BY <1>1, <1>2, <1>4, <1>5, PlainStepKeepsInv, Zenon

(* Messages that are lost, or meet a node without a link session.          *)
LEMMA MeshKeeps ==
    ASSUME FspInv, NEW n \in Node, NEW k, Undeliverable(n, k) \/ Lose(n, k)
    PROVE  FspInv'
<1> DEFINE s == node[n]
           z == Setup(<<n, 0>>)
<1>1. NodeInv(s, n) /\ TypeOK
  BY DEF FspInv
<1>2. k \in DOMAIN chan[n]
  BY DeliverableInv DEF Undeliverable, Lose
<1>3. node' = [node EXCEPT ![n] = s] /\ Consume(n, k)
  BY <1>1 DEF Undeliverable, Lose, TypeOK
<1>4. lost' \in 0..MaxLoss
  BY <1>1, FspAssumption DEF Undeliverable, Lose, TypeOK
<1>5. Brings(z) /\ z.type # "msg3"
  BY <1>1, <1>2, <1>3, ConsumeBrings, IdleMessage
<1>6. QED
  BY <1>1, <1>3, <1>4, <1>5, PlainStepKeepsInv, Zenon

-----------------------------------------------------------------------------
(* The theorems.                                                           *)

LEMMA FspInit == Init => FspInv
<1> SUFFICES ASSUME Init PROVE FspInv
  OBVIOUS
<1> DEFINE i(n) == [state |-> "Idle", eph |-> <<n, 0>>, er |-> {},
                    spoiled |-> FALSE]
<1>1. ASSUME NEW n \in Node
      PROVE  /\ NodeInv(NewHandler(n, 0, {}), n)
             /\ NewHandler(n, 0, {}).resp.state = "Idle"
  <2> DEFINE o == IF n \in Dual THEN {i(n)} ELSE {}
             t == NewHandler(n, 0, {})
  <2>1. NoSession \in Responder /\ NoSession.state = "Idle"
    BY DEF NoSession, Responder, Option
  <2>2. i(n) \in Initiator /\ i(n).eph = <<n, 0>>
    BY DEF Initiator, Option, Eph
  <2>3. o \in Option(Initiator)
    BY <2>2, Zenon DEF Option
  <2>4. {} \in Option(Eph)
    BY DEF Option
  <2>5. \A x \in o : x.eph = <<n, 0>>
    BY <2>2, Zenon
  <2>6. t = [boot |-> 0, up |-> FALSE, link |-> 0, resp |-> NoSession,
             ini |-> o, timer |-> FALSE, lastSetup |-> {},
             done |-> {}]
    BY DEF NewHandler
  <2> HIDE DEF o, t
  <2>7. t \in NodeState
    BY <2>1, <2>3, <2>4, <2>6 DEF NodeState
  <2>8. t.done = {} /\ t.boot = 0 /\ t.ini = o /\ t.resp = NoSession
    BY <2>6
  <2>9. QED
    BY <2>1, <2>5, <2>7, <2>8 DEF NodeInv, t
<1>2. \A n \in Node : node[n] = NewHandler(n, 0, {}) /\ chan[n] = <<>>
  BY DEF Init
<1>3. TypeOK
  <2>1. node \in [Node -> NodeState]
    BY <1>1 DEF Init, NodeInv
  <2>2. chan \in [Node -> Seq(Message)]
    BY DEF Init
  <2>3. lost \in 0..MaxLoss
    BY FspAssumption DEF Init
  <2>4. QED
    BY <2>1, <2>2, <2>3 DEF TypeOK
<1>4. \A n \in Node : NodeInv(node[n], n)
  BY <1>1, <1>2, Zenon
<1>5. \A n \in Node : \A k \in DOMAIN chan[n] : MessageInv(chan[n][k])
  BY <1>2
<1>6. ResponderFollowsInitiator
  BY <1>1, <1>2 DEF ResponderFollowsInitiator
<1>7. QED
  BY <1>3, <1>4, <1>5, <1>6 DEF FspInv

LEMMA FspNext == FspInv /\ [Next]_vars => FspInv'
<1> SUFFICES ASSUME FspInv, [Next]_vars PROVE FspInv'
  OBVIOUS
<1>1. CASE UNCHANGED vars
  BY <1>1 DEF vars, FspInv, TypeOK, NodeInv, MessageInv, Completed,
     ResponderFollowsInitiator, Me
<1>2. ASSUME NEW n \in Node,
             LinkUp(n) \/ LinkFail(n) \/ LinkDown(n) \/ Restart(n)
      PROVE  FspInv'
  BY <1>2, LinkUpKeeps, LinkFailKeeps, LinkDownKeeps, RestartKeeps
<1>3. ASSUME NEW n \in Node, Tick(n)
      PROVE  FspInv'
  BY <1>3, TickIdleKeeps, TickSendsKeeps DEF Tick
<1>4. ASSUME NEW n \in Node, NEW k \in DOMAIN chan[n], Deliver(n, k)
      PROVE  FspInv'
  BY <1>4, ReceiveSetupKeeps, ReceiveMsg3Keeps, AcceptAckKeeps,
     RejectAckKeeps, DataKeeps, MeshKeeps DEF Deliver
<1>5. ASSUME NEW n \in Node, NEW k \in DOMAIN chan[n], Lose(n, k)
      PROVE  FspInv'
  BY <1>5, MeshKeeps
<1>6. QED
  BY <1>1, <1>2, <1>3, <1>4, <1>5 DEF Next

(* A responder (handle_msg3) is Established only in a session that its     *)
(* initiator (build_msg3) completed with it, whatever the mesh does with   *)
(* the datagrams and however often either node restarts.                   *)
THEOREM ResponderFollowsInitiatorAlways == Spec => []ResponderFollowsInitiator
<1>1. FspInv => ResponderFollowsInitiator
  BY DEF FspInv
<1>2. QED
  BY FspInit, FspNext, <1>1, PTL DEF Spec

(* handle_ack completes at most one session per initiator ephemeral, over  *)
(* any number of resent setups, acks and restarts of the responder.        *)
THEOREM OneSessionPerEphemeralAlways == Spec => []OneSessionPerEphemeral
<1>1. FspInv => OneSessionPerEphemeral
  BY DEF FspInv, NodeInv, OneSessionPerEphemeral
<1>2. QED
  BY FspInit, FspNext, <1>1, PTL DEF Spec

(* Handlers, datagrams on their way and the loss count keep their types:   *)
(* in particular the responder never holds two initiators (handle_setup).  *)
THEOREM FspTypes == Spec => []TypeOK
<1>1. FspInv => TypeOK
  BY DEF FspInv
<1>2. QED
  BY FspInit, FspNext, <1>1, PTL DEF Spec

=============================================================================
