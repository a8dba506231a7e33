----------------------------- MODULE ProbeTools -----------------------------
(***************************************************************************)
(* The host-side probes: microfips-link (one handshake, then an exit       *)
(* code), microfips-http-test (plays the daemon for a board, opens an FSP  *)
(* session to it and asks its service), and microfips-sim --test-http (a   *)
(* node that asks its FSP peer's service until it answers).                *)
(*                                                                         *)
(* One run of one probe against one peer over UDP, which loses and         *)
(* duplicates datagrams.  A key is named by the ephemeral it was agreed    *)
(* with; a datagram sealed under another key does not open.  The peer is   *)
(* the daemon or the board as the probes meet it (FmpLink and FspLink have *)
(* its own story).  For the sim the link and the FSP session are up.       *)
(***************************************************************************)
EXTENDS Naturals, Sequences

CONSTANTS
    Probes,       \* the probes to run
    MaxDials,     \* handshakes a board starts
    MaxFaults,    \* datagrams lost or duplicated
    MaxQueue      \* datagrams waiting at the probe

ASSUME ProbeAssumption ==
    /\ Probes \subseteq {"link_ik", "link_xx", "http_test", "sim_http"}
    /\ MaxDials \in Nat \ {0} /\ MaxFaults \in Nat /\ MaxQueue \in Nat \ {0}

VARIABLES
    probe,     \* [kind, pc, exit, key, ctr]
    peer,      \* the daemon or board
    toProbe,   \* datagrams on their way to the probe
    toPeer,    \* datagrams on their way to the peer
    faults     \* datagrams lost or duplicated so far

probeVars == <<probe, peer, toProbe, toPeer, faults>>

\* A handshake message, and a link frame sealed under a key.
Msg1(k) == [t |-> "msg1", key |-> k, body |-> "", ctr |-> 0]
Msg2(k, neg) == [t |-> "msg2", key |-> k, body |-> neg, ctr |-> 0]
Msg3(k) == [t |-> "msg3", key |-> k, body |-> "", ctr |-> 0]
Established(k, body, ctr) == [t |-> "data", key |-> k, body |-> body, ctr |-> ctr]

ProbeAt(kind, pc) == probe.kind = kind /\ probe.pc = pc

\* The process ends; 101 is the exit code of a panic.
ExitWith(code) == [probe EXCEPT !.pc = "done", !.exit = {code}]

\* The first waiting datagram is taken, the others stay.
Taken == toProbe # <<>> /\ toProbe' = Tail(toProbe)

----------------------------------------------------------------------------
(* microfips-link *)

\* ik_handshake and xx_handshake up to the first recv_from; the send may fail.
LinkSendsMsg1 ==
    /\ probe.kind \in {"link_ik", "link_xx"} /\ probe.pc = "start"
    /\ \/ /\ toPeer' = Append(toPeer, Msg1(1))
          /\ probe' = [probe EXCEPT !.pc = "msg2", !.key = 1]
       \/ probe' = ExitWith(2) /\ UNCHANGED toPeer
    /\ UNCHANGED <<peer, toProbe, faults>>

\* ik_handshake on the one datagram it waits for.
IkReceives ==
    LET m == Head(toProbe)
    IN  /\ ProbeAt("link_ik", "msg2") /\ Taken
        /\ probe' = ExitWith(IF m.t = "msg2" /\ m.key = probe.key THEN 0 ELSE 2)
        /\ UNCHANGED <<peer, toPeer, faults>>

\* validate_negotiation, and the warning where the peer sent no block.
NegotiationPasses(neg) == neg \in {"none", "agrees"}

\* xx_handshake on msg2: read it, check the negotiation block, send msg3 with
\* ours and finish.
XxReceives ==
    LET m == Head(toProbe)
        good == m.t = "msg2" /\ m.key = probe.key /\ NegotiationPasses(m.body)
    IN  /\ ProbeAt("link_xx", "msg2") /\ Taken
        /\ \/ /\ good
              /\ toPeer' = Append(toPeer, Msg3(probe.key))
              /\ probe' = ExitWith(0)
           \/ probe' = ExitWith(2) /\ UNCHANGED toPeer
        /\ UNCHANGED <<peer, faults>>

\* The read timeout of five seconds.
LinkTimesOut ==
    /\ probe.kind \in {"link_ik", "link_xx"} /\ probe.pc = "msg2" /\ toProbe = <<>>
    /\ probe' = ExitWith(1)
    /\ UNCHANGED <<peer, toProbe, toPeer, faults>>

----------------------------------------------------------------------------
(* microfips-http-test *)

\* main up to "Waiting for FSP SessionAck": the first datagram must be a MSG1;
\* answer it, and send the FSP SessionSetup behind the answer.
HttpTakesMsg1 ==
    LET m == Head(toProbe)
    IN  /\ ProbeAt("http_test", "start") /\ Taken
        /\ IF m.t = "msg1"
           THEN /\ toPeer' = toPeer \o <<Msg2(m.key, "none"), Established(m.key, "setup", 0)>>
                /\ probe' = [probe EXCEPT !.pc = "ack", !.key = m.key, !.ctr = 1]
           ELSE probe' = ExitWith(2) /\ UNCHANGED toPeer
        /\ UNCHANGED <<peer, faults>>

\* recv_established_datagram
RecvEstablished(m) ==
    IF m.t = "data" /\ m.key = probe.key
    THEN IF m.body = "heartbeat" THEN "Heartbeat" ELSE "Datagram"
    ELSE "Other"

\* The wait for the SessionAck takes the first session datagram to be it (any
\* other one panics in parse_session_ack), then sends msg3 and the request.
HttpAwaitsAck ==
    LET m == Head(toProbe)
    IN  /\ ProbeAt("http_test", "ack") /\ Taken
        /\ IF RecvEstablished(m) # "Datagram"
           THEN UNCHANGED <<probe, toPeer>>
           ELSE IF m.body # "ack"
           THEN probe' = ExitWith(101) /\ UNCHANGED toPeer
           ELSE /\ toPeer' = toPeer \o <<Established(probe.key, "msg3", probe.ctr),
                                         Established(probe.key, "request", probe.ctr + 1)>>
                /\ probe' = [probe EXCEPT !.pc = "response", !.ctr = @ + 2]
        /\ UNCHANGED <<peer, faults>>

\* A plausible slip: the FSP layer of the datagram is not opened.
ResponseOpensAny(m) == RecvEstablished(m) = "Datagram"

\* Opening the FSP layer: only what the board's FSP session sealed passes.
ResponseOpens(m) == RecvEstablished(m) = "Datagram" /\ m.body = "response"

HttpAwaitsResponse ==
    /\ ProbeAt("http_test", "response") /\ Taken
    /\ probe' = IF ResponseOpens(Head(toProbe)) THEN ExitWith(0) ELSE probe
    /\ UNCHANGED <<peer, toPeer, faults>>

\* The socket's read timeout: recv MSG1 panics, the two waits exit with 1.
HttpTimesOut ==
    /\ probe.kind = "http_test" /\ probe.pc \in {"start", "ack", "response"}
    /\ toProbe = <<>>
    /\ probe' = ExitWith(IF probe.pc = "start" THEN 101 ELSE 1)
    /\ UNCHANGED <<peer, toProbe, toPeer, faults>>

\* Thirty seconds have passed since the request, whatever arrives.
HttpGivesUp ==
    /\ ProbeAt("http_test", "response")
    /\ probe' = ExitWith(1)
    /\ UNCHANGED <<peer, toProbe, toPeer, faults>>

----------------------------------------------------------------------------
(* microfips-sim --test-http *)

\* SimHandler::on_tick with the session established: a request under the next
\* send counter, and the timer again in ten seconds, by when a datagram has
\* arrived or is lost.
SimAsks ==
    /\ ProbeAt("sim_http", "established")
    /\ toPeer = <<>> /\ toProbe = <<>>
    /\ toPeer' = Append(toPeer, Established(probe.key, "request", probe.ctr))
    /\ probe' = [probe EXCEPT !.ctr = @ + 1]
    /\ UNCHANGED <<peer, toProbe, faults>>

\* SimHandler::is_http_response
IsHttpResponse(m) == m.key = probe.key /\ m.body = "response"

\* SimHandler::on_message: the inner handler sees the datagram first, then it is
\* opened once more, and an answer of the service ends the process.  (So would a
\* Disconnect of the inner handler; it comes from a PONG under --test-ping, or from
\* a service that fails, which DemoService does not.)
SimReceives ==
    /\ ProbeAt("sim_http", "established") /\ Taken
    /\ probe' = IF IsHttpResponse(Head(toProbe)) THEN ExitWith(0) ELSE probe
    /\ UNCHANGED <<peer, toPeer, faults>>

----------------------------------------------------------------------------
(* The peer and the network *)

\* A datagram the peer sends; it does not fill the probe's socket.
PeerSends(m) == Len(toProbe) < MaxQueue /\ toProbe' = Append(toProbe, m)

\* The board has no link yet and starts a handshake with a fresh ephemeral.
PeerDials ==
    /\ probe.kind = "http_test" /\ peer.up /\ peer.link = {} /\ peer.dials < MaxDials
    /\ peer' = [peer EXCEPT !.dials = @ + 1, !.eph = peer.dials + 1]
    /\ PeerSends(Msg1(peer.dials + 1))
    /\ UNCHANGED <<probe, toPeer, faults>>

\* A board with a link sends heartbeats, and opens an FSP session of its own.
PeerTalks ==
    /\ probe.kind = "http_test" /\ peer.up
    /\ \E k \in peer.link, body \in {"heartbeat", "setup"} : PeerSends(Established(k, body, 0))
    /\ UNCHANGED <<probe, peer, toPeer, faults>>

\* What the peer answers to a frame of its link, and what it learns by it.
PeerOnFrame(m) ==
    IF m.key \notin peer.link THEN toProbe' = toProbe /\ peer' = peer
    ELSE CASE m.body = "setup" -> PeerSends(Established(m.key, "ack", 0)) /\ peer' = peer
           [] m.body = "msg3" -> toProbe' = toProbe /\ peer' = [peer EXCEPT !.fsp = TRUE]
           [] m.body = "request" /\ peer.fsp /\ m.ctr \notin peer.seen ->
                  /\ PeerSends(Established(m.key, "response", 0))
                  /\ peer' = [peer EXCEPT !.seen = @ \cup {m.ctr}]
           [] OTHER -> toProbe' = toProbe /\ peer' = peer

PeerReceives ==
    LET m == Head(toPeer)
    IN  /\ toPeer # <<>> /\ toPeer' = Tail(toPeer) /\ peer.up
        /\ CASE m.t = "msg1" -> /\ PeerSends(Msg2(m.key, peer.neg))
                                /\ peer' = [peer EXCEPT !.eph = m.key,
                                             !.link = IF probe.kind = "link_ik" THEN {m.key} ELSE @]
             [] m.t \in {"msg2", "msg3"} ->
                    /\ peer' = IF m.key = peer.eph /\ peer.link = {}
                               THEN [peer EXCEPT !.link = {m.key}] ELSE peer
                    /\ toProbe' = toProbe
             [] OTHER -> PeerOnFrame(m)
        /\ UNCHANGED <<probe, faults>>

\* The peer loses power.
PeerDies ==
    /\ probe.kind = "http_test" /\ peer.up
    /\ peer' = [peer EXCEPT !.up = FALSE]
    /\ toPeer' = <<>>
    /\ UNCHANGED <<probe, toProbe, faults>>

NetworkFault ==
    /\ faults < MaxFaults /\ faults' = faults + 1
    /\ \/ toPeer # <<>> /\ toPeer' = Tail(toPeer) /\ UNCHANGED toProbe
       \/ toProbe # <<>> /\ toProbe' = Tail(toProbe) /\ UNCHANGED toPeer
       \/ toPeer # <<>> /\ toPeer' = <<Head(toPeer)>> \o toPeer /\ UNCHANGED toProbe
       \/ toProbe # <<>> /\ toProbe' = <<Head(toProbe)>> \o toProbe /\ UNCHANGED toPeer
    /\ UNCHANGED <<probe, peer>>

----------------------------------------------------------------------------
ProbeInit ==
    /\ probe \in {[kind |-> k, pc |-> IF k = "sim_http" THEN "established" ELSE "start",
                   exit |-> {}, key |-> 0, ctr |-> 0] : k \in Probes}
    /\ peer \in {[up |-> TRUE, eph |-> 0, dials |-> 0, neg |-> neg, seen |-> {},
                  link |-> IF probe.kind = "sim_http" THEN {0} ELSE {},
                  fsp |-> probe.kind = "sim_http"] :
                 neg \in IF probe.kind = "link_xx" THEN {"none", "agrees", "disagrees"} ELSE {"none"}}
    /\ toProbe = <<>> /\ toPeer = <<>> /\ faults = 0

ProbeRuns ==
    \/ LinkSendsMsg1 \/ IkReceives \/ XxReceives \/ LinkTimesOut
    \/ HttpTakesMsg1 \/ HttpAwaitsAck \/ HttpAwaitsResponse \/ HttpTimesOut \/ HttpGivesUp
    \/ SimAsks \/ SimReceives

ProbeNext ==
    \/ ProbeRuns
    \/ probe.pc # "done" /\ (PeerDials \/ PeerTalks \/ PeerReceives \/ PeerDies \/ NetworkFault)

ProbeSpec == ProbeInit /\ [][ProbeNext]_probeVars

\* The probe's process runs, its timers go off, and the peer handles what it is
\* sent.
ProbeFairness == WF_probeVars(ProbeRuns) /\ WF_probeVars(PeerReceives)

ProbeFair == ProbeSpec /\ ProbeFairness

----------------------------------------------------------------------------
(* Properties *)

\* Exit code 0 tells the truth about the other side: the IK link tool's peer
\* holds the session, the XX one's has answered this handshake and agrees on the
\* protocol, the board of the HTTP test and the sim's peer have served a request
\* of this run.
SuccessIsShared ==
    probe.exit = {0} =>
        /\ probe.key \in peer.link \cup {peer.eph}
        /\ probe.kind = "link_ik" => probe.key \in peer.link
        /\ probe.kind = "link_xx" => peer.neg # "disagrees"
        /\ probe.kind \in {"http_test", "sim_http"} => peer.fsp /\ peer.seen # {}

\* Every probe comes to an end: the link tool always, the sim with success since
\* it asks again every ten seconds, and the HTTP test once its board is dead,
\* whatever it was waiting for.
ProbeEnds ==
    /\ probe.kind \in {"link_ik", "link_xx"} => <>(probe.pc = "done")
    /\ probe.kind = "sim_http" => <>(probe.exit = {0})
    /\ [](~peer.up => <>(probe.pc = "done"))

=============================================================================
