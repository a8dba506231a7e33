----------------------------- MODULE MCServices -----------------------------
(***************************************************************************)
(* What finds and carries a link on the LAN and on the host: mDNS, the     *)
(* host's bridges and its probes, checked as alternatives.  A behaviour    *)
(* runs one of them, named by `part'; the others rest in one of their      *)
(* initial states.                                                         *)
(***************************************************************************)
EXTENDS Mdns, SerialBridge, TcpPipeline, BleUdpBridge, ProbeTools

VARIABLE part

hostVars == <<mdVars, sbVars, pipeVars, bbVars, probeVars, part>>

----------------------------------------------------------------------------
(* What is on the LAN: adverts in every order of their records, for the pinned *)
(* and for another key, with and without a scope, incomplete and cut short;    *)
(* queries for our names and others, spelled out and through pointers.         *)

Scope(n) == [name |-> "mesh", size |-> n]
Txt(n, s, v) == Record("TXT", 70, [npub |-> n, scope |-> s, v |-> v])
Srv == Record("SRV", 20, "dp")

LanPackets ==
    {Response(<<Record("PTR", 30, 0), Srv, Txt({"k1"}, {Scope(4)}, {"1"}), Record("A", 4, "d1")>>),
     Response(<<Txt({"k1"}, {Scope(40)}, {}), Record("A", 4, "d1"), Srv>>),
     Response(<<Txt({"k2"}, {Scope(4)}, {"2"}), Txt({"k1"}, {}, {}), Record("A", 4, "d2"), Srv>>),
     Response(<<Txt({}, {Scope(4)}, {"1"}), Txt({"k1"}, {}, {}), Record("A", 16, "d3"),
                Record("A", 4, "d1"), Record("SRV", 5, "x"), Srv>>),
     Response(<<Srv, Record("A", 4, "d1")>>),
     Response(<<Srv, Record("A", 4, "d1"), Txt({"undecodable"}, {}, {})>>),
     [Response(<<Srv, Record("A", 4, "d1"), Txt({"k1"}, {}, {})>>) EXCEPT !.cut = TRUE]}

LeafFilters ==
    {[kind |-> "pinned", key |-> "k1"], [kind |-> "pinned", key |-> "k2"],
     [kind |-> "open", scope |-> {}], [kind |-> "open", scope |-> {Scope(4)}],
     [kind |-> "open", scope |-> {Scope(40)}]}

OurService == <<Label("_fips"), Label("_udp"), Label("local"), End>>
Query(n, cells) == [reply |-> FALSE, count |-> n, cells |-> cells]

Queries ==
    {Query(1, OurService \o <<Asks("SRV")>>), [PtrQuery EXCEPT !.reply = TRUE],
     Query(2, <<Label("_ipp"), Label("_tcp"), Label("local"), End, Asks("PTR"),
                Label("_fips"), Label("_udp"), Pointer(3), Asks("PTR")>>),
     Query(2, OurService \o <<Asks("A"), Label("relay"), Pointer(1), Asks("TXT")>>),
     Query(2, OurService \o <<Asks("PTR"), Label("relay"), Pointer(1)>>),
     Query(2, OurService \o <<Asks("PTR"), Label("relay")>>),
     Query(1, <<Pointer(1), Asks("PTR")>>),
     Query(1, <<Label("_fips"), Pointer(1), Asks("ANY")>>),
     Query(2, OurService \o <<Asks("A"), Label("host"), Pointer(3), Asks("A")>>),
     Query(3, OurService \o <<Asks("A"), Pointer(1), Asks("A"), Pointer(6), Asks("ANY")>>),
     Query(1, <<Label("_fips"), Label("_udp"), End, Asks("PTR")>>),
     Query(1, <<Label("x")>> \o OurService \o <<Asks("ANY")>>)}

----------------------------------------------------------------------------
SomeFilter == CHOOSE f \in Filters : TRUE

HostInit ==
    /\ part \in {"mdns", "serial", "tcp", "ble", "probe"}
    /\ MdInit /\ (part = "mdns" \/ filter = SomeFilter)
    /\ SbInit /\ PipeInit /\ BbInit
    /\ ProbeInit /\ (part = "probe" \/ probe.kind = "http_test")

HostNext ==
    \/ part = "mdns" /\ MdNext
       /\ UNCHANGED <<sbVars, pipeVars, bbVars, probeVars, part>>
    \/ part = "serial" /\ SbNext
       /\ UNCHANGED <<mdVars, pipeVars, bbVars, probeVars, part>>
    \/ part = "tcp" /\ PipeNext
       /\ UNCHANGED <<mdVars, sbVars, bbVars, probeVars, part>>
    \/ part = "ble" /\ BbNext
       /\ UNCHANGED <<mdVars, sbVars, pipeVars, probeVars, part>>
    \/ part = "probe" /\ ProbeNext
       /\ UNCHANGED <<mdVars, sbVars, pipeVars, bbVars, part>>
    \/ part \in {"serial", "tcp", "probe"} /\ UNCHANGED hostVars   \* these programs end

----------------------------------------------------------------------------
(* Liveness *)

\* The variables of the part that runs.
active ==
    CASE part = "mdns" -> mdVars [] part = "serial" -> sbVars
      [] part = "tcp" -> pipeVars [] part = "ble" -> bbVars [] part = "probe" -> probeVars

\* One fair step of each part, then a second, third and fourth.
Fair1 ==
    /\ \/ part = "mdns" /\ Running("leaf")
       \/ part = "serial" /\ ThreadRuns("rx")
       \/ part = "tcp" /\ PipeTick
       \/ part = "ble" /\ BbTick
       \/ part = "probe" /\ ProbeRuns
    /\ UNCHANGED part

Fair2 ==
    /\ \/ part = "mdns" /\ Running("relay")
       \/ part = "serial" /\ ThreadRuns("tx")
       \/ part = "tcp" /\ BridgeReaderEnds
       \/ part = "ble" /\ OrphanReturns
       \/ part = "probe" /\ PeerReceives
    /\ UNCHANGED part

Fair3 ==
    /\ \/ part = "tcp" /\ BridgeWriter
       \/ part = "ble" /\ BbRuns
    /\ UNCHANGED part

Fair4 == part = "tcp" /\ BridgeRuns /\ UNCHANGED part

\* MdFairness, SbFairness, PipeFairness, BbFairness and ProbeFairness.  `part'
\* never changes, so fairness of a disjunction over the parts is fairness of the
\* disjunct of the part that runs.
HostSpec ==
    /\ HostInit /\ [][HostNext]_hostVars
    /\ WF_active(Fair1) /\ WF_active(Fair2) /\ WF_active(Fair3) /\ WF_active(Fair4)
    /\ SF_active(part = "serial" /\ Reconnect("rx") /\ UNCHANGED part)
    /\ SF_active(part = "serial" /\ Reconnect("tx") /\ UNCHANGED part)

\* Nothing on the host hangs: a search for a daemon ends, a stopped serial bridge
\* ends and one that lost its board finds it again or stops, the bridges start over
\* after a lost connection, and every probe comes to its exit.
HostToolsGoOn ==
    /\ SearchEnds
    /\ BridgeEnds /\ PortComesBack
    /\ RoundsGoOn /\ ScansAgain
    /\ part = "probe" => ProbeEnds

=============================================================================
