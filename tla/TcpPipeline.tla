----------------------------- MODULE TcpPipeline -----------------------------
(***************************************************************************)
(* The three-hop pipeline: tools/serial_tcp_proxy.py on the host and        *)
(* tools/fips_bridge.py on the VPS, joined by a TCP connection.             *)
(*                                                                         *)
(* The proxy has two threads, the serial reader and the main one that       *)
(* accepts connections; both call _flush_to_tcp, which takes no lock.  The  *)
(* bridge runs rounds: two threads over one connection, and when one ends   *)
(* it stops the other, reconnects and starts again.  The bytes of the MCU   *)
(* are chunks numbered in the order the proxy reads them.  Time in the      *)
(* bridge is counted in units of its shortest join.                         *)
(***************************************************************************)
EXTENDS Naturals, Sequences

CONSTANTS
    MaxChunks,    \* chunks the MCU sends (bound of the model)
    MaxRounds,    \* rounds of the bridge (bound of the model)
    RecvTimeout,  \* settimeout(30) in units of JoinReader
    JoinReader,   \* t1.join(timeout=5): one unit
    JoinWriter    \* t2.join(timeout=35) in units of JoinReader

ASSUME PipeAssumption ==
    /\ MaxChunks \in Nat /\ MaxRounds \in Nat
    /\ RecvTimeout \in Nat /\ JoinReader \in Nat \ {0} /\ JoinWriter \in Nat

VARIABLES
    tcp,      \* the connection: "none", "up", "fin" (closed in order), "rst"
    pxBuf,    \* serial_buf
    pxRead,   \* chunks read from the MCU so far
    pxConn,   \* self.tcp_conn is set
    pxPc,     \* where the reader and the main thread of the proxy are
    pxRaced,  \* a flush of one thread overlapped one of the other
    got,      \* chunks that have arrived at the bridge
    br        \* the bridge: stage, round, threads, clocks

pipeVars == <<tcp, pxBuf, pxRead, pxConn, pxPc, pxRaced, got, br>>

pxVars == <<pxBuf, pxRead, pxConn, pxPc, pxRaced, got>>

ProxyThread == {"reader", "main"}

----------------------------------------------------------------------------
(* serial_tcp_proxy.py *)

\* serial_reader: data joins the buffer under the lock, then _flush_to_tcp.
SerialReader ==
    /\ pxPc["reader"] = "loop" /\ pxRead < MaxChunks
    /\ pxRead' = pxRead + 1
    /\ pxBuf' = Append(pxBuf, pxRead + 1)
    /\ pxPc' = [pxPc EXCEPT !["reader"] = "flush"]
    /\ UNCHANGED <<tcp, pxConn, pxRaced, got, br>>

AfterFlush(t) == IF t = "main" THEN "serve" ELSE "loop"

\* _flush_to_tcp: is there a connection, and anything to send?
FlushChecks(t) ==
    /\ pxPc[t] = "flush"
    /\ \E other \in ProxyThread \ {t} :
         pxRaced' = (pxRaced \/ pxPc[other] \in {"flush", "send", "clear", "fail"})
    /\ pxPc' = [pxPc EXCEPT ![t] = IF pxConn /\ pxBuf # <<>> THEN "send" ELSE AfterFlush(t)]
    /\ UNCHANGED <<tcp, pxBuf, pxRead, pxConn, got, br>>

\* sendall on what self.tcp_conn is by now.  None has no sendall, an exception that
\* nobody catches: it ends the reader's thread, or from main the process.
FlushSend(t) ==
    /\ pxPc[t] = "send"
    /\ IF ~pxConn
       THEN /\ pxPc' = [u \in ProxyThread |-> IF t \in {u, "main"} THEN "dead" ELSE pxPc[u]]
            /\ tcp' = IF t = "main" /\ tcp = "up" THEN "fin" ELSE tcp
            /\ UNCHANGED got
       ELSE /\ pxPc' = [pxPc EXCEPT ![t] = IF tcp = "up" THEN "clear" ELSE "fail"]
            /\ got' = IF tcp = "up" THEN got \o pxBuf ELSE got
            /\ UNCHANGED tcp
    /\ UNCHANGED <<pxBuf, pxRead, pxConn, pxRaced, br>>

\* It failed: the buffer and the connection are forgotten, whichever connection
\* that is by now.
FlushFails(t) ==
    /\ pxPc[t] = "fail"
    /\ pxBuf' = <<>> /\ pxConn' = FALSE
    /\ pxPc' = [pxPc EXCEPT ![t] = AfterFlush(t)]
    /\ UNCHANGED <<tcp, pxRead, pxRaced, got, br>>

\* A plausible slip: the buffer is kept after it was sent.
FlushClearKeeps(t) ==
    /\ pxPc[t] = "clear"
    /\ pxPc' = [pxPc EXCEPT ![t] = AfterFlush(t)]
    /\ UNCHANGED <<tcp, pxBuf, pxRead, pxConn, pxRaced, got, br>>

\* ... and the assignment after it: whatever is in the buffer by now is dropped.
FlushClear(t) ==
    /\ pxPc[t] = "clear"
    /\ pxBuf' = <<>>
    /\ pxPc' = [pxPc EXCEPT ![t] = AfterFlush(t)]
    /\ UNCHANGED <<tcp, pxRead, pxConn, pxRaced, got, br>>

\* main accepts a connection, and handle_tcp flushes what was buffered.
Accept ==
    /\ pxPc["main"] = "accept" /\ tcp = "up"
    /\ pxConn' = TRUE
    /\ pxPc' = [pxPc EXCEPT !["main"] = "flush"]
    /\ UNCHANGED <<tcp, pxBuf, pxRead, pxRaced, got, br>>

\* handle_tcp ends with EOF or an error; it also ends when a failed reconnection
\* of the serial port sets stop_event, and then closes the connection in order.
HandleTcpEnds ==
    /\ pxPc["main"] = "serve"
    /\ tcp' = IF tcp = "up" THEN "fin" ELSE tcp
    /\ pxConn' = FALSE
    /\ pxPc' = [pxPc EXCEPT !["main"] = "accept"]
    /\ UNCHANGED <<pxBuf, pxRead, pxRaced, got, br>>

\* The tunnel between the two breaks.
TunnelBreaks ==
    /\ tcp = "up" /\ tcp' = "rst"
    /\ UNCHANGED <<pxBuf, pxRead, pxConn, pxPc, pxRaced, got, br>>

----------------------------------------------------------------------------
(* fips_bridge.py *)

\* serial_to_udp ends when stop is set, and with an error of the connection or
\* of sendto.  An orderly close reads as no data and does not end it.
BridgeReaderEnds ==
    /\ br.t1
    /\ br.stop \/ tcp = "rst"
    /\ br' = [br EXCEPT !.t1 = FALSE]
    /\ UNCHANGED <<tcp, pxVars>>

SendToFails ==
    /\ br.t1 /\ br.stage = "run"
    /\ br' = [br EXCEPT !.t1 = FALSE]
    /\ UNCHANGED <<tcp, pxVars>>

\* udp_to_serial: recvfrom returns a datagram and it is written; or it times out.
\* The loop looks at stop in between.
BridgeWriter ==
    /\ br.t2
    /\ \E datagram \in BOOLEAN :
         /\ ~datagram => br.waited = RecvTimeout
         /\ br' = [br EXCEPT !.waited = 0,
                             !.t2 = ~br.stop /\ (datagram => tcp = "up")]
    /\ UNCHANGED <<tcp, pxVars>>

\* main: the join loop notices that a thread ended (at once, or after the 30 s
\* of t1.join when it is the other one) and stops both.
Notice ==
    /\ br.stage = "run" /\ ~(br.t1 /\ br.t2)
    /\ br' = [br EXCEPT !.stage = "join1", !.stop = TRUE, !.clock = 0]
    /\ UNCHANGED <<tcp, pxVars>>

JoinOne ==
    /\ br.stage = "join1" /\ (~br.t1 \/ br.clock >= JoinReader)
    /\ br' = [br EXCEPT !.stage = "join2", !.clock = 0]
    /\ UNCHANGED <<tcp, pxVars>>

\* After the joins the sockets are closed ...
JoinTwo ==
    /\ br.stage = "join2" /\ (~br.t2 \/ br.clock >= JoinWriter)
    /\ br' = [br EXCEPT !.stage = "open"]
    /\ tcp' = "none"
    /\ UNCHANGED pxVars

\* ... open_port connects again (or the program exits after its 40 attempts), and
\* a new round starts two new threads; a thread still alive stays beside them.
OpenPort ==
    /\ br.stage = "open" /\ br.round < MaxRounds
    /\ tcp' = "up"
    /\ br' = [stage |-> "run", round |-> br.round + 1, stop |-> FALSE, t1 |-> TRUE, t2 |-> TRUE,
              waited |-> 0, clock |-> 0, left |-> br.left \/ br.t1 \/ br.t2]
    /\ UNCHANGED pxVars

GivesUp ==
    /\ br.stage = "open"
    /\ br' = [br EXCEPT !.stage = "exit"]
    /\ UNCHANGED <<tcp, pxVars>>

\* Five seconds pass; the reader looks at stop every millisecond.
PipeTick ==
    /\ ~(br.t1 /\ br.stop)
    /\ ~br.t2 \/ br.waited < RecvTimeout
    /\ br.stage \in {"run", "join1", "join2"}
    /\ br' = [br EXCEPT !.waited = IF br.t2 THEN @ + 1 ELSE @,
                        !.clock = IF br.stage # "run" /\ @ < JoinWriter THEN @ + 1 ELSE @]
    /\ UNCHANGED <<tcp, pxVars>>

----------------------------------------------------------------------------
PipeInit ==
    /\ tcp = "none"
    /\ pxBuf = <<>> /\ pxRead = 0 /\ pxConn = FALSE /\ pxRaced = FALSE /\ got = <<>>
    /\ pxPc = [reader |-> "loop", main |-> "accept"]
    /\ br = [stage |-> "open", round |-> 0, stop |-> FALSE, t1 |-> FALSE, t2 |-> FALSE,
             waited |-> 0, clock |-> 0, left |-> FALSE]

PipeNext ==
    \/ SerialReader \/ Accept \/ HandleTcpEnds \/ TunnelBreaks
    \/ \E t \in ProxyThread : FlushChecks(t) \/ FlushSend(t) \/ FlushFails(t) \/ FlushClear(t)
    \/ BridgeReaderEnds \/ SendToFails \/ BridgeWriter
    \/ Notice \/ JoinOne \/ JoinTwo \/ OpenPort \/ GivesUp \/ PipeTick

PipeSpec == PipeInit /\ [][PipeNext]_pipeVars

\* Time passes, threads run, and the two programs' loops go on.
BridgeRuns == Notice \/ JoinOne \/ JoinTwo \/ OpenPort \/ GivesUp

PipeFairness ==
    /\ WF_pipeVars(PipeTick) /\ WF_pipeVars(BridgeReaderEnds) /\ WF_pipeVars(BridgeWriter)
    /\ WF_pipeVars(BridgeRuns)

PipeFair == PipeSpec /\ PipeFairness

----------------------------------------------------------------------------
(* Properties *)

\* "both threads stopped before reconnect" (docs/milestones.md): a new round of
\* fips_bridge.py never runs beside a thread of an earlier one, because the join
\* of the writer outlasts its receive timeout.
ThreadsStoppedFirst == ~br.left

\* As long as no flush overlapped another, what the bridge got together with
\* what the proxy still buffers has every chunk at most once and in order: a
\* lost connection loses chunks, it never repeats or reorders them.
RelayKeepsOrder ==
    ~pxRaced =>
        LET sent == \E t \in ProxyThread : pxPc[t] = "clear"
            all == IF sent THEN got ELSE got \o pxBuf
        IN  \A i, j \in 1..Len(all) : i < j => all[i] < all[j]

\* A thread of the bridge that ends leads to a new round or to the program's
\* exit: the other thread is always brought down in time.
RoundsGoOn == (br.stage = "run" /\ ~(br.t1 /\ br.t2)) ~> (br.stage \in {"open", "exit"})

\* The bytes of a connection stay in order: unless two flushes overlap, which can
\* send a chunk twice, the proxy repeats and reorders none; and no thread of an
\* earlier round writes beside the bridge's two.
BytesKeepOrder == RelayKeepsOrder /\ ThreadsStoppedFirst

=============================================================================
