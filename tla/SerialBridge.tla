---------------------------- MODULE SerialBridge ----------------------------
(***************************************************************************)
(* tools/serial_udp_bridge.py: two threads share one serial port.  "rx"    *)
(* (serial_to_udp) reads frames from the MCU, "tx" (udp_to_serial) writes   *)
(* the daemon's datagrams to it; whichever meets an I/O error closes the    *)
(* port and looks for the board again, under reconnect_lock.               *)
(*                                                                         *)
(* An open port is a number.  A thread reads self.ser once per round and    *)
(* may hold a port that the other one has closed in the meantime.  The     *)
(* reconnection of serial_tcp_proxy.py is the same code.                   *)
(***************************************************************************)
EXTENDS Naturals, FiniteSets

CONSTANTS
    MaxOpens,      \* ports ever opened (bound of the model)
    MaxTries,      \* rounds of the search for the board (240)
    MaxUnplugs     \* times the board disappears (bound of the model)

ASSUME SbAssumption ==
    MaxOpens \in Nat \ {0} /\ MaxTries \in Nat \ {0} /\ MaxUnplugs \in Nat

Thread == {"rx", "tx"}
Port == 1..MaxOpens

VARIABLES
    sbBoard,    \* whether the board is enumerated, and how often it went away
    sbSer,      \* self.ser: {} for None
    sbOpen,     \* ports whose handle is open
    sbStale,    \* ports of a board that went away: every call on them fails
    sbNext,     \* the next port to open
    sbLock,     \* reconnect_lock: the thread holding it
    sbStop,     \* stop_event
    sbBuf,      \* serial_buf: the ports whose bytes it holds
    sbThr       \* per thread: where it is, its local ser and its search count

sbVars == <<sbBoard, sbSer, sbOpen, sbStale, sbNext, sbLock, sbStop, sbBuf, sbThr>>

Usable(p) == p \in sbOpen \ sbStale

Goto(t, pc) == sbThr' = [sbThr EXCEPT ![t].pc = pc]

----------------------------------------------------------------------------
(* The board *)

BoardUnplugged ==
    /\ sbBoard.in /\ sbBoard.gone < MaxUnplugs
    /\ sbBoard' = [in |-> FALSE, gone |-> sbBoard.gone + 1]
    /\ sbStale' = sbStale \cup sbOpen
    /\ UNCHANGED <<sbSer, sbOpen, sbNext, sbLock, sbStop, sbBuf, sbThr>>

BoardBack ==
    /\ ~sbBoard.in
    /\ sbBoard' = [sbBoard EXCEPT !.in = TRUE]
    /\ UNCHANGED <<sbSer, sbOpen, sbStale, sbNext, sbLock, sbStop, sbBuf, sbThr>>

----------------------------------------------------------------------------
(* The two loops *)

\* The head of either loop: stop_event ends it; serial_to_udp takes self.ser at
\* once and sleeps when there is none.
SerialToUdpTop ==
    /\ sbThr["rx"].pc = "top"
    /\ IF sbStop THEN Goto("rx", "end")
       ELSE /\ sbSer # {}
            /\ sbThr' = [sbThr EXCEPT !["rx"].pc = "use", !["rx"].ser = sbSer]
    /\ UNCHANGED <<sbBoard, sbSer, sbOpen, sbStale, sbNext, sbLock, sbStop, sbBuf>>

\* udp_to_serial waits for a datagram and takes self.ser then; without a port
\* the datagram is dropped.
UdpToSerialTop ==
    /\ sbThr["tx"].pc = "top"
    /\ IF sbStop THEN Goto("tx", "end")
       ELSE /\ sbSer # {}
            /\ sbThr' = [sbThr EXCEPT !["tx"].pc = "use", !["tx"].ser = sbSer]
    /\ UNCHANGED <<sbBoard, sbSer, sbOpen, sbStale, sbNext, sbLock, sbStop, sbBuf>>

\* in_waiting and read, or write and flush, on the local ser.
Use(t) ==
    /\ sbThr[t].pc = "use"
    /\ \E p \in sbThr[t].ser :
         IF ~Usable(p) THEN Goto(t, "failed")
         ELSE \/ Goto(t, "top")
              \/ t = "rx" /\ Goto(t, "append")
    /\ UNCHANGED <<sbBoard, sbSer, sbOpen, sbStale, sbNext, sbLock, sbStop, sbBuf>>

\* The bytes read join serial_buf under the lock and whole frames leave it for
\* the peer; what _parse_frames leaves is a partial frame or nothing.  An
\* OSError of sendto ends in the same handler as one of the port.
Forward ==
    /\ sbThr["rx"].pc = "append"
    /\ \E rest \in {{}, sbBuf \cup sbThr["rx"].ser} : sbBuf' = rest
    /\ \E pc \in {"top", "failed"} : Goto("rx", pc)
    /\ UNCHANGED <<sbBoard, sbSer, sbOpen, sbStale, sbNext, sbLock, sbStop>>

----------------------------------------------------------------------------
(* _reconnect_serial *)

\* A plausible slip: the lock is taken without waiting for its holder.
ReconnectUnlocked(t) ==
    /\ sbThr[t].pc = "failed"
    /\ IF sbStop
       THEN Goto(t, "end") /\ UNCHANGED <<sbSer, sbOpen, sbLock, sbBuf>>
       ELSE /\ sbLock' = {t}
            /\ sbOpen' = sbOpen \ sbSer
            /\ sbSer' = {} /\ sbBuf' = {}
            /\ sbThr' = [sbThr EXCEPT ![t].pc = "search", ![t].tries = 0]
    /\ UNCHANGED <<sbBoard, sbStale, sbNext, sbStop>>

\* Under reconnect_lock: close the port, whichever it is by now, forget it and
\* the partial frame.
Reconnect(t) ==
    /\ sbThr[t].pc = "failed"
    /\ sbLock = {}
    /\ IF sbStop
       THEN Goto(t, "end") /\ UNCHANGED <<sbSer, sbOpen, sbLock, sbBuf>>
       ELSE /\ sbLock' = {t}
            /\ sbOpen' = sbOpen \ sbSer
            /\ sbSer' = {} /\ sbBuf' = {}
            /\ sbThr' = [sbThr EXCEPT ![t].pc = "search", ![t].tries = 0]
    /\ UNCHANGED <<sbBoard, sbStale, sbNext, sbStop>>

\* One round of the search: find_port and serial.Serial.  Opening may fail while
\* the board is still booting.
Found(t) ==
    /\ sbThr[t].pc = "search" /\ ~sbStop
    /\ sbBoard.in /\ sbNext \in Port
    /\ sbSer' = {sbNext} /\ sbOpen' = sbOpen \cup {sbNext} /\ sbNext' = sbNext + 1
    /\ sbBuf' = {}
    /\ sbLock' = {}
    /\ Goto(t, "top")
    /\ UNCHANGED <<sbBoard, sbStale, sbStop>>

NotFound(t) ==
    /\ sbThr[t].pc = "search" /\ ~sbStop
    /\ IF sbThr[t].tries + 1 < MaxTries
       THEN sbThr' = [sbThr EXCEPT ![t].tries = @ + 1] /\ UNCHANGED <<sbLock, sbStop>>
       ELSE Goto(t, "end") /\ sbLock' = {} /\ sbStop' = TRUE
    /\ UNCHANGED <<sbBoard, sbSer, sbOpen, sbStale, sbNext, sbBuf>>

\* A plausible slip: the early return leaves the lock taken.
SearchStoppedKeepsLock(t) ==
    /\ sbThr[t].pc = "search" /\ sbStop
    /\ Goto(t, "end")
    /\ UNCHANGED <<sbBoard, sbSer, sbOpen, sbStale, sbNext, sbLock, sbStop, sbBuf>>

SearchStopped(t) ==
    /\ sbThr[t].pc = "search" /\ sbStop
    /\ Goto(t, "end") /\ sbLock' = {}
    /\ UNCHANGED <<sbBoard, sbSer, sbOpen, sbStale, sbNext, sbStop, sbBuf>>

\* run: KeyboardInterrupt sets stop_event ...
Interrupted ==
    /\ ~sbStop /\ sbStop' = TRUE
    /\ UNCHANGED <<sbBoard, sbSer, sbOpen, sbStale, sbNext, sbLock, sbBuf, sbThr>>

\* ... and stop closes the port, whichever it is then.  The joins before it wait
\* five seconds each, so a thread may still be running.
StopBridge ==
    /\ sbStop /\ sbSer \cap sbOpen # {}
    /\ sbOpen' = sbOpen \ sbSer
    /\ UNCHANGED <<sbBoard, sbSer, sbStale, sbNext, sbLock, sbStop, sbBuf, sbThr>>

----------------------------------------------------------------------------
SbInit ==
    /\ sbBoard = [in |-> TRUE, gone |-> 0]
    /\ sbSer = {1} /\ sbOpen = {1} /\ sbStale = {} /\ sbNext = 2
    /\ sbLock = {} /\ sbStop = FALSE /\ sbBuf = {}
    /\ sbThr = [t \in Thread |-> [pc |-> "top", ser |-> {}, tries |-> 0]]

SbNext ==
    \/ BoardUnplugged \/ BoardBack \/ Interrupted \/ StopBridge
    \/ SerialToUdpTop \/ UdpToSerialTop \/ Forward
    \/ \E t \in Thread :
         Use(t) \/ Reconnect(t) \/ Found(t) \/ NotFound(t) \/ SearchStopped(t)

SbSpec == SbInit /\ [][SbNext]_sbVars

\* Both threads run, the operating system grants the lock, and a search that
\* goes on ends (by finding the board or by running out of rounds).  Nothing is
\* assumed about the board, about datagrams or about the operator.
ThreadRuns(t) ==
    \/ t = "rx" /\ (SerialToUdpTop \/ Forward)
    \/ t = "tx" /\ sbStop /\ UdpToSerialTop
    \/ Use(t) \/ NotFound(t) \/ SearchStopped(t)

SbFairness == \A t \in Thread : WF_sbVars(ThreadRuns(t)) /\ SF_sbVars(Reconnect(t))

SbFair == SbSpec /\ SbFairness

----------------------------------------------------------------------------
(* Properties *)

\* The bridge never has two handles on the board, and while a thread looks for
\* it there is none: both threads may be in _reconnect_serial at once, and
\* whoever comes second closes what the first one opened before it opens again.
OneHandle ==
    /\ Cardinality(sbOpen) <= 1
    /\ \A t \in Thread : sbThr[t].pc = "search" => sbOpen = {} /\ sbLock = {t}

\* Once stop_event is set (the board stayed away too long, or an interrupt) both
\* threads end: neither waits for the other, or for the lock, for ever.
BridgeEnds == sbStop ~> (\A t \in Thread : sbThr[t].pc = "end")

\* "reconnect automatically on serial port failure" (README.md): the search for the
\* board comes to an end, with a port again or with the bridge stopped, whatever the
\* two threads do to each other's ports.
PortComesBack == (sbSer = {}) ~> (sbStop \/ sbSer # {})

=============================================================================
