------------------------------- MODULE Framing ------------------------------
(***************************************************************************)
(* Framing of the byte stream and of datagrams: FrameWriter, FrameReader   *)
(* and the readers of Node (recv_frame_length_prefixed, recv_frame_raw and *)
(* the receive branch of steady), with the extraction functions and        *)
(* framing::compact.                                                       *)
(*                                                                         *)
(* One sender writes frames; a serial line or TCP connection carries the   *)
(* bytes in order and cuts them into chunks wherever it likes, or a        *)
(* datagram transport carries whole datagrams and loses some.  One reader  *)
(* of the given kind reads them.  A byte is a number below Base; the       *)
(* length prefix is two bytes, least significant first.  Sizes are         *)
(* parameters, so that small ones keep their relation to each other.       *)
(***************************************************************************)
EXTENDS Naturals, Sequences, SequencesExt

CONSTANTS
    Base,         \* values of a byte (256)
    MaxFrame,     \* framing::MAX_FRAME (1500)
    BufSize,      \* MAX_FRAME_SIZE, the size of rbuf (2048)
    ReaderChunk,  \* what FrameReader asks of recv (256)
    NodeChunk,    \* RECV_BUF_SIZE, what Node asks of recv (1500)
    Msg1Size,     \* MSG1_WIRE_SIZE
    Msg2Size,     \* MSG2_WIRE_SIZE, without a negotiation payload
    SealedSize,   \* ESTABLISHED_HEADER_SIZE + TAG_SIZE
    Readers,      \* the readers a run looks at
    FrameSizes,   \* sizes of the frames sent on a stream
    BadHeaders,   \* length fields of headers with no frame behind them
    Datagrams,    \* what a datagram transport may deliver
    MaxHeaders,   \* bound: frames and bad headers sent on a stream
    MaxSent       \* bound: datagrams sent

(* CommonPrefix is four bytes: a phase, flags and a two-byte length; here  *)
(* the phase and the length are one byte each.                             *)
PrefixSize == 2

ASSUME FramingAssumption ==
    /\ MaxFrame \in Nat \ {0} /\ BufSize \in Nat
    /\ Base \in Nat /\ Base > MaxFrame
    /\ ReaderChunk \in Nat \ {0} /\ NodeChunk \in Nat \ {0}
    /\ BufSize >= MaxFrame + 1 + ReaderChunk
    /\ Readers \subseteq {"FrameReader", "recv_frame", "steady", "raw"}
    /\ FrameSizes \subseteq 1 .. MaxFrame
    /\ BadHeaders \subseteq {0} \cup (MaxFrame + 1 .. Base * Base - 1)
    /\ Datagrams \subseteq Seq(0 .. Base - 1)
    /\ MaxHeaders \in Nat /\ MaxSent \in Nat

VARIABLES
    reader,   \* which reader this is
    wire,     \* bytes, or datagrams, on their way
    rbuf,     \* rbuf[1 .. rlen]; what lies beyond is never read
    rpos,     \* index of the first unread byte, counted from 0
    at,       \* "scan": looking for a frame, "recv": awaiting the transport
    sent,     \* history: payloads of the frames sent
    got,      \* history: frames handed on
    bad,      \* history: bad headers sent
    lost      \* history: what was thrown away, a "chunk" or the unread "backlog"

frVars == <<reader, wire, rbuf, rpos, at, sent, got, bad, lost>>

rlen == Len(rbuf)
Avail == rlen - rpos
Chunk(r) == IF r = "FrameReader" THEN ReaderChunk ELSE NodeChunk

FrInit ==
    /\ reader \in Readers
    /\ wire = <<>> /\ rbuf = <<>> /\ rpos = 0 /\ at = "scan"
    /\ sent = <<>> /\ got = <<>> /\ bad = 0 /\ lost = {}

-----------------------------------------------------------------------------
(* send_frame: the header, then the payload.  The payload of the k-th      *)
(* frame consists of the byte k.                                           *)
Header(n) == <<n % Base, n \div Base>>
Payload(k, n) == [i \in 1 .. n |-> k]

SendFrame(n) ==
    /\ reader # "raw" /\ Len(sent) + bad < MaxHeaders
    /\ LET p == Payload(Len(sent) + 1, n) IN
       /\ wire' = wire \o Header(n) \o p
       /\ sent' = Append(sent, p)
    /\ UNCHANGED <<reader, rbuf, rpos, at, got, bad, lost>>

(* An empty payload leaves a bare header, and so does a line that lost the *)
(* rest of a frame with an impossible length.                              *)
SendBadHeader(n) ==
    /\ reader # "raw" /\ Len(sent) + bad < MaxHeaders
    /\ wire' = wire \o Header(n)
    /\ bad' = bad + 1
    /\ UNCHANGED <<reader, rbuf, rpos, at, sent, got, lost>>

(* On a datagram transport the frame is the datagram.                      *)
SendDatagram(d) ==
    /\ reader = "raw" /\ Len(sent) < MaxSent
    /\ wire' = Append(wire, d)
    /\ sent' = Append(sent, d)
    /\ UNCHANGED <<reader, rbuf, rpos, at, got, bad, lost>>

-----------------------------------------------------------------------------
(* Extraction: a set with the frame and the position after it, or nothing. *)
Byte(i) == rbuf[i + 1]
Between(s, e) == SubSeq(rbuf, s + 1, e)

(* extract_length_prefixed_frame; an invalid length is skipped, and given  *)
(* as an empty frame.  FrameReader has the same code in line.              *)
LengthField == Byte(rpos) + Base * Byte(rpos + 1)

ExtractLengthPrefixed ==
    IF Avail < 2 THEN {}
    ELSE LET ml == LengthField IN
         IF ml = 0 \/ ml > MaxFrame
         THEN {[frame |-> <<>>, pos |-> rpos + 2]}
         ELSE IF Avail - 2 < ml THEN {}
         ELSE {[frame |-> Between(rpos + 2, rpos + 2 + ml),
                pos |-> rpos + 2 + ml]}

(* fmp_raw_frame_size and handshake_frame_size; phases 1 to 3 are the      *)
(* handshake messages, phase 0 an established frame.                       *)
RawFrameSize ==
    LET phase == Byte(rpos)
        total == PrefixSize + Byte(rpos + 1) IN
    IF phase = 1 THEN IF Avail < Msg1Size THEN {} ELSE {Msg1Size}
    ELSE IF phase \in {2, 3} /\ total >= Msg2Size /\ total <= Avail
            /\ total <= MaxFrame THEN {total}
    ELSE {}

(* extract_raw_frame                                                       *)
ExtractRaw ==
    IF Avail < PrefixSize THEN {}
    ELSE IF RawFrameSize # {}
    THEN {[frame |-> Between(rpos, rpos + n), pos |-> rpos + n] :
            n \in RawFrameSize}
    ELSE IF Byte(rpos) = 0 /\ Avail >= SealedSize
    THEN {[frame |-> Between(rpos, rlen), pos |-> rlen]}
    ELSE {}

Extract ==
    IF reader = "raw" THEN ExtractRaw ELSE ExtractLengthPrefixed

-----------------------------------------------------------------------------
(* One round of a reader's loop: take the next frame ...                   *)
MoveTo(p) ==
    /\ rbuf' = IF p >= rlen THEN <<>> ELSE rbuf
    /\ rpos' = IF p >= rlen THEN 0 ELSE p

TakeFrame ==
    /\ at = "scan"
    /\ \E x \in Extract :
         /\ x.frame # <<>>
         /\ MoveTo(x.pos)
         /\ got' = Append(got, x.frame)
    /\ UNCHANGED <<reader, wire, at, sent, bad, lost>>

(* ... or skip an invalid header; FrameReader then goes on without         *)
(* noticing that the buffer has been used up ...                           *)
SkipHeader ==
    /\ at = "scan"
    /\ \E x \in Extract :
         /\ x.frame = <<>>
         /\ IF reader = "FrameReader" THEN rpos' = x.pos /\ UNCHANGED rbuf
            ELSE MoveTo(x.pos)
    /\ UNCHANGED <<reader, wire, at, sent, got, bad, lost>>

(* ... or, when there is none, make room and wait for the transport.       *)
(* framing::compact is called by every reader but steady().                *)
Compacts == reader # "steady" /\ rpos > 0 /\ rpos < rlen

(* A plausible slip: the bytes are moved and rpos is not.                   *)
NeedMoreKeepsRpos ==
    /\ at = "scan" /\ Extract = {}
    /\ at' = "recv"
    /\ rbuf' = IF Compacts THEN Between(rpos, rlen) ELSE rbuf
    /\ UNCHANGED <<reader, wire, rpos, sent, got, bad, lost>>

NeedMore ==
    /\ at = "scan" /\ Extract = {}
    /\ at' = "recv"
    /\ rbuf' = IF Compacts THEN Between(rpos, rlen) ELSE rbuf
    /\ rpos' = IF Compacts THEN 0 ELSE rpos
    /\ UNCHANGED <<reader, wire, sent, got, bad, lost>>

(* recv returns n bytes of the stream: they are appended, or, when they do *)
(* not fit, everything is thrown away.                                     *)
Overflows(n) == rlen + n > BufSize
Unread == IF rpos < rlen THEN {"backlog"} ELSE {}
Discarded(n) == IF Overflows(n) THEN {"chunk"} \cup Unread ELSE {}

ReceiveChunk(n) ==
    /\ reader # "raw" /\ at = "recv"
    /\ n \in 1 .. Chunk(reader) /\ n <= Len(wire)
    /\ wire' = SubSeq(wire, n + 1, Len(wire))
    /\ rbuf' = IF Overflows(n) THEN <<>> ELSE rbuf \o SubSeq(wire, 1, n)
    /\ rpos' = IF Overflows(n) THEN 0 ELSE rpos
    /\ lost' = lost \cup Discarded(n)
    /\ at' = "scan"
    /\ UNCHANGED <<reader, sent, got, bad>>

(* recv returns a datagram: it replaces the buffer (fips#154).             *)
ReceiveDatagram ==
    /\ reader = "raw" /\ at = "recv" /\ wire # <<>>
    /\ wire' = Tail(wire)
    /\ rbuf' = Head(wire) /\ rpos' = 0
    /\ at' = "scan"
    /\ UNCHANGED <<reader, sent, got, bad, lost>>

(* A plausible slip: a reader that times out starts with an empty buffer.   *)
RecvTimeoutClears ==
    /\ at = "recv" /\ at' = "scan"
    /\ rbuf' = <<>> /\ rpos' = 0
    /\ UNCHANGED <<reader, wire, sent, got, bad, lost>>

(* The Timer wins: the reader returns Timeout, or steady() does its timer   *)
(* work, and starts again with the buffer as it is.                        *)
RecvTimeout ==
    /\ at = "recv" /\ at' = "scan"
    /\ UNCHANGED <<reader, wire, rbuf, rpos, sent, got, bad, lost>>

LoseDatagram ==
    /\ reader = "raw" /\ wire # <<>>
    /\ wire' = Tail(wire)
    /\ UNCHANGED <<reader, rbuf, rpos, at, sent, got, bad, lost>>

(* session(): the handshake is over and steady() starts with rpos = rlen   *)
(* = 0, whatever was still buffered behind the last handshake message.     *)
EnterSteady ==
    /\ reader = "recv_frame" /\ at = "scan" /\ got # <<>>
    /\ reader' = "steady"
    /\ rbuf' = <<>> /\ rpos' = 0
    /\ lost' = lost \cup Unread
    /\ UNCHANGED <<wire, at, sent, got, bad>>

Scan == TakeFrame \/ SkipHeader \/ NeedMore
Receive == ReceiveDatagram \/ \E n \in 1 .. NodeChunk : ReceiveChunk(n)

FrNext ==
    \/ \E n \in FrameSizes : SendFrame(n)
    \/ \E n \in BadHeaders : SendBadHeader(n)
    \/ \E d \in Datagrams : SendDatagram(d)
    \/ Scan
    \/ Receive
    \/ RecvTimeout
    \/ LoseDatagram
    \/ EnterSteady

FrSpec == FrInit /\ [][FrNext]_frVars

(* The reader runs, and a transport that has something to deliver does not *)
(* lose the race against the Timer for ever.                               *)
FrFairness == WF_frVars(Scan) /\ SF_frVars(Receive)
FrFair == FrSpec /\ FrFairness

-----------------------------------------------------------------------------

(* The length-prefixed readers hand on exactly the frames that were sent,  *)
(* in order, however the stream was cut and whatever bad headers came in   *)
(* between, as long as nothing was thrown away.  FrameReader never throws  *)
(* away bytes it has not looked at: after compact an unfinished frame and  *)
(* one more chunk always fit.  It does throw away a whole arriving chunk   *)
(* once skipped headers, which it does not compact away when they end the  *)
(* buffer, have filled it; without bad headers it throws away nothing.     *)
FramesInOrder ==
    /\ reader # "raw" /\ lost = {} => IsPrefix(got, sent)
    /\ reader = "FrameReader" =>
         /\ "backlog" \notin lost
         /\ lost # {} => bad > 0

(* A well-formed datagram of the FMP wire format.                          *)
WellFormed(d) ==
    \/ Len(d) = Msg1Size /\ d[1] = 1
    \/ Len(d) \in Msg2Size .. MaxFrame /\ d[1] \in {2, 3}
       /\ d[2] = Len(d) - PrefixSize
    \/ Len(d) >= SealedSize /\ d[1] = 0

(* In raw framing what came before never shifts a frame: when a well-      *)
(* formed datagram has arrived, the next thing handed on is that datagram, *)
(* entire, junk before it or not (the starvation of fips#154).             *)
DatagramsStayWhole ==
    [][ReceiveDatagram /\ WellFormed(Head(wire)) =>
         Extract' = {[frame |-> Head(wire), pos |-> Len(Head(wire))]}]_frVars

(* Every frame sent to a FrameReader is handed on in the end, also behind  *)
(* bad headers, unless a chunk was thrown away on the way.                 *)
AllHandedOn ==
    \A k \in 1 .. MaxHeaders :
      (reader = "FrameReader" /\ Len(sent) >= k) ~> (Len(got) >= k \/ lost # {})

(* No frame starves: neither behind junk in raw framing nor in the buffer  *)
(* of a FrameReader.                                                       *)
NoFrameStarves == DatagramsStayWhole /\ AllHandedOn

=============================================================================
