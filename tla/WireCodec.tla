------------------------------ MODULE WireCodec -----------------------------
(***************************************************************************)
(* The codecs of both protocol layers: FMP frames (fips-fmp lib.rs), the    *)
(* negotiation payload of the XX wire (negotiation.rs, with                 *)
(* apply_fmp_negotiation of node.rs) and FSP messages (fsp.rs).             *)
(*                                                                         *)
(* A behaviour builds one message, which a transport may then cut short or  *)
(* pad; what every parser makes of the bytes is the subject of the          *)
(* properties.  Sizes and byte layouts are the real ones.  A parser's       *)
(* result is a set: empty for None or Err.                                  *)
(***************************************************************************)
EXTENDS Naturals, Sequences, SequencesExt

CONSTANTS
    FmpVersion,   \* FMP_VERSION: 0 on the IK wire, 1 on the XX wire
    NoiseSizes,   \* sizes of the three base handshake messages
    Extras,       \* sizes of an appended negotiation payload
    Rooms,        \* sizes of the output buffer
    Sums,         \* checksums of an echo request
    Blocks,       \* negotiation payloads built by a peer
    MaxTrail      \* bytes of padding after a message

ASSUME WcAssumption ==
    /\ FmpVersion \in {0, 1} /\ NoiseSizes \in [1..3 -> Nat]
    /\ Extras \subseteq Nat /\ Rooms \subseteq Nat /\ MaxTrail \in Nat

VARIABLES
    msg,     \* the message
    bytes,   \* its bytes; the empty set when the buffer was too small
    state    \* "new", "built", "cut", "padded"

wcVars == <<msg, bytes, state>>

----------------------------------------------------------------------------
(* Bytes.  An offset counts from zero, as in the code. *)

Le(n, w) ==
    LET rest[i \in 1..w] == IF i = 1 THEN n ELSE rest[i - 1] \div 256
    IN  [i \in 1..w |-> rest[i] % 256]
Val(s) == FoldRight(LAMBDA b, acc : b + 256 * acc, s, 0)
Slice(s, at, n) == SubSeq(s, at + 1, at + n)
From(s, at) == SubSeq(s, at + 1, Len(s))
U16(s, at) == Val(Slice(s, at, 2))
Filler(n) == [i \in 1..n |-> 7]

\* out.len() < needed
Fit(s, room) == IF Len(s) <= room THEN {s} ELSE {}

\* The AEAD seals n bytes into n + 16 and opens them again.
TagSize == 16
SealBytes(s) == s \o Filler(TagSize)
OpenBytes(s) == IF Len(s) < TagSize THEN {} ELSE {SubSeq(s, 1, Len(s) - TagSize)}

----------------------------------------------------------------------------
(* FMP *)

BuildPrefix(phase, flags, n) == <<FmpVersion * 16 + phase, flags>> \o Le(n, 2)

ParsePrefix(d) ==
    IF Len(d) < 4 \/ d[1] \div 16 # FmpVersion THEN {}
    ELSE {[phase |-> d[1] % 16, flags |-> d[2], len |-> U16(d, 2)]}

BuildMsg1(sender, noise) ==
    BuildPrefix(1, 0, 4 + Len(noise)) \o Le(sender, 4) \o noise

BuildMsg2(sender, receiver, noise) ==
    BuildPrefix(2, 0, 8 + Len(noise)) \o Le(sender, 4) \o Le(receiver, 4) \o noise

BuildMsg3(sender, receiver, noise) ==
    BuildPrefix(3, 0, 8 + Len(noise)) \o Le(sender, 4) \o Le(receiver, 4) \o noise

PrependInnerHeader(ts, payload) == Le(ts, 4) \o payload

StripInnerHeader(p) ==
    IF Len(p) < 5 THEN {} ELSE {[ts |-> Val(Slice(p, 0, 4)), rest |-> From(p, 4)]}

BuildEstablishedHeader(receiver, counter, flags, n) ==
    BuildPrefix(0, flags, n) \o Le(receiver, 4) \o Le(counter, 8)

EncryptAndAssemble(receiver, counter, flags, inner) ==
    BuildEstablishedHeader(receiver, counter, flags, Len(inner)) \o SealBytes(inner)

\* Fields between the prefix and the rest, by phase.
FixedFields == <<12, 4, 8, 8>>

\* parse_message: payload_len and flags are not looked at.
ParseMessage(d) ==
    {[phase |-> p.phase, a |-> Val(Slice(d, 4, 4)),
      b |-> Val(Slice(d, 8, FixedFields[p.phase + 1] - 4)),
      rest |-> From(d, 4 + FixedFields[p.phase + 1])] :
        p \in {q \in ParsePrefix(d) :
                 q.phase \in 0..3 /\ Len(d) >= 4 + FixedFields[q.phase + 1]}}

\* Msg1Header::parse and its siblings: exact or least size, and no flags; the
\* phase is the caller's business.
Msg1HeaderParse(d) ==
    {Val(Slice(d, 4, 4)) :
        p \in {q \in ParsePrefix(d) : q.flags = 0 /\ Len(d) = 8 + NoiseSizes[1]}}

Msg2HeaderParse(d) ==
    {<<Val(Slice(d, 4, 4)), Val(Slice(d, 8, 4))>> :
        p \in {q \in ParsePrefix(d) : q.flags = 0 /\ Len(d) >= 12 + NoiseSizes[2]}}

Msg3HeaderParse(d) ==
    {<<Val(Slice(d, 4, 4)), Val(Slice(d, 8, 4))>> :
        p \in {q \in ParsePrefix(d) : q.flags = 0 /\ Len(d) >= 12 + NoiseSizes[3]}}

----------------------------------------------------------------------------
(* Negotiation payload *)

\* NodeProfile and the bits a profile advertises; the low three bits are the
\* profile, then provides SR, provides RR, wants SR, wants RR.
FmpFeatures(profile) ==
    profile + CASE profile = 0 -> 8 + 16 + 32 + 64
                [] profile = 1 -> 8 + 16 + 64
                [] profile = 2 -> 16

\* encode_payload, whose only field is the rekey marker, and a daemon's payload,
\* which may have others.
EncodePayload(lo, hi, features, tlvs) ==
    <<0, lo * 16 + hi>> \o Le(features, 8)
        \o FlattenSeq([i \in 1..Len(tlvs) |->
              Le(tlvs[i].num, 2) \o Le(Len(tlvs[i].value), 2) \o tlvs[i].value])

HeaderParse(d) ==
    IF Len(d) < 10 \/ d[1] # 0 \/ d[2] \div 16 > d[2] % 16 THEN {}
    ELSE {[lo |-> d[2] \div 16, hi |-> d[2] % 16, features |-> Val(Slice(d, 2, 8))]}

\* A plausible slip: only our own minimum is checked.
AgreeVersionOneSided(ours, theirs) ==
    LET agreed == IF ours.hi < theirs.hi THEN ours.hi ELSE theirs.hi
    IN  IF agreed < ours.lo THEN {} ELSE {agreed}

AgreeVersion(ours, theirs) ==
    LET agreed == IF ours.hi < theirs.hi THEN ours.hi ELSE theirs.hi
    IN  IF agreed < ours.lo \/ agreed < theirs.lo THEN {} ELSE {agreed}

\* find_tlv as a walk: walk[at] is where the field at offset at leads: found,
\* the end, an error, or the next field.
FindTlv(d, num) ==
    LET walk[at \in 0..Len(d)] ==
          IF at = Len(d) THEN [ok |-> TRUE, value |-> {}]
          ELSE IF Len(d) - at < 4 THEN [ok |-> FALSE, value |-> {}]
          ELSE LET n == U16(d, at + 2)
               IN  IF at + 4 + n > Len(d) THEN [ok |-> FALSE, value |-> {}]
                   ELSE IF U16(d, at) = num
                        THEN [ok |-> TRUE, value |-> {Slice(d, at + 4, n)}]
                        ELSE walk[at + 4 + n]
    IN  IF Len(d) < 10 THEN [ok |-> FALSE, value |-> {}] ELSE walk[10]

RekeyOf(d) ==
    LET found == FindTlv(d, 1)
    IN  [ok |-> found.ok /\ \A v \in found.value : Len(v) = 4,
         idx |-> {Val(v) : v \in found.value}]

\* apply_fmp_negotiation of a node with the given version range and profile: what
\* it records, or nothing.
ApplyFmpNegotiation(lo, hi, profile, d) ==
    {[version |-> v, peer |-> h.features % 8,
      sr |-> (h.features \div 32) % 2 = 1, rr |-> (h.features \div 64) % 2 = 1] :
        <<h, v>> \in {<<t, u>> \in HeaderParse(d) \X (0..15) :
           /\ u \in AgreeVersion([lo |-> lo, hi |-> hi], t)
           /\ t.features % 8 \in 0..2
           /\ profile = 0 \/ t.features % 8 = 0}}

\* split_msg2_noise and split_msg3_noise
SplitHandshakeNoise(payload, base) ==
    IF Len(payload) > base
    THEN [base |-> SubSeq(payload, 1, base), extra |-> {From(payload, base)}]
    ELSE [base |-> payload, extra |-> {}]

----------------------------------------------------------------------------
(* FSP *)

AddrSize == 16

FspPrefix(phase, flags, n) == <<phase, flags>> \o Le(n, 2)
Coords(addrs) == Le(Len(addrs), 2) \o FlattenSeq(addrs)
Sized(s) == Le(Len(s), 2) \o s

SetupBody(flags, src, dst, hs) == <<flags>> \o Coords(src) \o Coords(dst) \o Sized(hs)

BuildSessionSetup(flags, src, dst, hs) ==
    LET body == SetupBody(flags, src, dst, hs)
    IN  FspPrefix(1, 0, Len(body)) \o body

BuildSessionAck(src, dst, hs) ==
    LET body == SetupBody(0, src, dst, hs)
    IN  FspPrefix(2, 0, Len(body)) \o body

BuildSessionMsg3(hs) == FspPrefix(3, 0, 3 + Len(hs)) \o <<0>> \o Sized(hs)

\* What the three parsers have in common: version and phase, and the body that
\* payload_len delimits.
FspBody(d, phase) ==
    IF Len(d) < 4 \/ d[1] # phase \/ Len(d) - 4 < U16(d, 2) THEN {}
    ELSE {Slice(d, 4, U16(d, 2))}

\* The handshake bytes that follow the flags and two lists of coordinates.
AfterCoords(body) ==
    LET dst == 3 + AddrSize * U16(body, 1)
        hs == dst + 2 + AddrSize * U16(body, dst)
    IN  IF Len(body) < dst \/ Len(body) < hs + 2 \/ Len(body) < hs + 2 + U16(body, hs) THEN {}
        ELSE {Slice(body, hs + 2, U16(body, hs))}

ParseSessionSetupFull(d) ==
    UNION {{[flags |-> b[1], src |-> Slice(b, 3, AddrSize), hs |-> h] : h \in AfterCoords(b)} :
             b \in {x \in FspBody(d, 1) : Len(x) >= 3 + AddrSize /\ U16(x, 1) # 0}}

ParseSessionAck(d) == UNION {AfterCoords(b) : b \in FspBody(d, 2) \ {<<>>}}

ParseSessionMsg3(d) ==
    {Slice(b, 3, U16(b, 1)) :
        b \in {x \in FspBody(d, 3) : Len(x) >= 3 /\ Len(x) >= 3 + U16(x, 1)}}

\* FspDatagram: what a data message carries.
FspDatagramSerialize(src, dst, payload) == Le(src, 2) \o Le(dst, 2) \o payload

FspDatagramParse(d) ==
    IF Len(d) < 4 THEN {}
    ELSE {[src |-> U16(d, 0), dst |-> U16(d, 2), payload |-> From(d, 4)]}

\* One's complement arithmetic on 16-bit words, and the words of a byte string.
Carry(n) == LET once == (n % 65536) + (n \div 65536) IN (once % 65536) + (once \div 65536)
Be(n) == <<n \div 256, n % 256>>
Word(s, at) == 256 * s[at + 1] + s[at + 2]

ChecksumUpdate(hc, old, new) == 65535 - Carry((65535 - hc) + (65535 - old) + new)

\* icmpv6_echo_reply: ports swapped, hop limit 64, type 129, checksum updated;
\* nothing for what is no echo request on port 256 or does not fit.
IcmpEchoReply(d, room) ==
    IF \/ Len(d) < 19 \/ room < Len(d) \/ U16(d, 2) # 256
       \/ d[5] # 0 \/ d[6] \div 16 # 6 \/ d[10] # 58
       \/ d[12] # 128 \/ d[13] # 0
    THEN {}
    ELSE {Slice(d, 2, 2) \o Slice(d, 0, 2) \o Slice(d, 4, 6) \o <<64, 129, 0>>
            \o Be(ChecksumUpdate(Word(d, 13), 32768, 33024)) \o From(d, 15)}

BuildFspHeader(counter, flags, n) == FspPrefix(0, flags, n) \o Le(counter, 8)
FspPrependInnerHeader(ts, type, flags, payload) == Le(ts, 4) \o <<type, flags>> \o payload

FspStripInnerHeader(p) ==
    IF Len(p) < 6 THEN {}
    ELSE {[ts |-> Val(Slice(p, 0, 4)), type |-> p[5], flags |-> p[6], payload |-> From(p, 6)]}

\* build_fsp_data_message: the inner message and the ciphertext each have a
\* 512-byte buffer of their own.
BuildFspDataMessage(counter, ts, payload) ==
    LET inner == FspPrependInnerHeader(ts, 16, 0, payload)
    IN  IF Len(inner) + TagSize > 512 THEN {}
        ELSE {BuildFspHeader(counter, 0, Len(inner) + TagSize) \o SealBytes(inner)}

\* A daemon's message that carries coordinates in the clear between header and
\* ciphertext.
PeerDataMessage(counter, ts, payload, src, dst) ==
    LET inner == FspPrependInnerHeader(ts, 16, 0, payload)
    IN  BuildFspHeader(counter, 1, Len(inner) + TagSize) \o Coords(src) \o Coords(dst)
            \o SealBytes(inner)

\* A plausible slip: the destination's coordinates are not skipped.
SkipCoordsHalf(rest) ==
    IF Len(rest) < 2 THEN {}
    ELSE LET src == 2 + AddrSize * U16(rest, 0)
         IN  IF Len(rest) < src + 2 THEN {} ELSE {From(rest, src + 2)}

\* What follows the coordinates, if there is room for them.
SkipCoords(rest) ==
    IF Len(rest) < 2 THEN {}
    ELSE LET src == 2 + AddrSize * U16(rest, 0)
         IN  IF Len(rest) < src + 2 THEN {}
             ELSE LET dst == src + 2 + AddrSize * U16(rest, src)
                  IN  IF Len(rest) < dst THEN {} ELSE {From(rest, dst)}

ParseFspEncryptedHeader(d) ==
    IF Len(d) < 28 \/ d[1] # 0 THEN {}
    ELSE {[flags |-> d[2], counter |-> Val(Slice(d, 4, 8)), rest |-> r] :
            r \in IF d[2] % 2 = 1 THEN SkipCoords(From(d, 12)) ELSE {From(d, 12)}}

----------------------------------------------------------------------------
(* Behaviour *)

Addr(n) == [i \in 1..AddrSize |-> n]
Messages ==
    [kind : {"msg1"}, a : {1, 258}, extra : {0}]
    \cup [kind : {"msg2", "msg3"}, a : {1, 258}, b : {2, 65535}, extra : Extras]
    \cup [kind : {"frame"}, a : {1, 258}, b : {0, 300}, ts : {5, 70000}, size : {1, 40}]
    \cup [kind : {"setup", "ack"}, src : {<<Addr(1)>>, <<Addr(1), Addr(2)>>},
          dst : {<<Addr(3)>>, <<Addr(3), Addr(4)>>}, hs : {NoiseSizes[1], NoiseSizes[2]}]
    \cup [kind : {"smsg3"}, hs : {NoiseSizes[3]}]
    \cup [kind : {"data"}, b : {0, 300}, ts : {5, 70000}, size : {0, 4, 480}]
    \cup [kind : {"peerdata"}, b : {0, 300}, src : {<<>>, <<Addr(1)>>}, dst : {<<Addr(3), Addr(4)>>}]
    \cup [kind : {"ping"}, sum : Sums, size : {4, 8}]
    \cup [kind : {"block"}, lo : {0, 1, 2}, hi : {1, 2, 3}, profile : {0, 1, 2}, tlvs : Blocks]

Phase(m) == CASE m.kind = "msg1" -> 1 [] m.kind = "msg2" -> 2 [] m.kind = "msg3" -> 3 [] m.kind = "frame" -> 0
Noise(m) == Filler(NoiseSizes[Phase(m)] + m.extra)

\* A daemon's echo request on port 256: compressed header, type, code, checksum c
\* and the n bytes that follow.
Ping(n, c) ==
    FspDatagramSerialize(256, 256, <<0, 96, 3, 211, 235, 58, 63, 128, 0>> \o Be(c) \o Filler(n))

Encode(m, room) ==
    CASE m.kind = "msg1" -> Fit(BuildMsg1(m.a, Noise(m)), room)
      [] m.kind = "msg2" -> Fit(BuildMsg2(m.a, m.b, Noise(m)), room)
      [] m.kind = "msg3" -> Fit(BuildMsg3(m.a, m.b, Noise(m)), room)
      [] m.kind = "frame" ->
           Fit(EncryptAndAssemble(m.a, m.b, 0, PrependInnerHeader(m.ts, Filler(m.size))), room)
      [] m.kind = "setup" -> Fit(BuildSessionSetup(0, m.src, m.dst, Filler(m.hs)), room)
      [] m.kind = "ack" -> Fit(BuildSessionAck(m.src, m.dst, Filler(m.hs)), room)
      [] m.kind = "smsg3" -> Fit(BuildSessionMsg3(Filler(m.hs)), room)
      [] m.kind = "data" -> UNION {Fit(d, room) : d \in BuildFspDataMessage(m.b, m.ts, Ping(m.size, m.b))}
      [] m.kind = "peerdata" -> {PeerDataMessage(m.b, 5, Ping(4, m.b), m.src, m.dst)}
      [] m.kind = "ping" -> {Ping(m.size, m.sum)}
      [] m.kind = "block" -> Fit(EncodePayload(m.lo, m.hi, FmpFeatures(m.profile), m.tlvs), room)

WcInit == msg \in Messages /\ bytes = {} /\ state = "new"

BuildMessage ==
    /\ state = "new"
    /\ \E room \in Rooms : bytes' = Encode(msg, room)
    /\ state' = "built"
    /\ UNCHANGED msg

\* Bytes are lost at the end ...
CutShort ==
    /\ state = "built"
    /\ \E s \in bytes : \E n \in 0..(Len(s) - 1) : bytes' = {SubSeq(s, 1, n)}
    /\ state' = "cut"
    /\ UNCHANGED msg

\* ... or follow the message in the same datagram.
Pad ==
    /\ state = "built"
    /\ \E s \in bytes : \E n \in 1..MaxTrail : bytes' = {s \o Filler(n)}
    /\ state' = "padded"
    /\ UNCHANGED msg

WcNext == BuildMessage \/ CutShort \/ Pad

WcSpec == WcInit /\ [][WcNext]_wcVars

----------------------------------------------------------------------------
(* Properties *)

\* What one side builds the other side reads back: indices, counters, coordinates,
\* timestamps and payloads, through both headers of a sealed message; also with
\* padding where payload_len delimits the message.
ReadsBack ==
    \A s \in bytes :
        /\ state = "built" =>
             /\ msg.kind \in {"msg2", "msg3"} =>
                  \E p \in ParseMessage(s) :
                     /\ p.phase = Phase(msg)
                     /\ p.a = msg.a /\ p.b = msg.b /\ p.rest = Noise(msg)
                     /\ LET base == NoiseSizes[p.phase]
                            split == SplitHandshakeNoise(p.rest, base)
                        IN  Len(split.base) = base /\ (split.extra = {} <=> msg.extra = 0)
             /\ msg.kind = "msg1" =>
                  \E p \in ParseMessage(s) : p.phase = 1 /\ p.a = msg.a /\ p.rest = Noise(msg)
             /\ msg.kind = "frame" =>
                  \E p \in ParseMessage(s) : \E o \in OpenBytes(p.rest) : \E i \in StripInnerHeader(o) :
                     p.phase = 0 /\ p.a = msg.a /\ p.b = msg.b /\ i.ts = msg.ts /\ i.rest = Filler(msg.size)
             /\ msg.kind \in {"data", "peerdata"} =>
                  \E p \in ParseFspEncryptedHeader(s) : \E o \in OpenBytes(p.rest) :
                     \E i \in FspStripInnerHeader(o) :
                        /\ p.counter = msg.b /\ i.type = 16
                        /\ \E g \in FspDatagramParse(i.payload) :
                              /\ g.src = 256 /\ g.dst = 256
                              /\ Len(g.payload) = 11 + (IF msg.kind = "data" THEN msg.size ELSE 4)
        /\ state # "cut" =>
             /\ msg.kind = "setup" => ParseSessionSetupFull(s) =
                  {[flags |-> 0, src |-> msg.src[1], hs |-> Filler(msg.hs)]}
             /\ msg.kind = "ack" => ParseSessionAck(s) = {Filler(msg.hs)}
             /\ msg.kind = "smsg3" => ParseSessionMsg3(s) = {Filler(msg.hs)}

\* A message is read as what it was built as: the parsers of the other phases
\* refuse it and the header structs agree with parse_message; a session handshake
\* message that lost bytes at its end is read by nobody as a shorter one.
OneReader ==
    \A s \in bytes :
        /\ msg.kind \in {"setup", "ack", "smsg3", "data"} =>
             /\ state = "cut" \/ msg.kind # "setup" => ParseSessionSetupFull(s) = {}
             /\ state = "cut" \/ msg.kind # "ack" => ParseSessionAck(s) = {}
             /\ state = "cut" \/ msg.kind # "smsg3" => ParseSessionMsg3(s) = {}
        /\ msg.kind \in {"setup", "ack", "smsg3"} => ParseFspEncryptedHeader(s) = {}
        /\ state = "built" /\ msg.kind = "msg1" => Msg1HeaderParse(s) = {msg.a}
        /\ state = "built" /\ msg.kind = "msg2" => Msg2HeaderParse(s) = {<<msg.a, msg.b>>}
        /\ state = "built" /\ msg.kind = "msg3" => Msg3HeaderParse(s) = {<<msg.a, msg.b>>}
        /\ msg.kind \in {"msg1", "msg2", "msg3", "frame"} =>
             \A p \in ParseMessage(s) : p.phase = Phase(msg)

\* The echo reply verifies at its receiver whenever the request did: whatever the
\* words outside type and checksum (addresses, identifier, data) add up to, the
\* incremental update keeps the one's complement sum; id, sequence and data are
\* the request's, and what is cut below the ICMP header gets no reply.
EchoReplyVerifies ==
    msg.kind = "ping" =>
        \A s \in bytes :
            /\ \A r \in IcmpEchoReply(s, 320) :
                  /\ Len(r) = Len(s) /\ From(r, 15) = From(s, 15)
                  /\ \A others \in Sums :
                       Carry(32768 + Word(s, 13) + others) = 65535 =>
                           Carry(33024 + Word(r, 13) + others) = 65535
            /\ IcmpEchoReply(s, 320) = {} <=> Len(s) < 19

\* Both sides of a negotiation come to the same end: a leaf and a peer with any
\* version range and profile both accept, with the same version and one of them a
\* full node, or both refuse.
NegotiationAgrees ==
    state = "built" /\ msg.kind = "block" =>
        \A s \in bytes : \A profile \in 0..2 :
            LET mine == EncodePayload(FmpVersion, FmpVersion, FmpFeatures(profile), <<>>)
                here == ApplyFmpNegotiation(FmpVersion, FmpVersion, profile, s)
                there == ApplyFmpNegotiation(msg.lo, msg.hi, msg.profile, mine)
            IN  msg.lo <= msg.hi =>
                  /\ {h.version : h \in here} = {t.version : t \in there}
                  /\ \A h \in here : h.peer = msg.profile /\ (h.peer = 0 \/ profile = 0)

\* Size of the first k fields of a negotiation payload.
SumLens(tlvs, k) == FoldLeft(LAMBDA acc, t : acc + 4 + Len(t.value), 0, SubSeq(tlvs, 1, k))

\* The rekey marker of a negotiation payload is found behind any other field, and
\* a payload cut inside a field is an error, never one without a marker.
MarkerIsNotLost ==
    msg.kind = "block" =>
        \A s \in bytes :
            LET ends == {10 + SumLens(msg.tlvs, k) : k \in 0..Len(msg.tlvs)}
                marker == {Val(msg.tlvs[k].value) : k \in {j \in 1..Len(msg.tlvs) : msg.tlvs[j].num = 1}}
            IN  /\ state = "built" => RekeyOf(s) = [ok |-> TRUE, idx |-> marker]
                /\ state = "cut" /\ Len(s) \notin ends /\ RekeyOf(s).ok => RekeyOf(s).idx = marker /\ marker # {}

\* A message is read as what it was built as, by the parser it was built for and by
\* no other, also cut or padded; an echo reply is read as valid by ICMPv6.
ReadAsBuilt == ReadsBack /\ OneReader /\ EchoReplyVerifies

\* Negotiation blocks are read alike by both sides: these come to the same version
\* and profile or both refuse, and a rekey marker is neither lost nor made up.
NegotiationIsRead == NegotiationAgrees /\ MarkerIsNotLost

=============================================================================
