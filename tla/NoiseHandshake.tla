--------------------------- MODULE NoiseHandshake ---------------------------
(***************************************************************************)
(* The Noise handshakes of fips-noise (IK, XK and XX, initiator and        *)
(* responder), as the link layer (node.rs: handshake and rekey) and the    *)
(* session layer (fsp.rs) drive them.                                      *)
(*                                                                         *)
(* Cryptography is symbolic.  A secret is <<party, number>>, number 0 being *)
(* the static one; a Diffie-Hellman result is the set of the two secrets;  *)
(* the chaining key is the sequence of results mixed so far, and with it   *)
(* the cipher key that the same HKDF call yields; the transcript hash is    *)
(* the sequence of items mixed.  A ciphertext opens under the key and the  *)
(* nonce it was sealed with.  Each method of the code is a sequence of     *)
(* steps, written down from that method: the two ends of a pattern are     *)
(* translated separately.                                                  *)
(***************************************************************************)
EXTENDS Naturals, Sequences, FiniteSets, SequencesExt

CONSTANTS
    Uses,         \* the callers, from AllUses
    MaxStarts,    \* handshakes the initiator starts
    MaxAnswers,   \* message 1s the responder answers
    MaxUnread,    \* message 2s one initiator machine fails to read
    MaxBoots      \* boots of a session layer responder

\* Who drives which pattern, whether an encrypted negotiation block follows
\* messages 2 and 3, and whether a machine survives a failed read.
AllUses ==
    [fmp_ik   |-> [pattern |-> "IK", block |-> FALSE, keeps |-> FALSE],
     fmp_xx   |-> [pattern |-> "XX", block |-> TRUE,  keeps |-> FALSE],
     rekey_xx |-> [pattern |-> "XX", block |-> FALSE, keeps |-> FALSE],
     fsp_xk   |-> [pattern |-> "XK", block |-> FALSE, keeps |-> TRUE],
     fsp_xx   |-> [pattern |-> "XX", block |-> TRUE,  keeps |-> TRUE]]

ASSUME NoiseAssumption ==
    /\ Uses \subseteq DOMAIN AllUses
    /\ MaxStarts \in Nat /\ MaxAnswers \in Nat /\ MaxUnread \in Nat
    /\ MaxBoots \in Nat \ {0}

VARIABLES
    use,     \* the caller
    odd,     \* parity of each party's static public key
    ini,     \* the initiator's machine and its phase
    res,     \* the responder's machine, its phase and its boot
    air,     \* every message sent: any of them may still arrive, again or never
    done     \* finished sessions, with the party that finished them

noiseVars == <<use, odd, ini, res, air, done>>

Party == {"I", "R"}
Static(p) == <<p, 0>>
Pattern == AllUses[use].pattern
Block == AllUses[use].block
Keeps == AllUses[use].keeps

\* ecdh_pubkey: the compressed key with its parity; ephemerals are even here,
\* their parity byte travels unchanged and x_only_ecdh ignores it.
EcdhPubkey(secret) == [key |-> secret, odd |-> secret[2] = 0 /\ odd[secret[1]]]

\* parity_normalize
ParityNormalize(pub) == [pub EXCEPT !.odd = FALSE]

\* x_only_ecdh: symmetric, and blind to parity.
XOnlyEcdh(secret, pub) == {secret, pub.key}

----------------------------------------------------------------------------
(* Steps of a method, run on [m |-> machine, msg |-> items, ok |-> BOOLEAN] *)

Put == [op |-> "put", x |-> "e", y |-> ""]
Take == [op |-> "take", x |-> "e", y |-> ""]
Mix(mine, theirs) == [op |-> "mix", x |-> mine, y |-> theirs]
Seal(what) == [op |-> "seal", x |-> what, y |-> ""]
Open(what) == [op |-> "open", x |-> what, y |-> ""]

\* mix_hash
MixHash(m, item) == [m EXCEPT !.h = Append(@, item)]

\* mix_key: a new chaining key and cipher key; every caller resets the nonce.
MixKey(m, dh) == [m EXCEPT !.ck = Append(@, dh), !.n = 0]

\* aead_encrypt: what is sealed under the cipher key and the nonce.
AeadEncrypt(m, what) ==
    [key |-> m.ck, n |-> m.n, whole |-> TRUE,
     plain |-> [what |-> what, by |-> m.s[1],
                pub |-> IF what = "s" THEN {EcdhPubkey(m.s)} ELSE {}]]

\* aead_decrypt succeeds
AeadOpens(m, ct) == ct.whole /\ ct.key = m.ck /\ ct.n = m.n

\* A plausible slip: the nonce is not counted after sealing.
SealItemKeepsNonce(r, what) ==
    LET ct == AeadEncrypt(r.m, what)
    IN  [r EXCEPT !.m = MixHash(r.m, ct), !.msg = Append(@, ct)]

\* A sealed item joins the message and the transcript, and the nonce advances.
SealItem(r, what) ==
    LET ct == AeadEncrypt(r.m, what)
    IN  [r EXCEPT !.m = [MixHash(r.m, ct) EXCEPT !.n = @ + 1], !.msg = Append(@, ct)]

\* A plausible slip: the nonce and the transcript move before the item opens.
OpenItemCountsFirst(r, what) ==
    LET ct == Head(r.msg)
        n1 == [MixHash(r.m, ct) EXCEPT !.n = @ + 1]
    IN  IF ~AeadOpens(r.m, ct) THEN [r EXCEPT !.ok = FALSE, !.m = n1]
        ELSE [r EXCEPT !.m = IF what = "s"
                             THEN [n1 EXCEPT !.rs = CHOOSE p \in ct.plain.pub : TRUE] ELSE n1,
                       !.msg = Tail(@)]

\* An item that does not open ends the method and changes nothing; one that does
\* advances the nonce, and a static key is remembered.
OpenItem(r, what) ==
    LET ct == Head(r.msg)
        n1 == [MixHash(r.m, ct) EXCEPT !.n = @ + 1]
    IN  IF ~AeadOpens(r.m, ct) THEN [r EXCEPT !.ok = FALSE]
        ELSE [r EXCEPT !.m = IF what = "s"
                             THEN [n1 EXCEPT !.rs = CHOOSE p \in ct.plain.pub : TRUE] ELSE n1,
                       !.msg = Tail(@)]

Step(r, s) ==
    IF ~r.ok THEN r
    ELSE CASE s.op = "put" ->
              LET pub == EcdhPubkey(r.m.e)
              IN  [r EXCEPT !.m = MixHash(r.m, pub), !.msg = Append(@, pub)]
           [] s.op = "take" ->
              [r EXCEPT !.m = [MixHash(r.m, Head(r.msg)) EXCEPT !.re = Head(r.msg)],
                        !.msg = Tail(@)]
           [] s.op = "mix" -> [r EXCEPT !.m = MixKey(r.m, XOnlyEcdh(r.m[s.x], r.m[s.y]))]
           [] s.op = "seal" -> SealItem(r, s.x)
           [] s.op = "open" -> OpenItem(r, s.x)

\* A whole method: it stops at the first error and leaves the machine as the
\* steps before it made it.
Method(m, msg, steps) == FoldLeft(Step, [m |-> m, msg |-> msg, ok |-> TRUE], steps)

\* The fields a constructor sets before its steps; NoKey stands for None.
NoKey == [key |-> <<"", 0>>, odd |-> FALSE]
Machine(p, e, rs, pre) ==
    [h |-> pre, ck |-> <<>>, n |-> 0, s |-> Static(p), e |-> e, re |-> NoKey, rs |-> rs]
Blank(p) == Machine(p, NoKey.key, NoKey, <<>>)

----------------------------------------------------------------------------
(* The methods *)

\* NoiseIkInitiator
IkInitiatorNew(e, rs) == Machine("I", e, rs, <<ParityNormalize(rs)>>)
IkInitiatorWriteMessage1 ==
    <<Put, Mix("e", "rs"), Seal("s"), Mix("s", "rs"), Seal("epoch")>>
\* se is computed from the initiator's ephemeral, as FIPS does.
IkInitiatorReadMessage2 == <<Take, Mix("e", "re"), Mix("e", "rs"), Open("epoch")>>

\* NoiseIkResponder
IkResponderNew == Machine("R", NoKey.key, NoKey, <<ParityNormalize(EcdhPubkey(Static("R")))>>)
IkResponderReadMessage1 ==
    <<Take, Mix("s", "re"), Open("s"), Mix("s", "rs"), Open("epoch")>>
IkResponderWriteMessage2 == <<Put, Mix("e", "re"), Mix("s", "re"), Seal("epoch")>>

\* NoiseXkInitiator
XkInitiatorNew(e, rs) == Machine("I", e, rs, <<ParityNormalize(rs)>>)
XkInitiatorWriteMessage1 == <<Put, Mix("e", "rs")>>
XkInitiatorReadMessage2 == <<Take, Mix("e", "re"), Open("epoch")>>
XkInitiatorWriteMessage3 == <<Seal("s"), Mix("s", "re"), Seal("epoch")>>

\* NoiseXkResponder
XkResponderNew == Machine("R", NoKey.key, NoKey, <<ParityNormalize(EcdhPubkey(Static("R")))>>)
XkResponderReadMessage1 == <<Take, Mix("s", "re")>>
XkResponderWriteMessage2 == <<Put, Mix("e", "re"), Seal("epoch")>>
XkResponderReadMessage3 == <<Open("s"), Mix("e", "rs"), Open("epoch")>>

\* NoiseXxInitiator
XxInitiatorNew(e) == Machine("I", e, NoKey, <<>>)
XxInitiatorWriteMessage1 == <<Put>>
XxInitiatorReadMessage2 ==
    <<Take, Mix("e", "re"), Open("s"), Mix("e", "rs"), Open("epoch")>>
XxInitiatorWriteMessage3 == <<Seal("s"), Mix("s", "re"), Seal("epoch")>>

\* NoiseXxResponder
XxResponderNew == Machine("R", NoKey.key, NoKey, <<>>)
XxResponderReadMessage1 == <<Take>>
XxResponderWriteMessage2 ==
    <<Put, Mix("e", "re"), Seal("s"), Mix("s", "re"), Seal("epoch")>>
XxResponderReadMessage3 == <<Open("s"), Mix("e", "rs"), Open("epoch")>>

\* encrypt_payload and decrypt_payload of the XX machines
EncryptPayload == <<Seal("block")>>
DecryptPayload == <<Open("block")>>

\* finalize: the two transport keys, in the order of the initiator
Finalize(m) == <<[ck |-> m.ck, half |-> 1], [ck |-> m.ck, half |-> 2]>>

----------------------------------------------------------------------------
(* The callers *)

ByPattern(ik, xk, xx) ==
    CASE Pattern = "IK" -> ik [] Pattern = "XK" -> xk [] Pattern = "XX" -> xx

\* A finished session of party p; k1 carries initiator to responder.
Session(p, m) ==
    LET k == Finalize(m)
    IN  [by |-> p, e |-> m.e, re |-> m.re.key, peer |-> m.rs.key, h |-> m.h,
         send |-> IF p = "I" THEN k[1] ELSE k[2],
         recv |-> IF p = "I" THEN k[2] ELSE k[1]]

\* handshake_ik and handshake_xx, initiate_rekey, FspInitiatorSession::new and
\* build_setup: a fresh ephemeral, a new machine, message 1.  What an earlier
\* attempt left is dropped (timeout, reset).  The peer's key comes from the
\* configuration, where it may or may not carry its real parity.
Start ==
    /\ ini.count < MaxStarts
    /\ \E parity \in {FALSE, odd["R"]} :
         LET e == <<"I", ini.count + 1>>
             known == [key |-> Static("R"), odd |-> parity]
             new == ByPattern(IkInitiatorNew(e, known), XkInitiatorNew(e, known), XxInitiatorNew(e))
             w == Method(new, <<>>, ByPattern(IkInitiatorWriteMessage1,
                                              XkInitiatorWriteMessage1,
                                              XxInitiatorWriteMessage1))
         IN  /\ ini' = [phase |-> "await2", m |-> w.m, count |-> ini.count + 1, bad |-> 0]
             /\ air' = air \cup {[no |-> 1, items |-> w.msg, ends |-> {}, hurt |-> FALSE]}
    /\ UNCHANGED <<use, odd, res, done>>

\* handshake_ik and handshake_xx as responder, answer_rekey_msg1_ik,
\* begin_rekey_xx and FspSession::handle_setup: a new machine reads message 1
\* and writes message 2.  IK proves the initiator here and is finished.
ReadMessage1(msg) ==
    Method(ByPattern(IkResponderNew, XkResponderNew, XxResponderNew), msg.items,
           ByPattern(IkResponderReadMessage1, XkResponderReadMessage1, XxResponderReadMessage1))

\* The link layer draws an ephemeral for every message 1 it answers; the session
\* layer draws one when the handler is made and answers every setup with it.
ResponderEphemeral == <<"R", IF Keeps THEN res.boot ELSE res.count + 1>>

Answer ==
    /\ res.count < MaxAnswers
    /\ \E msg \in air :
         /\ msg.no = 1
         /\ LET r == ReadMessage1(msg)
                w == Method([r.m EXCEPT !.e = ResponderEphemeral], <<>>,
                            ByPattern(IkResponderWriteMessage2, XkResponderWriteMessage2,
                                      XxResponderWriteMessage2)
                            \o (IF Block THEN EncryptPayload ELSE <<>>))
            IN  /\ r.ok
                /\ (Pattern = "IK" => r.m.rs.key = Static("I"))
                /\ air' = air \cup {[no |-> 2, items |-> w.msg, ends |-> {}, hurt |-> FALSE]}
                /\ IF Pattern = "IK"
                   THEN /\ done' = done \cup {Session("R", w.m)}
                        /\ res' = [res EXCEPT !.count = @ + 1]
                   ELSE /\ res' = [res EXCEPT !.phase = "await3", !.m = w.m, !.count = @ + 1]
                        /\ UNCHANGED done
    /\ UNCHANGED <<use, odd, ini>>

\* The responder's device restarts: FspDualHandler::new_responder or new_dual
\* with a new ephemeral.  (A link layer that restarts only drops its machine.)
Reboot ==
    /\ Keeps /\ res.boot < MaxBoots
    /\ res' = [res EXCEPT !.phase = "idle", !.m = Blank("R"), !.boot = @ + 1]
    /\ UNCHANGED <<use, odd, ini, air, done>>

\* A message as it arrives: whole or, where no link layer protects it, with its
\* last item damaged; in the session layer only the block may be one that does
\* not open.
Arrivals(msg) ==
    {msg} \cup (IF use = "fsp_xk" THEN {}
                ELSE {[msg EXCEPT !.items[Len(msg.items)].whole = FALSE]})

\* read_message2, the check of the learned static key against the pinned one,
\* and the negotiation block.
ReadMessage2(m, msg) ==
    LET r == Method(m, msg.items, ByPattern(IkInitiatorReadMessage2, XkInitiatorReadMessage2,
                                            XxInitiatorReadMessage2))
    IN  IF r.ok /\ r.m.rs.key = Static("R") /\ Block THEN Method(r.m, r.msg, DecryptPayload)
        ELSE [r EXCEPT !.ok = @ /\ r.m.rs.key = Static("R")]

\* The message was read up to its block, and the block did not open.
OnlyBlockFails(r, msg) ==
    Block /\ ~r.ok /\ Len(r.msg) = 1 /\ Len(msg.items) > 1 /\ r.m.rs.key = Static("R")

\* Message 2 reaches the initiator.  FMP callers drop the machine when anything
\* fails; FspInitiatorSession::handle_ack keeps it as it is, and goes on after a
\* block that does not open, without its nonce having been counted (`hurt').
\* Then write_message3 with its block, and finalize.
ReceiveMessage2 ==
    /\ ini.phase = "await2"
    /\ \E sent \in {m \in air : m.no = 2} : \E msg \in Arrivals(sent) :
         LET r == ReadMessage2(ini.m, msg)
             hurt == use = "fsp_xx" /\ OnlyBlockFails(r, msg)
             w == Method(r.m, <<>>, ByPattern(<<>>, XkInitiatorWriteMessage3,
                                              XxInitiatorWriteMessage3)
                                    \o (IF Block THEN EncryptPayload ELSE <<>>))
         IN  IF r.ok \/ hurt
             THEN /\ ini' = [ini EXCEPT !.phase = "done", !.m = w.m]
                  /\ done' = done \cup {Session("I", w.m)}
                  /\ air' = IF Pattern = "IK" THEN air
                            ELSE air \cup {[no |-> 3, items |-> w.msg,
                                             ends |-> {w.m.e, w.m.re.key}, hurt |-> hurt]}
             ELSE /\ ini' = IF Keeps
                            THEN [ini EXCEPT !.m = r.m, !.bad = @ + 1]
                            ELSE [ini EXCEPT !.phase = "failed"]
                  /\ ini.bad < MaxUnread
                  /\ UNCHANGED <<air, done>>
    /\ UNCHANGED <<use, odd, res>>

\* read_message3 and the block.
ReadMessage3(m, msg) ==
    LET r == Method(m, msg.items, ByPattern(<<>>, XkResponderReadMessage3, XxResponderReadMessage3))
    IN  IF r.ok /\ Block THEN Method(r.m, r.msg, DecryptPayload) ELSE r

\* Message 3 reaches the responder, which checks the initiator's key and
\* finishes.  FMP drops the machine on an error, FspSession::handle_msg3 keeps it.
ReceiveMessage3 ==
    /\ res.phase = "await3"
    /\ \E sent \in {m \in air : m.no = 3} : \E msg \in Arrivals(sent) :
         LET r == ReadMessage3(res.m, msg)
             ok == r.ok \/ (use = "fsp_xx" /\ Len(r.msg) = 1)
         IN  IF ok /\ r.m.rs.key = Static("I")
             THEN /\ done' = done \cup {Session("R", r.m)}
                  /\ res' = [res EXCEPT !.phase = "done", !.m = r.m]
             ELSE /\ res' = IF Keeps THEN [res EXCEPT !.m = r.m]
                            ELSE [res EXCEPT !.phase = "failed"]
                  /\ UNCHANGED done
    /\ UNCHANGED <<use, odd, ini, air>>

----------------------------------------------------------------------------
NoiseInit ==
    /\ use \in Uses
    /\ odd \in [Party -> BOOLEAN]
    /\ ini = [phase |-> "idle", m |-> Blank("I"), count |-> 0, bad |-> 0]
    /\ res = [phase |-> "idle", m |-> Blank("R"), count |-> 0, boot |-> 1]
    /\ air = {} /\ done = {}

NoiseNext == Start \/ Answer \/ Reboot \/ ReceiveMessage2 \/ ReceiveMessage3

NoiseSpec == NoiseInit /\ [][NoiseNext]_noiseVars

----------------------------------------------------------------------------
(* Properties *)

\* Two finished sessions have a key in common exactly when they were made by the
\* two ends with each other's ephemerals; then each sends with the key the other
\* receives with, and each knows the other's static key (finalize's order and
\* every caller's assignment of c1 and c2), whatever messages were repeated,
\* late or damaged.
KeysAgree ==
    \A a, b \in done :
        a.by = "I" /\ b.by = "R" =>
            /\ (a.e = b.re /\ a.re = b.e) <=> a.send = b.recv
            /\ a.send = b.recv <=> a.recv = b.send
            /\ a.send # b.send
            /\ a.peer = Static("R") /\ b.peer = Static("I")

\* Ends that share keys also agree on the transcript, whatever the parity of
\* the static keys: the pre-message is normalised on both sides.  (A block that
\* the session layer ignores is in one transcript only.)
TranscriptsAgree ==
    \A a, b \in done :
        a.by = "I" /\ b.by = "R" /\ a.send = b.recv /\ use # "fsp_xx" => a.h = b.h

\* What the messages of M carry sealed.
Sealed(M) ==
    UNION {{m.items[i] : i \in {j \in DOMAIN m.items : "n" \in DOMAIN m.items[j]}} : m \in M}

\* No key ever seals two different things under one nonce, over all machines and
\* both ends, the negotiation blocks included, also when a responder answers many
\* setups with one ephemeral.  There is one exception: decrypt_payload counts the
\* nonce only when the block opens, so an initiator of the session layer that goes
\* on after one that does not seals its static key with the nonce of that block.
NonceOnce ==
    \A c, d \in Sealed(air) :
        c.key = d.key /\ c.n = d.n /\ c # d =>
            /\ {c.plain.what, d.plain.what} = {"block", "s"}
            /\ {c, d} \cap Sealed({m \in air : m.hurt}) # {}

\* Message 3 was written for the responder's machine: it answers its ephemeral.
ForResponder(msg) == msg.no = 3 /\ msg.ends = {res.m.e, res.m.re.key}

\* A message 3 that was written for the machine the responder still holds opens,
\* however many late messages of other attempts the machine failed to read
\* before: the static key is the first thing read_message3 opens and nothing is
\* mixed before it.  It never opens when its initiator went on after a block of
\* message 2 that did not open: the counters of the two ends then differ by one.
Message3Opens ==
    res.phase = "await3" =>
        \A msg \in air : ForResponder(msg) => (ReadMessage3(res.m, msg).ok <=> ~msg.hurt)

\* The two ends of a handshake meet: with the same keys and transcript when they
\* finish, and a message 3 for the machine that waits for it brings it there
\* exactly when the initiator had opened all of message 2.
HandshakesMeet == KeysAgree /\ TranscriptsAgree /\ Message3Opens

=============================================================================
