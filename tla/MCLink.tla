------------------------------- MODULE MCLink -------------------------------
(***************************************************************************)
(* What makes up one link: its wire formats, the framing readers, the      *)
(* Noise handshake, the replay bitmap and the peer policy, checked as      *)
(* alternatives.  A behaviour runs one of them, named by `part'; the       *)
(* others rest in one of their initial states.                             *)
(***************************************************************************)
EXTENDS WireCodec, Framing, NoiseHandshake, ReplayBitmap, PeerPolicy

VARIABLE part

linkVars == <<wcVars, frVars, noiseVars, vars, polVars, part>>

\* Message sizes of IK message 1, XX message 2 and XX message 3.
MCNoiseSizes == <<33, 106, 73>>

\* Both bytes of the ICMP checksum at and around every carry.
MCSums == {0, 1, 254, 255, 256, 257, 32511, 32512, 32766, 32767, 32768,
           33023, 33024, 65278, 65279, 65280, 65534, 65535}

\* The version marker before, after and without other blocks.
Marker == [num |-> 1, value |-> <<9, 1, 0, 0>>]
OtherBlock(n) == [num |-> 5, value |-> Filler(n)]
MCBlocks == {<<>>, <<Marker>>, <<OtherBlock(0), Marker>>, <<OtherBlock(3), Marker>>,
             <<Marker, OtherBlock(3)>>, <<OtherBlock(3)>>}

\* Whole frames, frames of the wrong phase, headers that lie and stray bytes.
MCDatagrams == {<<1, 1, 5>>, <<2, 1, 6>>, <<3, 2, 6, 6>>, <<0, 1, 0, 0>>, <<0, 1, 1>>,
                <<7>>, <<1, 2, 1, 0>>, <<2, 2, 0>>}

SomeMessage == CHOOSE m \in Messages : TRUE

LinkInit ==
    /\ part \in {"wire", "framing", "noise", "replay", "policy"}
    /\ WcInit /\ (part = "wire" \/ msg = SomeMessage)
    /\ FrInit /\ (part = "framing" \/ reader = "FrameReader")
    /\ NoiseInit /\ (part = "noise" \/ (use = "fmp_ik" /\ odd = [p \in Party |-> FALSE]))
    /\ Init
    /\ PolInit

LinkNext ==
    \/ part = "wire" /\ WcNext /\ UNCHANGED <<frVars, noiseVars, vars, polVars, part>>
    \/ part = "framing" /\ FrNext /\ UNCHANGED <<wcVars, noiseVars, vars, polVars, part>>
    \/ part = "noise" /\ NoiseNext /\ UNCHANGED <<wcVars, frVars, vars, polVars, part>>
    \/ part = "replay" /\ Next /\ UNCHANGED <<wcVars, frVars, noiseVars, polVars, part>>
    \/ part = "policy" /\ PolNext /\ UNCHANGED <<wcVars, frVars, noiseVars, vars, part>>
    \/ part \in {"wire", "noise"} /\ UNCHANGED linkVars   \* these come to an end

\* FrFairness and PolFairness, where their modules run.
LinkSpec ==
    /\ LinkInit /\ [][LinkNext]_linkVars
    /\ WF_frVars(part = "framing" /\ Scan) /\ SF_frVars(part = "framing" /\ Receive)
    /\ WF_polVars(part = "policy" /\ Tick) /\ WF_polVars(part = "policy" /\ RunStep)

\* RetriesWithinBudget, where the policy runs: Node::run comes back to an attempt
\* as long as the failure budget of PeerPolicy lasts.
PolicyRetries == part = "policy" => RetriesWithinBudget

=============================================================================
