CONSTANTS
    Node = {a, b}
    LowNode = a
    PeerSentFirst = {b}
    Rekeyers = {a}
    Pattern = "IK"
    MaxResends = 1
    Window = 2
    MaxEph = 3
    MaxCtr = 1
SPECIFICATION FairSpec
INVARIANTS SettledAgree
PROPERTIES ProofBeforeCutover RekeyCycleEnds
