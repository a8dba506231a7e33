CONSTANTS
    Node = {a, b}
    LowNode = a
    PeerSentFirst = {b}
    Rekeyers = {a, b}
    Pattern = "IK"
    MaxResends = 1
    Window = 2
    MaxEph = 4
    MaxCtr = 1
SPECIFICATION Spec
INVARIANTS SettledAgree
