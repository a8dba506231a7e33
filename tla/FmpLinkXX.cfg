CONSTANTS
    Node = {a, b}
    LowNode = a
    PeerSentFirst = {}
    Rekeyers = {a, b}
    Pattern = "XX"
    MaxResends = 1
    Window = 2
    MaxEph = 3
    MaxCtr = 1
SPECIFICATION Spec
INVARIANTS
    NonceFresh NoReplay OneSlotPerEpoch
