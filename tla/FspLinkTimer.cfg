SPECIFICATION FairSpec
CONSTANTS
    a = a
    b = b
    Node = {a, b}
    Dual = {a}
    TestPing = {}
    AppResults = {"None"}
    Losable = {}
    Reorder = FALSE
    MaxLoss = 0
    MaxFlight = 1
    MaxBoot = 0
    MaxLink = 2
PROPERTY
    DualStartsTimer
CHECK_DEADLOCK FALSE
