SPECIFICATION Spec
CONSTANTS
    a = a
    b = b
    Node = {a, b}
    Dual = {a}
    TestPing = {a}
    AppResults = {"None", "Reply", "Disconnect"}
    Losable = {}
    Reorder = TRUE
    MaxLoss = 0
    MaxFlight = 3
    MaxBoot = 1
    MaxLink = 2
INVARIANTS
    ResponderFollowsInitiator FirstBootAcksOpen
CHECK_DEADLOCK FALSE
