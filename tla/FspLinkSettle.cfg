SPECIFICATION FairSpec
CONSTANTS
    a = a
    b = b
    Node = {a, b}
    Dual = {a, b}
    TestPing = {}
    AppResults = {"None", "Reply"}
    Losable = {"setup", "ack"}
    Reorder = FALSE
    MaxLoss = 2
    MaxFlight = 3
    MaxBoot = 0
    MaxLink = 1
INVARIANT
    SetupRetryIsHarmless
PROPERTY
    SessionsSettle
CHECK_DEADLOCK FALSE
