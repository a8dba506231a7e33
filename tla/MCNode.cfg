SPECIFICATION NodeSpec
CONSTANTS
    \* MmpLink
    Wires = {"ik", "xx"}
    DwellMax = 1
    ByteBase = 2
    WordMod = 4
    LongMod = 8
    MaxCtr = 3
    MaxFlight = 2
    MaxReports = 2
    MaxClock = 2
    \* MmpEstimators
    RttSamples = {1, 25}
    Transits <- MCTransits
    Milli = 10
    ColdMs = 1
    MinMs = 3
    MaxMs = 6
    ColdSamples = 2
    RtoFloor = 20
    \* LinkDispatch
    TestId = {1, 2}
    Durations = {0, 1}
    TestTicks = 2
    StreamSizes = {7, 8, 100}
    EchoSizes = {11, 12, 211, 212, 268, 269}
    AnswerSizes = {1, 219, 220, 320}
    FramesMax = 3
    MaxBytes = 300
    MaxElapsed = 3
    \* ServiceLayer
    RespSizes = {40, 60, 96, 97, 100, 180, 320}
    FspBodies = {0, 142, 300}
    HttpBodies = {0, 300, 4088, 4089, 65536}
    IdSizes = {0, 5, 75, 76}
    \* EspNode
    Modes = {"ble", "l2cap", "wifi", "hybrid", "esp_now"}
    VpsNpub = "vps"
    Found = {"p", "q"}
    LineBuf = 2
    LineSizes = {1, 2, 4}
    MaxEpoch = 2
    \* ReplayWindow
    Window = 4
    Ceiling = 12
    UsizeRange = 64
    \* LeafTransport
    Kinds = {"espnow", "hybrid", "wifi"}
    Gateway = {"g1", "g2"}
    GwChannel <- MCGwChannel
    ApChannel = 1
    ConfigChannel = 1
    KnobSet = FALSE
    MaxChannel = 3
    SendsPerChannel = 2
    U8Max = 255
    PeerTable = 2
    Fallback = 2
    MaxWifiRetries = 2
    HandshakeSends = 3
    Endpoint = {"vps", "d"}
    Vps = "vps"
    MaxChanges = 1
    \* RelayAp
    Station = {"c1", "c2"}
    Slots = {1, 2}
    Endpoints = {"d1", "vps"}
    VpsEndpoint = "vps"
    IdleSecs = 3
    Rediscover = 1
    Retry = 1
    MaxBackoff = 3
    DaemonDead = 1
    MaxTransit = 1
    MaxMoves = 1
    \* DhcpServer
    Mac = {a, b}
    PoolSize = 2
    LeaseSecs = 2
    Remembers = {a}
    MaxRequests = 2
    \* EspNowGateway
    Node = {"n1", "n2"}
    IdMod = 2
    HoldTicks = 1
    FragCounts = {2}
    \* GatewayUplink
    PauseBase = 2
    PauseMax = 7
    MaxFlaps = 4
    \* BleLink
    Flavours = {"gatt", "l2cap"}
    BlePeer = {"p", "q", "x"}
    AllowedKeys = {"p", "q"}
    TxCap = 2
    RxCap = 1
    Attempts = 2
    BackoffBase = 1
    BackoffMax = 3
    FailureLimit = 3
    DenyTicks = 4
    HealthyTicks = 1
    MaxLinks = 2
INVARIANTS
    MetricsAreReal LinkAnswersAreRight RequestsAreServed NodeShowsItsState
    PathIsUsable RepliesStayHome AddressesUnique FramesWhole
PROPERTIES
    ReportsAreUsedRight AcceptsAsPromised NothingOfAnEarlierLink
