SPECIFICATION RadioFair
CONSTANTS
    \* LeafTransport
    Kinds = {"espnow", "hybrid", "wifi"}
    Gateway = {"g1"}
    GwChannel <- MCGwChannel
    ApChannel = 1
    ConfigChannel = 1
    KnobSet = FALSE
    MaxChannel = 3
    SendsPerChannel = 2
    U8Max = 255
    PeerTable = 2
    Fallback = 2
    MaxWifiRetries = 2
    HandshakeSends = 3
    Endpoint = {"vps", "d"}
    Vps = "vps"
    MaxChanges = 1
    \* RelayAp
    Station = {"c1"}
    Slots = {1}
    Endpoints = {"d1", "vps"}
    VpsEndpoint = "vps"
    IdleSecs = 3
    Rediscover = 1
    Retry = 1
    MaxBackoff = 3
    DaemonDead = 1
    MaxTransit = 1
    MaxMoves = 2
    \* DhcpServer: at rest here
    Mac = {}
    PoolSize = 1
    LeaseSecs = 1
    Remembers = {}
    MaxRequests = 1
    \* EspNowGateway
    Node = {"n1", "n2"}
    IdMod = 2
    HoldTicks = 1
    FragCounts = {1}
    \* GatewayUplink
    PauseBase = 2
    PauseMax = 7
    MaxFlaps = 4
    \* BleLink
    Flavours = {"gatt", "l2cap"}
    BlePeer = {"p", "x"}
    AllowedKeys = {"p"}
    TxCap = 1
    RxCap = 1
    Attempts = 2
    BackoffBase = 1
    BackoffMax = 3
    FailureLimit = 3
    DenyTicks = 4
    HealthyTicks = 1
    MaxLinks = 2
PROPERTIES
    LeafGetsThrough RelayFollowsDaemon GatewayServes BleLinksComeBack
