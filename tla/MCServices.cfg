SPECIFICATION HostSpec
CONSTANTS
    \* Mdns
    Pinned = "k1"
    Filters <- LeafFilters
    Lan <- LanPackets
    Asked <- Queries
    Attempts = 2
    Slices = 1
    ScopeMax = 32
    MaxHops = 8
    MaxAir = 1
    \* SerialBridge
    MaxOpens = 3
    MaxTries = 2
    MaxUnplugs = 1
    \* TcpPipeline
    MaxChunks = 2
    MaxRounds = 2
    RecvTimeout = 2
    JoinReader = 1
    JoinWriter = 3
    \* BleUdpBridge
    SocketTimeout = 1
    ReconnectDelay = 2
    MaxNotes = 2
    SessionMod = 3
    \* ProbeTools
    Probes = {"link_ik", "link_xx", "http_test", "sim_http"}
    MaxDials = 2
    MaxFaults = 2
    MaxQueue = 2
INVARIANTS
    DiscoveryIsRight OneHandle BytesKeepOrder SessionsStayApart SuccessIsShared
PROPERTIES
    HostToolsGoOn
