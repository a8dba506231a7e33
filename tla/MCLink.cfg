SPECIFICATION LinkSpec
CONSTANTS
    \* WireCodec
    FmpVersion = 1
    NoiseSizes <- MCNoiseSizes
    Extras = {0, 26}
    Rooms = {100, 600}
    Sums <- MCSums
    Blocks <- MCBlocks
    MaxTrail = 2
    \* Framing
    Base = 8
    MaxFrame = 4
    BufSize = 7
    ReaderChunk = 2
    NodeChunk = 4
    Msg1Size = 3
    Msg2Size = 3
    SealedSize = 4
    Readers = {"FrameReader", "recv_frame", "steady", "raw"}
    FrameSizes = {1, 4}
    BadHeaders = {0, 5}
    Datagrams <- MCDatagrams
    MaxHeaders = 4
    MaxSent = 3
    \* NoiseHandshake
    Uses = {"fmp_ik", "fmp_xx", "rekey_xx", "fsp_xk", "fsp_xx"}
    MaxStarts = 3
    MaxAnswers = 3
    MaxUnread = 2
    MaxBoots = 2
    \* ReplayBitmap
    Words = 3
    WordBits = 3
    Ceiling = 13
    UsizeRange = 64
    \* PeerPolicy
    TicksPerSec = 2
    RetryBase = 1
    RetryMax = 3
    MaxFailures = 4
    MaxAttempts = 5
    FailureReset = 4
    RateWindow = 2
    RateMax = 2
    LinkDead = 1
    MaxBad = 2
    MaxTotalBad = 3
    TickCap = 6
    SecCap = 5
INVARIANTS
    ReadAsBuilt NegotiationIsRead
    FramesInOrder
    HandshakesMeet NonceOnce
PROPERTIES
    WordsImplementWindow NoFrameStarves ReconnectSpacing PolicyRetries
