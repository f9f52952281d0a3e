SPECIFICATION CFairSpec
CONSTANTS
    A = A
    B = B
    None = None
    Noise = Noise
    Truncated = Truncated
    Ends <- BothEnds
    Senders <- OneSender
    Receivers <- OneReceiver
    NPaths <- TwoPaths
    Hmac <- MCHmac
    MessageIds = {1, 2}
    LongIds = {2}
    Payloads = {p1, p2}
    LargePayloads = {p2}
    EntropyFails = TRUE
    MAX_N_PATHS = 2
    RoomToSend = {TRUE, FALSE}
    RoomToReceive = {TRUE, FALSE}
    MaxPanics = 1
    MAX_SKIP_WINDOW = 2
    MAX_SKIPPED_KEYS = 2
    MaxSeq = 2
    MaxClock = 1
    Capacity = 1
    TimeWindow = 0
INVARIANTS
    CountTracksSends
    OpenedNeverReturns
PROPERTIES
    CImplementsContract
    PostedArrives
