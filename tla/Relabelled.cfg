SPECIFICATION Spec
CONSTANTS
    A = A
    B = B
    C = C
    None = None
    Noise = Noise
    Ends <- ThreeEnds
    Senders <- OneSender
    Receivers <- TwoReceivers
    NPaths <- FewerAtC
    Hmac <- MCHmac
    MessageIds = {1, 2}
    LongIds = {}
    Payloads = {p1}
    LargePayloads = {}
    EntropyFails = FALSE
    MAX_SKIP_WINDOW = 2
    MAX_SKIPPED_KEYS = 1
    MaxSeq = 2
    MaxClock = 0
    Capacity = 1
    TimeWindow = 0
INVARIANTS
    AtMostOnce
    UsedKeysForgotten
    ReplayStoreRedundant
    GenuineAccepted
PROPERTIES
    ImplementsContract
