SPECIFICATION Spec
CONSTANTS
    A = A
    B = B
    C = C
    None = None
    Noise = Noise
    Ends <- BothEnds
    Senders <- OneSender
    Receivers <- OneReceiver
    NPaths <- OnePath
    Hmac <- MCHmac
    MessageIds = {1}
    LongIds = {}
    Payloads = {p1}
    LargePayloads = {}
    EntropyFails = FALSE
    MAX_SKIP_WINDOW = 2
    MAX_SKIPPED_KEYS = 1
    MaxSeq = 3
    MaxClock = 0
    Capacity = 1
    TimeWindow = 0
INVARIANTS
    DerivationWorkBounded
