SPECIFICATION Spec
CONSTANTS
    A = A
    B = B
    C = C
    None = None
    Noise = Noise
    Ends <- BothEnds
    Senders <- OneSender
    Receivers <- OneReceiver
    NPaths <- TwoPaths
    Hmac <- MCHmac
    MessageIds = {1, 2}
    LongIds = {2}
    Payloads = {p1, p2}
    LargePayloads = {p2}
    EntropyFails = TRUE
    MAX_SKIP_WINDOW = 2
    MAX_SKIPPED_KEYS = 1
    MaxSeq = 4
    MaxClock = 1
    Capacity = 1
    TimeWindow = 0
INVARIANTS
    TypeOK
    SingleUseKeys
    
    SkippedBounded
    OldestGivenUpFirst
    GenuineAccepted
PROPERTIES
    ErrorsMutateNothing
