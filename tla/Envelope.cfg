SPECIFICATION Spec
CONSTANTS
    NONCE_LEN = 12
    CIPHERTEXT_LEN = 996
    TAG_LEN = 16
    ENVELOPE_TOTAL_LEN = 1024
    PLAINTEXT_LEN = 996
    MAX_PAYLOAD_SIZE = 992
    Lengths = {0, 1, 255, 256, 257, 991, 992, 993, 996}
    Versions = {1, 2}
    HighBytes = {0, 3, 4, 255}
    LowBytes = {0, 223, 224, 225, 228, 229, 255}
INVARIANTS
    RoundTrip
    EveryByteCounts
    OpenStaysInside
CHECK_DEADLOCK FALSE
