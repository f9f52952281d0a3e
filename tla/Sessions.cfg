SPECIFICATION SSpec
CONSTANTS
    Identities = {alice, bob}
    Garbled = Garbled
    None = None
    MaxFresh = 4
    MessageIds = {m1}
    SeqNumbers = {0}
SYMMETRY Symmetry
INVARIANTS
    TypeOK
    InitiatorAgrees
    ResponderAgrees
    RootKeysNeverRepeat
    GenuineResponseCompletes
    ConversationsArePairs
CHECK_DEADLOCK FALSE
