SPECIFICATION CSpec
CONSTANTS
    Identities = {alice, bob}
    Garbled = Garbled
    None = None
    MaxFresh = 3
    MAX_N_PATHS = 1
    PathCounts = {0, 1, 2}
SYMMETRY Symmetry
INVARIANTS
    NothingLeaks
