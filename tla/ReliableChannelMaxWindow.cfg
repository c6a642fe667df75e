\* The window may grow to MAX_RELIABLE_WINDOW_SIZE, half of the numbers, as it
\* may in the program.
SPECIFICATION Spec
CONSTANTS
    SEQNUM_MAX = 5
    MAX_RELIABLE_WINDOW_SIZE = 3
    MIN_RELIABLE_WINDOW_SIZE = 1
    SEQNUM_INITIAL = 3
    WindowCap = 3
    LegacyWindow = 1
    IterationPackets = 3
    MaxPacketsRequeued = 1
    GrowSteps = {1}
    ShrinkSteps = {1}
    MaxChunks = 1
    Lifetime = 0
    MaxCommands = 7
INVARIANTS
    InOrder
