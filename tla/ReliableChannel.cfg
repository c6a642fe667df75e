\* Two window sizes, commands of one and two packets; the numbers wrap
\* around after the third packet.
SPECIFICATION FairSpec
CONSTANTS
    SEQNUM_MAX = 15
    MAX_RELIABLE_WINDOW_SIZE = 8
    MIN_RELIABLE_WINDOW_SIZE = 1
    SEQNUM_INITIAL = 13
    WindowCap = 2
    LegacyWindow = 1
    IterationPackets = 2
    MaxPacketsRequeued = 2
    GrowSteps = {1}
    ShrinkSteps = {1}
    MaxChunks = 2
    Lifetime = 0
    MaxCommands = 2
INVARIANTS
    TypeOK
    InOrder
    NothingForgotten
    ListsSorted
PROPERTIES
    ImplementsFifo
    EveryMessageArrives
