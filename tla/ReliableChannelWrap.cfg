\* A window of one or two, one packet a command, enough of them to go all the
\* way round the numbers; a datagram comes up to three numbers late, the most
\* that WindowFits admits.
SPECIFICATION SpecBounded
CONSTANTS
    SEQNUM_MAX = 15
    MAX_RELIABLE_WINDOW_SIZE = 8
    MIN_RELIABLE_WINDOW_SIZE = 1
    SEQNUM_INITIAL = 15
    WindowCap = 2
    LegacyWindow = 1
    IterationPackets = 2
    MaxPacketsRequeued = 1
    GrowSteps = {1}
    ShrinkSteps = {1}
    MaxChunks = 1
    Lifetime = 3
    MaxCommands = 18
    MaxWaiting = 1
    MaxUnderWay = 2
INVARIANTS
    NothingForgotten
    OutstandingBounded
    ReceiverJudgesRight
    NumbersUnambiguous
