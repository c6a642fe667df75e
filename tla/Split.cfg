\* Messages of both kinds, reliable ones of up to three pieces and unreliable ones of up to
\* two; the split numbers wrap around.
SPECIFICATION FairSpec
CONSTANTS
    SEQNUM_MAX = 1
    SEQNUM_INITIAL = 1
    MaxChunks = 3
    UnreliableChunks = 2
    MaxMessages = 2
INVARIANTS
    TypeOK
    WholeOrShared
PROPERTIES
    FifoWhileShort
    UnreliableDiscarded
CHECK_DEADLOCK FALSE
