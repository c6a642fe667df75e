\* Two messages of one or two pieces, of either kind.
SPECIFICATION Spec
CONSTANTS
    SEQNUM_MAX = 3
    SEQNUM_INITIAL = 3
    MaxChunks = 2
    UnreliableChunks = 2
    MaxMessages = 2
INVARIANT WholeMessages
CHECK_DEADLOCK FALSE
