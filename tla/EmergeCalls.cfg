\* Two threads and one call of emerge_area() for the two blocks of a chunk.
SPECIFICATION Spec
CONSTANTS
    Peer = {}
    PEER_ID_INEXISTENT = nobody
    MaxThreads = 2
    Pos = {1, 2}
    BlockLimit = 3
    chunksize = 2
    m_qlimit_total = 2
    m_qlimit_diskonly = 1
    m_qlimit_generate = 1
    Areas = {{1, 2}}
    MaxCalls = 1
    MaxBlocks = 4
    MaxEvents = 0
INVARIANTS
    CallsRemainingTrue
CHECK_DEADLOCK FALSE
