\* One or two threads, a client and a script that ask for blocks: two of one
\* chunk and one over the limit; blocks are unloaded, deleted and asked for
\* again.
SPECIFICATION FairSpec
CONSTANTS
    Peer = {q1}
    PEER_ID_INEXISTENT = nobody
    MaxThreads = 2
    Pos = {1, 2, 4}
    BlockLimit = 3
    chunksize = 2
    m_qlimit_total = 2
    m_qlimit_diskonly = 1
    m_qlimit_generate = 1
    Areas = {{1}, {1, 2}, {1, 4}}
    MaxCalls = 1
    MaxBlocks = 2
    MaxEvents = 2
INVARIANTS
    TypeOK
    QueuesMatch
    PeerCountsRight
    ClientsCurrent
    CallsCounted
    UnsentUntilGenerated
PROPERTIES
    ImplementsPromise
    EveryCallAnswered
    ThreadsEnd
\* The threads end when the server is shut down.
CHECK_DEADLOCK FALSE
