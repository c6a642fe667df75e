SPECIFICATION FairSpec
CONSTANTS
    Address = {a1}
    a1 = a1
    MAX_UDP_PEERS = 5
    MaxDatagrams = 3
    MaxUses = 1
INVARIANTS
    TypeOK
    NoUseAfterFree
    NothingLeaked
    OnePeerEach
PROPERTIES
    ImplementsPeerEvents
    AllGoneInTheEnd
CHECK_DEADLOCK FALSE
