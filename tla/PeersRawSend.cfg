SPECIFICATION Spec
CONSTANTS
    Address = {a1}
    a1 = a1
    MAX_UDP_PEERS = 5
    MaxDatagrams = 2
    MaxUses = 1
INVARIANT
    RawSendFindsPeer
CHECK_DEADLOCK FALSE
