\* Two connections that ask for the same name; one client is of the old
\* protocol.
SPECIFICATION FairSpec
CONSTANTS
    Peer = {p1, p2}
    Name = {n1}
    Old = {p2}
    PEER_ID_INEXISTENT = nobody
    MaxChanges = 2
INVARIANTS
    TypeOK
    ActiveHasPlayer
    EveryPlayerHasItsClient
PROPERTIES
    HeldUntilGone
    ImplementsPlayerSessions
    SettledInTheEnd
