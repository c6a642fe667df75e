\* Two blocks of which one is sent at a time.
SPECIFICATION FairSpec
CONSTANTS
    Block = {b1, b2}
    NoBlock = NoBlock
    NotThere = NotThere
    MaxSends = 1
    MaxChanges = 2
    MaxInteracts = 1
INVARIANTS
    TypeOK
    SentBlocksCurrent
    SendingIsAnswered
PROPERTIES
    CurrentInTheEnd
\* Nothing more happens once every block is sent and all changes are used up.
CHECK_DEADLOCK FALSE
