\* One node is edited while its block is on the wire.
SPECIFICATION Spec
CONSTANTS
    Block = {b1}
    NoBlock = NoBlock
    NotThere = NotThere
    MaxSends = 1
    MaxChanges = 0
    MaxInteracts = 1
INVARIANTS
    MarkedAsSentIsCurrent
CHECK_DEADLOCK FALSE
