\* An unconfirmed request is discarded, and another turn is sent.
CONSTANTS
    Titles = {a, b}
    Words = {a}
    MaxBlocks = 2
    MaxMessages = 5
    MaxEdits = 1
    None = None
SPECIFICATION Spec
INVARIANT TurnsReadable
CHECK_DEADLOCK FALSE
