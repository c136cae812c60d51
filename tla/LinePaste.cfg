SPECIFICATION Spec
CHECK_DEADLOCK FALSE
CONSTANTS
    MsgChars = 7
    MsgCount = 2
    Overhead = 3
    Header = 2
    Note = 6
    Lengths <- MCLengths
    SelectorLines = 4
    MaxLines = 5
INVARIANTS
    TypeOK
    PasteFaithful
    MessagesBounded
    RefusedRightly
