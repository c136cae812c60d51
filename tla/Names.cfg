SPECIFICATION Spec
CHECK_DEADLOCK FALSE
CONSTANTS
    Chars <- MCChars
    Forbidden <- MCForbidden
    UpperOf <- MCUpper
    LowerOf <- MCLower
    Reserved <- MCReserved
    AllowedExts <- MCExts
    FileStem <- MCFile
    RenamedStem <- MCRenamed
    MaxStemLen = 7
    MaxExtLen = 3
    MaxNameLen = 10
    Sent <- MCSent
    Texts <- MCTexts
    Pairs <- MCPairs
    Starts = {9}
    Pads = {1, 2}
    MaxRounds = 2
INVARIANTS
    TypeOK
    NamesSafe
    NamesStable
    NumbersKeepApart
PROPERTIES
    ExtensionKept
    SettingsHold
