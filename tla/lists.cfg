\* A client walks through lists of up to four rows.
CONSTANTS
    None = None
    Malformed = Malformed
    MaxRow = 4
    Limits = {0, 1, 2, None}
    Asks <- MCAsks
    Config <- MCConfig
    Attributes <- MCAttributes
SPECIFICATION Spec
CHECK_DEADLOCK FALSE
INVARIANTS
    TypeOK
    NoRowTwice
    OnlyCursorsMissed
    BuilderMissesNone
    OffsetReachesAll
    OnlyAskedFor
PROPERTIES
    WalkEnds
