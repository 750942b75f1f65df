\* A client walks through a list of up to four rows that stays as it is.
CONSTANTS
    None = None
    Malformed = Malformed
    MaxRow = 4
    Limits = {1, 2}
    Asks <- NoAsks
    Config <- MCConfig
    Attributes <- MCAttributes
SPECIFICATION Spec
CHECK_DEADLOCK FALSE
INVARIANTS
    NothingMissed
