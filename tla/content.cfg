\* Two requests at a time about the rows of one scope.
CONSTANTS
    None = None
    r1 = r1
    m1 = m1
    m2 = m2
    a1 = a1
    Residents = {r1}
    Merchants = {m1, m2}
    Admins = {a1}
    Leavers = {r1, m1}
    Rows <- MCRows
    Kind <- MCKind
    Refs <- MCRefs
    Seeds <- MCSeeds
    Scopes <- MCScopes
    Slots = {q1, q2}
    MaxInserts = 3
    MaxFaults = 1
SPECIFICATION Spec
CHECK_DEADLOCK FALSE
INVARIANTS
    TypeOK
    WriteIsOwn
    MutedIsQuiet
PROPERTIES
    RemovedStaysRemoved
    CascadeIsComplete
    DeletionSucceeds
