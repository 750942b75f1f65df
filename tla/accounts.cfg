\* New accounts, forgotten passwords, or sessions under three expiries; two requests at a time,
\* two spellings of one address.
CONSTANTS
    None = None
    Forever = Forever
    Emails <- MCEmails
    Lower <- MCLower
    Codes = {c1, c2, c3, c4}
    Links = {k1, k2}
    Times <- MCTimes
    Profiles <- MCProfiles
    Slots = {q1, q2}
    MaxUpsets = 1
SPECIFICATION Spec
CHECK_DEADLOCK FALSE
INVARIANTS
    CodeOnce
    LinkOnce
    RevokedIsRefused
PROPERTIES
    RegisteredVerifies
