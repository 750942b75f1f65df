\* New accounts only, one request at a time, and nothing goes wrong.
CONSTANTS
    None = None
    Forever = Forever
    Emails <- MCEmails
    Lower <- MCLower
    Codes = {c1, c2, c3, c4}
    Links = {k1}
    Times <- MCOneTime
    Profiles <- MCNewAccounts
    Slots = {q1}
    MaxUpsets = 0
SPECIFICATION Safety
CHECK_DEADLOCK FALSE
INVARIANTS
    CodeVerifies
