\* One account, one request at a time, two instants, and nothing goes wrong.
CONSTANTS
    None = None
    Forever = Forever
    Emails <- MCEmails
    Lower <- MCLower
    Codes = {c1}
    Links = {k1}
    Times <- MCTwoTimes
    Profiles <- MCSessions
    Slots = {q1}
    MaxUpsets = 0
SPECIFICATION Safety
CHECK_DEADLOCK FALSE
PROPERTIES
    LoggedOutIsDead
