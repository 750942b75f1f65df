\* Two residents vote on one poll while two views read it.
CONSTANTS
    None = None
    Residents = {alice, bob}
    Leavers = {alice}
    Ballots = {p1}
    Choices = {yes, no}
    Voters = {r1, r2}
    Horizon = 1
    MaxFaults = 1
    Views = {w1, w2}
SPECIFICATION PollSpec
CHECK_DEADLOCK FALSE
SYMMETRY Symmetry
INVARIANTS
    ResultsAgree
