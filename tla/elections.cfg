\* Votes, a view, timer and a failure or restart, under fairness.
CONSTANTS
    None = None
    Residents = {alice, bob}
    Leavers = {alice}
    Ballots = {e1}
    Choices = {c1, c2}
    Voters = {r1, r2}
    Horizon = 1
    MaxFaults = 1
    Modes = {"SEALED_UNTIL_DEADLINE", "LIVE_COUNT", "ADMIN_CONTROLLED"}
    Sweeps = {s1}
    Views = {w1}
SPECIFICATION ElectionSpec
CHECK_DEADLOCK FALSE
INVARIANTS
    SealKept
    AckedIsStored
PROPERTIES
    ImplementsBallotBox
    ResultsOpened
