\* One order paid twice over, by two transactions reported twice each, next to
\* a resident who may cancel it; one failure or restart; under fairness.
CONSTANTS
    None = None
    s1 = s1
    p1 = p1
    m1 = m1
    Products = {p1}
    Shops = {s1}
    ShopOf <- MCShopOf
    Owner <- MCOwner
    Prices = {1005}
    MaxEdits = 1
    Residents = {alice}
    Admins = {}
    OrderIds = {o1}
    Transactions = {t1, t2}
    Requests = {r1}
    StatusChoices = {}
    Clients = {}
    MaxLines = 1
    MaxQuantity = 1
    Leavers = {alice}
    MaxFaults = 1
    PayRequests = {i1}
    Attempts = {a1, a2}
    TiesUp = {}
SPECIFICATION PaySpec
CHECK_DEADLOCK FALSE
INVARIANTS
    MarkedIsPaid
    PaidInFull
PROPERTIES
    ImplementsSettlement
