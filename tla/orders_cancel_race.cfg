\* Documented: a resident cancels only while the order is PLACED.
CONSTANTS
    None = None
    s1 = s1
    s2 = s2
    p1 = p1
    p2 = p2
    m1 = m1
    m2 = m2
    Products = {p1}
    Shops = {s1, s2}
    ShopOf <- MCShopOf
    Owner <- MCOwner
    Prices = {1000}
    MaxEdits = 1
    Residents = {alice}
    Admins = {root}
    OrderIds = {o1}
    Transactions = {}
    Requests = {r1, r2}
    StatusChoices = {"CONFIRMED", "CANCELLED"}
    Clients = {c1}
    MaxLines = 1
    MaxQuantity = 1
    Leavers = {}
    MaxFaults = 0
SPECIFICATION Spec
CHECK_DEADLOCK FALSE
PROPERTIES
    CancelOnlyWhilePlaced
