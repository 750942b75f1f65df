\* Two shops edit and remove products at two prices while a cart of up to two
\* lines is on its way; or two requests at work on an order of one product, a
\* merchant of another shop, an admin and a subscribed client.
CONSTANTS
    None = None
    s1 = s1
    s2 = s2
    p1 = p1
    p2 = p2
    m1 = m1
    m2 = m2
    Products = {p1, p2}
    Shops = {s1, s2}
    ShopOf <- MCShopOf
    Owner <- MCOwner
    Prices = {1000, 2005}
    MaxEdits = 4
    Residents = {alice}
    Admins = {root}
    OrderIds = {o1}
    Transactions = {}
    Requests = {r1, r2}
    StatusChoices = {"CONFIRMED", "CANCELLED"}
    Clients = {c1}
    MaxLines = 2
    MaxQuantity = 1
    Leavers = {alice, m1}
    MaxFaults = 1
SPECIFICATION Spec
CHECK_DEADLOCK FALSE
SYMMETRY Symmetry
CONSTRAINT CartsOrProduct
INVARIANTS
    RoomFollows
    ToldWasHeld
    ErasedStaysErased
    ReceiptWasOffered
    ReceiptIsOfOneShop
PROPERTIES
    StatusChangeAuthorised
