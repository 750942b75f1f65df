------------------------------- MODULE Orders -------------------------------
(***************************************************************************)
(* OrdersService (create, updateStatus, cancel), the OrdersGateway rooms   *)
(* and the notifications the two handlers start, next to merchants who edit *)
(* products and users who delete their accounts.  Node runs one callback   *)
(* at a time, so a request is a sequence of atomic steps separated by its  *)
(* awaits; every step below is the code between two awaits, and any number *)
(* of other requests may run in between.  Of all this only the deletion of *)
(* an account is a database transaction.                                   *)
(*                                                                         *)
(* A request that is refused (400, 403, 404) before it changed anything is *)
(* the step that is not taken, or a step that only frees its slot.         *)
(***************************************************************************)
EXTENDS ProductTable, Sequences, SequencesExt

CONSTANTS
    Residents, Admins,  \* users by role
    Owner,              \* the merchant of each shop; no code changes it
    OrderIds,           \* ids the database may generate
    Requests,           \* slots for requests in flight
    Transactions,       \* ids Paymob gives its transactions
    StatusChoices,      \* bound: the statuses staff choose from
    Clients,            \* socket connections to the /orders namespace
    MaxLines,           \* bound: lines in a cart
    MaxQuantity,        \* bound: quantity on a line
    Leavers,            \* bound: the users whose account may be deleted
    MaxFaults           \* bound: failed database calls and restarts

Merchants == {Owner[s] : s \in Shops}

ASSUME OrderAssumption ==
    /\ Shops = DOMAIN Owner
    /\ Residents \intersect (Admins \union Merchants) = {}
    /\ Leavers \subseteq Residents \union Merchants
    /\ MaxFaults \in Nat
    /\ MaxLines \in Nat
    /\ MaxQuantity \in Nat
    /\ None \notin OrderIds \union Transactions

VARIABLES
    orders,   \* orders[o]: the row of o, None before it is created
    req,      \* req[r]: what the request in slot r holds between two awaits
    rooms,    \* socket.io rooms: the <<client, order>> pairs that joined
    seen,     \* seen[c][o]: the last order:status_update of o that client c
              \* received since it joined the room of o, None if there was none
    pending,  \* NotificationsService.send calls started and not yet stored
    feed,     \* rows of the notifications table
    held,     \* history: held[o] is the set of statuses the row of o has had
    crossed,  \* history: crossed[o], the statuses of updates on their way to
              \* the room when the newest status of o was stored; all that o
              \* has had if the update with the newest is lost
    gone,     \* deleted accounts; a merchant takes shops and products along
    faults    \* failures so far

requestVars == <<orders, req, held, crossed>>
pushVars == <<rooms, seen, pending, feed>>
worldVars == <<gone, faults>>
vars == <<tableVars, requestVars, pushVars, worldVars>>

-----------------------------------------------------------------------------
Status == {"PLACED", "CONFIRMED", "PREPARING", "READY", "ON_THE_WAY",
           "DELIVERED", "CANCELLED"}

Method == {"CASH", "PAYMOB"}

CartLine == [product: Products, quantity: 1..MaxQuantity]

Carts == UNION {[1..n -> CartLine] : n \in 1..MaxLines}

OrderLine == [product: Products, quantity: 1..MaxQuantity, unitPrice: Prices]

Receipts == UNION {[1..n -> OrderLine] : n \in 1..MaxLines}

(* totalAmount: the sum of price times quantity over the lines. *)
OrderTotal(lines) ==
    FoldSeq(LAMBDA line, sum : sum + line.unitPrice * line.quantity, 0, lines)

Totals == {OrderTotal(lines) : lines \in Receipts}

(* "deleted" stands for a row that is no longer in the table; what it was is *)
(* kept so that properties can say whose order it had been.                 *)
OrderRow == [resident: Residents, shop: Shops, status: Status,
             lines: Receipts, total: Totals, method: Method,
             isPaid: BOOLEAN, paymobRef: Transactions \union {None},
             cancelledAt: BOOLEAN, deleted: BOOLEAN]

(* A request between two awaits.  "pc" names the statement it resumes at.   *)
(* overtaken is a history flag: another request wrote the status of the    *)
(* same order since this one read or wrote it.                             *)
Request == [pc: {"create", "statusOwner", "statusWrite", "statusEmit",
                 "cancelWrite", "cancelEmit", "cancelShop"},
            actor: Residents \union Admins \union Merchants,
            order: OrderIds \union {None},
            status: Status,
            lines: Receipts \union {<<>>},
            method: Method,
            overtaken: BOOLEAN]

Notice == [to: Residents \union Merchants, order: OrderIds, status: Status]

ASSUME RowAssumption ==
    /\ StatusChoices \subseteq Status
    /\ None \notin Status
    /\ None \notin ProductRow \union OrderRow \union Request

(* What a query for the order finds. *)
Listed(o) == orders[o] # None /\ ~orders[o].deleted

Active(r) == req[r] # None

At(r, pc) == Active(r) /\ req[r].pc = pc

Goto(r, pc) == req' = [req EXCEPT ![r].pc = pc]

Finish(r) == req' = [req EXCEPT ![r] = None]

-----------------------------------------------------------------------------
(* POST /orders *)

(* Fault: the where clause forgets isAvailable and isDeleted. *)
FoundAny(cart) == {p \in {cart[i].product : i \in DOMAIN cart} : products[p] # None}

(* findMany returns each matching row once, however often its id is in the *)
(* cart, so a product listed twice fails the length test as well.          *)
Found(cart) == {p \in {cart[i].product : i \in DOMAIN cart} : OnSale(products[p])}

AllFound(cart) == Cardinality(Found(cart)) = Len(cart)

(* Fault: only an empty result is refused. *)
SomeShop(found) == found # {}

OneShop(found) == Cardinality({ShopOf[p] : p \in found}) = 1

(* Lines take price (and name) from the rows just read. *)
Priced(cart) ==
    [i \in DOMAIN cart |-> [product |-> cart[i].product,
                            quantity |-> cart[i].quantity,
                            unitPrice |-> products[cart[i].product].price]]

CreateRead(r, u, cart, method) ==
    /\ ~Active(r)
    /\ AllFound(cart)
    /\ OneShop(Found(cart))
    /\ req' = [req EXCEPT ![r] =
                  [pc |-> "create", actor |-> u, order |-> None, status |-> "PLACED",
                   lines |-> Priced(cart), method |-> method, overtaken |-> FALSE]]
    /\ UNCHANGED <<tableVars, orders, held, crossed, pushVars, worldVars>>

NewRow(q) ==
    [resident |-> q.actor, shop |-> ShopOf[q.lines[1].product], status |-> "PLACED",
     lines |-> q.lines, total |-> OrderTotal(q.lines), method |-> q.method,
     isPaid |-> FALSE, paymobRef |-> None, cancelledAt |-> FALSE, deleted |-> FALSE]

(* The foreign keys of the row to insert: resident, shop and products.      *)
Referenced(q) == {q.actor, Owner[ShopOf[q.lines[1].product]]}

CreateWrite(r, o) ==
    /\ At(r, "create")
    /\ Referenced(req[r]) \intersect gone = {}
    /\ orders[o] = None
    /\ orders' = [orders EXCEPT ![o] = NewRow(req[r])]
    /\ held' = [held EXCEPT ![o] = @ \union {"PLACED"}]
    /\ Finish(r)
    /\ UNCHANGED <<tableVars, crossed, pushVars, worldVars>>

-----------------------------------------------------------------------------
(* A status is stored and the room of its order not yet told. *)
Underway(r) == At(r, "statusEmit") \/ At(r, "cancelEmit")

(* The write of a status by request r, and who it overtakes. *)
WriteStatus(r, row, next) ==
    LET o == req[r].order
    IN  /\ orders' = [orders EXCEPT ![o] = row]
        /\ held' = [held EXCEPT ![o] = @ \union {row.status}]
        /\ crossed' = [crossed EXCEPT ![o] =
               {req[q].status : q \in {x \in Requests \ {r} : Underway(x) /\ req[x].order = o}}]
        /\ req' = [q \in Requests |->
                      IF q = r THEN [req[r] EXCEPT !.pc = next, !.overtaken = FALSE]
                      ELSE IF Active(q) /\ req[q].order = o
                           THEN [req[q] EXCEPT !.overtaken = TRUE]
                           ELSE req[q]]

(* emitStatusUpdate: to every client in the room of the order. *)
Emit(o, status) ==
    seen' = [c \in Clients |->
               IF <<c, o>> \in rooms THEN [seen[c] EXCEPT ![o] = status] ELSE seen[c]]

Notify(user, o, status) ==
    pending' = pending \union {[to |-> user, order |-> o, status |-> status]}

(* PATCH /orders/:id/status and /merchant/orders/:id/status *)
(* A merchant's request next reads the shop; an admin's goes on to write. *)
StatusRead(r, u, o, status) ==
    /\ ~Active(r)
    /\ u \in Merchants \union Admins
    /\ Listed(o)
    /\ req' = [req EXCEPT ![r] =
                  [pc |-> IF u \in Admins THEN "statusWrite" ELSE "statusOwner",
                   actor |-> u, order |-> o, status |-> status,
                   lines |-> <<>>, method |-> "CASH", overtaken |-> FALSE]]
    /\ UNCHANGED <<tableVars, orders, held, crossed, pushVars, worldVars>>

(* Fault: any merchant may update any order. *)
OwnsSomeShop(u, o) == u \in Merchants

OwnsShop(u, o) == Owner[orders[o].shop] = u /\ u \notin gone

(* Fault: the room is told before the row is written. *)
StatusOwnerEmits(r) ==
    /\ At(r, "statusOwner")
    /\ IF OwnsShop(req[r].actor, req[r].order)
       THEN Goto(r, "statusWrite") /\ Emit(req[r].order, req[r].status)
       ELSE Finish(r) /\ UNCHANGED seen
    /\ UNCHANGED <<tableVars, orders, held, crossed, rooms, pending, feed, worldVars>>

StatusOwner(r) ==
    /\ At(r, "statusOwner")
    /\ IF OwnsShop(req[r].actor, req[r].order) THEN Goto(r, "statusWrite") ELSE Finish(r)
    /\ UNCHANGED <<tableVars, orders, held, crossed, pushVars, worldVars>>

(* Any status may follow any other: the row is not looked at again. *)
StatusWrite(r) ==
    /\ At(r, "statusWrite")
    /\ Listed(req[r].order)
    /\ WriteStatus(r, [orders[req[r].order] EXCEPT !.status = req[r].status], "statusEmit")
    /\ UNCHANGED <<tableVars, pushVars, worldVars>>

StatusEmit(r) ==
    LET o == req[r].order
    IN  /\ At(r, "statusEmit")
        /\ Emit(o, req[r].status)
        /\ Notify(orders[o].resident, o, req[r].status)
        /\ Finish(r)
        /\ UNCHANGED <<tableVars, orders, held, crossed, rooms, feed, worldVars>>

-----------------------------------------------------------------------------
(* PATCH /orders/:id/cancel *)

MayCancel(u, row) == row.resident = u /\ row.status = "PLACED"

CancelRead(r, u, o) ==
    /\ ~Active(r)
    /\ Listed(o)
    /\ MayCancel(u, orders[o])
    /\ req' = [req EXCEPT ![r] =
                  [pc |-> "cancelWrite", actor |-> u, order |-> o, status |-> "CANCELLED",
                   lines |-> <<>>, method |-> "CASH", overtaken |-> FALSE]]
    /\ UNCHANGED <<tableVars, orders, held, crossed, pushVars, worldVars>>

(* Fault: the date is stored and the status forgotten. *)
CancelWriteDate(r) ==
    /\ At(r, "cancelWrite")
    /\ Listed(req[r].order)
    /\ WriteStatus(r, [orders[req[r].order] EXCEPT !.cancelledAt = TRUE], "cancelEmit")
    /\ UNCHANGED <<tableVars, pushVars, worldVars>>

(* The update is keyed by id alone: the status it was checked for may be gone. *)
CancelWrite(r) ==
    /\ At(r, "cancelWrite")
    /\ Listed(req[r].order)
    /\ WriteStatus(r, [orders[req[r].order] EXCEPT !.status = "CANCELLED",
                                                  !.cancelledAt = TRUE], "cancelEmit")
    /\ UNCHANGED <<tableVars, pushVars, worldVars>>

CancelEmit(r) ==
    /\ At(r, "cancelEmit")
    /\ Emit(req[r].order, "CANCELLED")
    /\ Goto(r, "cancelShop")
    /\ UNCHANGED <<tableVars, orders, held, crossed, rooms, pending, feed, worldVars>>

(* A shop that is gone has nobody to notify. *)
CancelShop(r) ==
    LET o == req[r].order
    IN  /\ At(r, "cancelShop")
        /\ IF Owner[orders[o].shop] \in gone
           THEN UNCHANGED pending
           ELSE Notify(Owner[orders[o].shop], o, "CANCELLED")
        /\ Finish(r)
        /\ UNCHANGED <<tableVars, orders, held, crossed, rooms, seen, feed, worldVars>>

-----------------------------------------------------------------------------
(* NotificationsService.send stores the in-app row first; a rejected send,   *)
(* such as one to a user who is gone, is swallowed by the catch of its       *)
(* caller.                                                                  *)
NoticeStored(n) ==
    /\ n \in pending
    /\ n.to \notin gone
    /\ pending' = pending \ {n}
    /\ feed' = feed \union {n}
    /\ UNCHANGED <<tableVars, requestVars, rooms, seen, worldVars>>

NoticeLost(n) ==
    /\ n \in pending
    /\ \/ n.to \in gone /\ UNCHANGED faults
       \/ faults < MaxFaults /\ faults' = faults + 1
    /\ pending' = pending \ {n}
    /\ UNCHANGED <<tableVars, requestVars, rooms, seen, feed, gone>>

Unseen == [o \in OrderIds |-> None]

(* order:join, order:leave and the end of a connection *)
Join(c, o) ==
    /\ rooms' = rooms \union {<<c, o>>}
    /\ UNCHANGED <<tableVars, requestVars, seen, pending, feed, worldVars>>

Leave(c, o) ==
    /\ rooms' = rooms \ {<<c, o>>}
    /\ seen' = [seen EXCEPT ![c][o] = None]
    /\ UNCHANGED <<tableVars, requestVars, pending, feed, worldVars>>

Disconnect(c) ==
    /\ rooms' = {m \in rooms : m[1] # c}
    /\ seen' = [seen EXCEPT ![c] = Unseen]
    /\ UNCHANGED <<tableVars, requestVars, pending, feed, worldVars>>

-----------------------------------------------------------------------------
(* A database call rejects, or its answer is lost after it took effect: the *)
(* request ends with a 500 wherever it was.  If it had stored the newest    *)
(* status, no update tells the room of it.                                  *)
Fail(r) ==
    /\ Active(r)
    /\ faults < MaxFaults
    /\ faults' = faults + 1
    /\ Finish(r)
    /\ crossed' = IF Underway(r) /\ ~req[r].overtaken
                  THEN [crossed EXCEPT ![req[r].order] = held[req[r].order]] ELSE crossed
    /\ UNCHANGED <<tableVars, orders, held, pushVars, gone>>

(* The database rejects a write because the row, or one that it refers to,   *)
(* went with an account.                                                    *)
Rejected(r) ==
    /\ \/ At(r, "create") /\ Referenced(req[r]) \intersect gone # {}
       \/ (At(r, "statusWrite") \/ At(r, "cancelWrite")) /\ ~Listed(req[r].order)
    /\ Finish(r)
    /\ UNCHANGED <<tableVars, orders, held, crossed, pushVars, worldVars>>

(* The process stops and is restarted: requests, rooms and unfinished sends *)
(* are in memory, the tables are not.                                       *)
Crash ==
    /\ faults < MaxFaults
    /\ faults' = faults + 1
    /\ req' = [r \in Requests |-> None]
    /\ rooms' = {}
    /\ seen' = [c \in Clients |-> Unseen]
    /\ pending' = {}
    /\ UNCHANGED <<tableVars, orders, held, crossed, feed, gone>>

-----------------------------------------------------------------------------
(* UserService.deleteUser: one transaction.  It takes the orders the user    *)
(* placed or received, the products and the notifications; a row another    *)
(* request adds before the commit makes it fail, which is no step.          *)
Theirs(u) == {o \in OrderIds : Listed(o) /\ u \in {orders[o].resident, Owner[orders[o].shop]}}

(* Fault: the orders in the shops of a merchant are left. *)
DeletePlaced(u) ==
    /\ u \in Leavers \ gone
    /\ gone' = gone \union {u}
    /\ orders' = [o \in OrderIds |-> IF Listed(o) /\ orders[o].resident = u
                                     THEN [orders[o] EXCEPT !.deleted = TRUE] ELSE orders[o]]
    /\ feed' = {n \in feed : n.to # u}
    /\ UNCHANGED <<tableVars, req, rooms, seen, pending, held, crossed, faults>>

DeleteUser(u) ==
    /\ u \in Leavers \ gone
    /\ gone' = gone \union {u}
    /\ orders' = [o \in OrderIds |->
                     IF o \in Theirs(u) THEN [orders[o] EXCEPT !.deleted = TRUE] ELSE orders[o]]
    /\ products' = [p \in Products |-> IF Owner[ShopOf[p]] = u THEN None ELSE products[p]]
    /\ feed' = {n \in feed : n.to # u}
    /\ UNCHANGED <<offered, edits, req, rooms, seen, pending, held, crossed, faults>>

Init ==
    /\ TableInit
    /\ orders = [o \in OrderIds |-> None]
    /\ req = [r \in Requests |-> None]
    /\ rooms = {}
    /\ seen = [c \in Clients |-> Unseen]
    /\ pending = {}
    /\ feed = {}
    /\ held = [o \in OrderIds |-> {}]
    /\ crossed = [o \in OrderIds |-> {}]
    /\ gone = {}
    /\ faults = 0

(* The steps a request takes once it is in the process. *)
Proceed(r) ==
    \/ \E o \in OrderIds : CreateWrite(r, o)
    \/ StatusOwner(r) \/ StatusWrite(r) \/ StatusEmit(r)
    \/ CancelWrite(r) \/ CancelEmit(r) \/ CancelShop(r)
    \/ Rejected(r)

Arrive(r) ==
    \/ \E u \in Residents, cart \in Carts, m \in Method : CreateRead(r, u, cart, m)
    \/ \E u \in Residents, o \in OrderIds : CancelRead(r, u, o)
    \/ \E u \in Merchants \union Admins, o \in OrderIds, s \in StatusChoices : StatusRead(r, u, o, s)

Push ==
    \/ \E n \in pending : NoticeStored(n) \/ NoticeLost(n)
    \/ \E c \in Clients : Disconnect(c) \/ \E o \in OrderIds : Join(c, o) \/ Leave(c, o)

(* Statements on products; those of a shop that is gone find no row.        *)
EditTable ==
    /\ TableNext
    /\ \A p \in Products : Owner[ShopOf[p]] \in gone => products'[p] = products[p]
    /\ UNCHANGED <<requestVars, pushVars, worldVars>>

(* Every step of the marketplace but the restart of the process. *)
Step ==
    \/ EditTable
    \/ \E r \in Requests : Arrive(r) \/ Proceed(r) \/ Fail(r)
    \/ Push
    \/ \E u \in Leavers : DeleteUser(u)

Next == Step \/ Crash

Spec == Init /\ [][Next]_vars

-----------------------------------------------------------------------------
(* Types, and what a request may rely on: it is about an order that was in   *)
(* the table when it was read, as updateStatus and cancel answer 404 before *)
(* they get any further.                                                    *)
TypeOK ==
    /\ TableTypeOK
    /\ orders \in [OrderIds -> OrderRow \union {None}]
    /\ req \in [Requests -> Request \union {None}]
    /\ rooms \subseteq Clients \X OrderIds
    /\ seen \in [Clients -> [OrderIds -> Status \union {None}]]
    /\ pending \subseteq Notice
    /\ feed \subseteq Notice
    /\ held \in [OrderIds -> SUBSET Status]
    /\ crossed \in [OrderIds -> SUBSET Status]
    /\ gone \subseteq Leavers
    /\ faults \in 0..MaxFaults
    /\ \A r \in Requests : Active(r) =>
          IF req[r].pc = "create"
          THEN req[r].order = None /\ req[r].lines \in Receipts /\ req[r].actor \in Residents
          ELSE req[r].order # None /\ orders[req[r].order] # None

(* cancel reads the order, tests PLACED and writes by id.  The window is    *)
(* closed but for a status written in between: a cancellation about to be   *)
(* stored whose order nobody wrote since it was read is for a PLACED order. *)
CheckedCancelIsPlaced ==
    \A r \in Requests :
        At(r, "cancelWrite") /\ ~req[r].overtaken => orders[req[r].order].status = "PLACED"

(* How far the room of an order may fall behind.  Once the newest status    *)
(* has been broadcast, every client in the room was last told that status,  *)
(* or one whose update had been stored before it and was still on its way    *)
(* to the room: an update that had already arrived is never the last word.  *)
(* Only an update that a failure swallowed leaves the room where it was.    *)
RoomFollows ==
    \A o \in OrderIds :
        orders[o] # None /\ (\A r \in Requests : Underway(r) /\ req[r].order = o => req[r].overtaken)
            => \A c \in Clients : seen[c][o] \in crossed[o] \union {orders[o].status, None}

(* Nobody is told of a status the order never had, whether by socket, by a  *)
(* notification under way or in the feed, and whatever fails in between.    *)
ToldWasHeld ==
    /\ \A c \in Clients, o \in OrderIds : seen[c][o] \in held[o] \union {None}
    /\ \A n \in pending \union feed : n.status \in held[n.order]

(* A notification about an order goes to its resident; the merchant of its  *)
(* shop gets one only for an order its resident cancelled.                  *)
NoticeAddressee ==
    \A n \in pending \union feed :
        LET row == orders[n.order]
        IN  /\ row # None
            /\ \/ n.to = row.resident
               \/ n.to = Owner[row.shop] /\ n.status = "CANCELLED" /\ row.cancelledAt

(* The receipt of an order: every line has a price at which the product was *)
(* on sale, whatever merchants edited between the read and the insert, each *)
(* product has one line, and all belong to the shop of the order.           *)
ReceiptWasOffered ==
    \A o \in OrderIds : orders[o] # None =>
        \A i \in DOMAIN orders[o].lines :
            <<orders[o].lines[i].product, orders[o].lines[i].unitPrice>> \in offered

ReceiptIsOfOneShop ==
    \A o \in OrderIds : orders[o] # None =>
        LET lines == orders[o].lines
        IN  /\ \A i \in DOMAIN lines : ShopOf[lines[i].product] = orders[o].shop
            /\ \A i, j \in DOMAIN lines : lines[i].product = lines[j].product => i = j

(* What deleteUser erased stays erased, although requests that were read     *)
(* before go on: no order of, or from, a user who is gone is ever stored     *)
(* again, nor a notification to them, nor a product of their shops.          *)
ErasedStaysErased ==
    /\ \A o \in OrderIds : Listed(o) => {orders[o].resident, Owner[orders[o].shop]} \intersect gone = {}
    /\ \A n \in feed : n.to \notin gone
    /\ \A p \in Products : products[p] # None => Owner[ShopOf[p]] \notin gone

(* A status changes only at the hand of an admin, of the merchant who owns   *)
(* the shop or, towards CANCELLED, of the resident who placed the order,     *)
(* although who that is was tested several steps earlier.                    *)
StatusChangeAuthorised ==
    [][\A o \in OrderIds :
         orders[o] # None /\ orders'[o].status # orders[o].status =>
            \E r \in Requests :
                /\ Active(r)
                /\ req[r].order = o
                /\ \/ req[r].actor \in Admins \union {Owner[orders[o].shop]}
                   \/ req[r].actor = orders[o].resident /\ orders'[o].status = "CANCELLED"]_vars

-----------------------------------------------------------------------------
(* A statement of the documentation that the code does not keep.           *)

(* "resident can cancel only while status = PLACED" (Documentation/GUIDE.md) *)
CancelOnlyWhilePlaced ==
    [][\A o \in OrderIds :
         orders[o] # None /\ ~orders[o].cancelledAt /\ orders'[o].cancelledAt
            => orders[o].status = "PLACED"]_vars
=============================================================================
