------------------------- MODULE MarketplaceProofs -------------------------
(* Theorems about Orders, and about Payments, which is built on it, for     *)
(* every value of their constants.                                         *)
EXTENDS Payments, FiniteSetTheorems, TLAPS

-----------------------------------------------------------------------------
(* Orders. *)

(* A cart that passed both tests of OrdersService.create lists products     *)
(* that are all on sale, each of them once, and all of one shop.            *)
LEMMA CartAccepted ==
    ASSUME NEW cart \in Carts, AllFound(cart), OneShop(Found(cart))
    PROVE  /\ \A i \in DOMAIN cart : OnSale(products[cart[i].product])
           /\ \A i, j \in DOMAIN cart : cart[i].product = cart[j].product => i = j
           /\ \A i, j \in DOMAIN cart : ShopOf[cart[i].product] = ShopOf[cart[j].product]
<1>1. PICK n \in 1..MaxLines : cart \in [1..n -> CartLine]
    BY DEF Carts
<1>2. n \in Nat /\ n \in Int /\ n >= 1 /\ DOMAIN cart = 1..n /\ Len(cart) = n
  <2>1. n \in Nat /\ n >= 1
    BY <1>1, OrderAssumption
  <2>2. DOMAIN cart = 1..n /\ cart \in Seq(CartLine)
    BY <1>1, <2>1
  <2> QED BY <2>1, <2>2
<1> DEFINE ids == {cart[i].product : i \in DOMAIN cart}
           pick == [i \in 1..n |-> cart[i].product]
<1>3. IsFiniteSet(1..n) /\ Cardinality(1..n) = n
    BY <1>2, FS_Interval
<1>4. pick \in Surjection(1..n, ids)
    BY <1>2 DEF Surjection
<1>5. /\ IsFiniteSet(ids)
      /\ Cardinality(ids) <= n
      /\ Cardinality(ids) = n <=> pick \in Injection(1..n, ids)
    BY <1>3, <1>4, FS_Surjection
<1>6. Found(cart) \in SUBSET ids
    BY DEF Found
<1>7. /\ IsFiniteSet(Found(cart))
      /\ Cardinality(Found(cart)) <= Cardinality(ids)
      /\ Cardinality(ids) = Cardinality(Found(cart)) => ids = Found(cart)
    BY <1>5, <1>6, FS_Subset
<1>8. Cardinality(ids) \in Nat
    BY <1>5, FS_CardinalityType
<1>9. Cardinality(Found(cart)) = n
    BY <1>2 DEF AllFound
<1>10. Cardinality(ids) = n
    BY <1>2, <1>5, <1>7, <1>8, <1>9
<1>11. ids = Found(cart)
    BY <1>7, <1>9, <1>10
<1>12. \A i \in DOMAIN cart : OnSale(products[cart[i].product])
    BY <1>11 DEF Found
<1>13. pick \in Injection(1..n, ids)
    BY <1>5, <1>10
<1>14. \A i, j \in DOMAIN cart : cart[i].product = cart[j].product => i = j
    BY <1>2, <1>13 DEF Injection, IsInjective
<1>15. \A i, j \in DOMAIN cart : ShopOf[cart[i].product] = ShopOf[cart[j].product]
  <2> DEFINE of == {ShopOf[p] : p \in Found(cart)}
  <2>1. Cardinality(of) = 1
    BY DEF OneShop
  <2>2. IsFiniteSet(of)
    <3> DEFINE map == [p \in Found(cart) |-> ShopOf[p]]
    <3>1. map \in Surjection(Found(cart), of)
      BY DEF Surjection
    <3> QED BY <3>1, <1>7, FS_Surjection
  <2>3. PICK x : of = {x}
    BY <2>1, <2>2, FS_Singleton
  <2> QED BY <1>11, <2>3
<1> QED BY <1>12, <1>14, <1>15

(* What create computes from an accepted cart is a receipt. *)
LEMMA PricedIsReceipt ==
    ASSUME TableTypeOK, NEW cart \in Carts, AllFound(cart), OneShop(Found(cart))
    PROVE  /\ Priced(cart) \in Receipts
           /\ DOMAIN Priced(cart) = DOMAIN cart
           /\ 1 \in DOMAIN cart
<1>1. PICK n \in 1..MaxLines : cart \in [1..n -> CartLine]
    BY DEF Carts
<1>2. \A i \in 1..n : OnSale(products[cart[i].product])
    BY <1>1, CartAccepted
<1>3. \A i \in 1..n : cart[i].product \in Products /\ cart[i].quantity \in 1..MaxQuantity
    BY <1>1 DEF CartLine
<1>4. \A i \in 1..n : products[cart[i].product].price \in Prices
    BY <1>2, <1>3 DEF OnSale, TableTypeOK, ProductRow
<1>5. Priced(cart) \in [1..n -> OrderLine]
    BY <1>1, <1>3, <1>4 DEF Priced, OrderLine
<1>6. 1 \in 1..n
    BY <1>1, OrderAssumption
<1> QED BY <1>1, <1>5, <1>6 DEF Receipts, Priced

-----------------------------------------------------------------------------
LEMMA TableTyped == TableTypeOK /\ TableNext => TableTypeOK'
<1> SUFFICES ASSUME TableTypeOK, TableNext PROVE TableTypeOK'
    OBVIOUS
<1> USE ProductAssumption, RowAssumption
<1>1. ASSUME NEW p \in Products, NEW row \in ProductRow, WriteRow(p, row)
      PROVE  TableTypeOK'
    BY <1>1 DEF TableTypeOK, WriteRow, ProductRow
<1>2. PICK p \in Products :
        \/ \E price \in Prices, available \in BOOLEAN :
               ProductCreate(p, price, available) \/ ProductEdit(p, price, available)
        \/ ProductRemove(p)
    BY DEF TableNext
<1>3. ASSUME NEW price \in Prices, NEW available \in BOOLEAN,
             ProductCreate(p, price, available)
      PROVE  TableTypeOK'
    BY <1>1, <1>3 DEF ProductCreate, ProductRow
<1>4. ASSUME NEW price \in Prices, NEW available \in BOOLEAN,
             ProductEdit(p, price, available)
      PROVE  TableTypeOK'
    BY <1>1, <1>4 DEF ProductEdit, ProductRow, TableTypeOK
<1>5. CASE ProductRemove(p)
    BY <1>1, <1>5 DEF ProductRemove, ProductRow, TableTypeOK
<1> QED BY <1>2, <1>3, <1>4, <1>5

(* A write of a status keeps the types, whichever of the two rows it is.    *)
LEMMA WriteStatusTyped ==
    ASSUME TypeOK, NEW r \in Requests, NEW row \in OrderRow,
           NEW next \in {"statusEmit", "cancelEmit"},
           Active(r), req[r].pc # "create", WriteStatus(r, row, next),
           UNCHANGED <<tableVars, pushVars, worldVars>>
    PROVE  TypeOK'
<1> USE RowAssumption, OrderAssumption DEF Active
<1>1. req[r] \in Request /\ req[r].order \in OrderIds
    BY DEF TypeOK, Request
<1>2. TableTypeOK'
    BY DEF TypeOK, TableTypeOK, tableVars
<1>3. orders' \in [OrderIds -> OrderRow \union {None}]
    BY <1>1 DEF TypeOK, WriteStatus
<1>4. req' \in [Requests -> Request \union {None}]
  <2>1. [req[r] EXCEPT !.pc = next, !.overtaken = FALSE] \in Request
    BY <1>1 DEF Request
  <2>2. ASSUME NEW q \in Requests, req[q] # None
        PROVE  req[q] \in Request /\ [req[q] EXCEPT !.overtaken = TRUE] \in Request
    <3>1. req[q] \in Request
      BY <2>2 DEF TypeOK
    <3> QED BY <3>1 DEF Request
  <2>3. \A q \in Requests : req[q] \in Request \union {None}
    BY DEF TypeOK
  <2> QED BY <2>1, <2>2, <2>3 DEF WriteStatus
<1>5. held' \in [OrderIds -> SUBSET Status] /\ crossed' \in [OrderIds -> SUBSET Status]
  <2>1. held' \in [OrderIds -> SUBSET Status]
    BY <1>1 DEF TypeOK, WriteStatus, OrderRow
  <2>2. {req[q].status : q \in {x \in Requests \ {r} : Underway(x) /\ req[x].order = req[r].order}}
           \subseteq Status
    BY DEF TypeOK, Underway, At, Request
  <2> QED BY <1>1, <2>1, <2>2 DEF TypeOK, WriteStatus
<1>6. ASSUME NEW q \in Requests, Active(q)'
      PROVE  IF req'[q].pc = "create"
             THEN req'[q].order = None /\ req'[q].lines \in Receipts /\ req'[q].actor \in Residents
             ELSE req'[q].order # None /\ orders'[req'[q].order] # None
  <2>1. CASE q = r
    BY <2>1, <1>1 DEF TypeOK, WriteStatus, Request
  <2>2. CASE q # r
    BY <2>2, <1>1, <1>6 DEF TypeOK, WriteStatus, Request
  <2> QED BY <2>1, <2>2
<1> QED BY <1>2, <1>3, <1>4, <1>5, <1>6 DEF TypeOK, pushVars, worldVars

(* The deletion of an account leaves of a row all but the flag it sets.      *)
LEMMA DeletionRows ==
    ASSUME TypeOK, NEW u \in Leavers, DeleteUser(u), NEW o \in OrderIds
    PROVE  \/ orders[o] = None /\ orders'[o] = None
           \/ /\ orders[o] \in OrderRow /\ orders'[o] \in OrderRow
              /\ orders'[o].resident = orders[o].resident /\ orders'[o].shop = orders[o].shop
              /\ orders'[o].status = orders[o].status /\ orders'[o].lines = orders[o].lines
              /\ orders'[o].cancelledAt = orders[o].cancelledAt
<1> USE RowAssumption
<1>1. CASE orders[o] = None
    BY <1>1 DEF DeleteUser, Theirs, Listed
<1>2. CASE orders[o] # None
  <2>1. orders[o] \in OrderRow
    BY <1>2 DEF TypeOK
  <2>2. orders'[o] = orders[o] \/ orders'[o] = [orders[o] EXCEPT !.deleted = TRUE]
    BY DEF DeleteUser
  <2> QED BY <2>1, <2>2 DEF OrderRow
<1> QED BY <1>1, <1>2

(* A step that only begins a request about an order keeps the types.         *)
LEMMA BeginTyped ==
    ASSUME TypeOK, NEW r \in Requests, NEW q \in Request, q.pc # "create", q.order # None,
           orders[q.order] # None, req' = [req EXCEPT ![r] = q],
           UNCHANGED <<tableVars, orders, held, crossed, pushVars, worldVars>>
    PROVE  TypeOK'
<1> USE RowAssumption
<1>1. req' \in [Requests -> Request \union {None}]
    BY DEF TypeOK
<1>2. ASSUME NEW x \in Requests, Active(x)'
      PROVE  IF req'[x].pc = "create"
             THEN req'[x].order = None /\ req'[x].lines \in Receipts /\ req'[x].actor \in Residents
             ELSE req'[x].order # None /\ orders'[req'[x].order] # None
  <2>1. CASE x = r
    BY <2>1 DEF TypeOK
  <2>2. CASE x # r
    BY <1>2, <2>2 DEF TypeOK, Active
  <2> QED BY <2>1, <2>2
<1>3. TableTypeOK'
    BY DEF TypeOK, TableTypeOK, tableVars
<1> QED BY <1>1, <1>2, <1>3 DEF TypeOK, pushVars, worldVars

LEMMA StepTyped == TypeOK /\ [Next]_vars => TypeOK'
<1> SUFFICES ASSUME TypeOK, [Next]_vars PROVE TypeOK'
    OBVIOUS
<1> USE RowAssumption, OrderAssumption, ProductAssumption
<1>1. CASE EditTable
    BY <1>1, TableTyped DEF EditTable, TypeOK, requestVars, pushVars, worldVars, Active
<1>2. ASSUME NEW r \in Requests, NEW u \in Residents, NEW cart \in Carts, NEW m \in Method,
             CreateRead(r, u, cart, m)
      PROVE  TypeOK'
  <2>1. Priced(cart) \in Receipts
    BY <1>2, PricedIsReceipt DEF CreateRead, TypeOK
  <2> QED BY <1>2, <2>1 DEF CreateRead, TypeOK, TableTypeOK, tableVars, pushVars, worldVars, Active, Request, Status
<1>3. ASSUME NEW r \in Requests, NEW o \in OrderIds, CreateWrite(r, o)
      PROVE  TypeOK'
  <2>1. req[r] \in Request /\ req[r].lines \in Receipts /\ req[r].actor \in Residents
    BY <1>3 DEF CreateWrite, At, Active, TypeOK
  <2>2. NewRow(req[r]) \in OrderRow
    <3>1. req[r].lines[1] \in OrderLine
      BY <2>1 DEF Receipts
    <3> QED BY <2>1, <3>1 DEF NewRow, OrderRow, OrderLine, Request, Totals, Status
  <2> QED BY <1>3, <2>2 DEF CreateWrite, Finish, TypeOK, TableTypeOK, tableVars, pushVars, worldVars, Active, Status
<1>4. ASSUME NEW r \in Requests, NEW u \in Merchants \union Admins, NEW o \in OrderIds,
             NEW s \in StatusChoices, StatusRead(r, u, o, s)
      PROVE  TypeOK'
  <2> DEFINE q == [pc |-> IF u \in Admins THEN "statusWrite" ELSE "statusOwner",
                   actor |-> u, order |-> o, status |-> s,
                   lines |-> <<>>, method |-> "CASH", overtaken |-> FALSE]
  <2>1. q \in Request /\ q.pc # "create" /\ q.order = o
    BY DEF Request, Method
  <2>2. req' = [req EXCEPT ![r] = q] /\ orders[o] # None
    BY <1>4 DEF StatusRead, Listed
  <2> HIDE DEF q
  <2> QED BY <1>4, <2>1, <2>2, BeginTyped DEF StatusRead
<1>5. ASSUME NEW r \in Requests, StatusOwner(r)
      PROVE  TypeOK'
  <2>1. req[r] \in Request /\ req[r].pc = "statusOwner"
    BY <1>5 DEF StatusOwner, At, Active, TypeOK
  <2>2. CASE Goto(r, "statusWrite")
    <3>1. [req[r] EXCEPT !.pc = "statusWrite"] \in Request
      BY <2>1 DEF Request
    <3>2. req' = [req EXCEPT ![r] = [req[r] EXCEPT !.pc = "statusWrite"]]
      BY <2>2 DEF Goto
    <3> QED BY <1>5, <2>1, <3>1, <3>2 DEF StatusOwner, TypeOK, TableTypeOK, tableVars, pushVars, worldVars, Active, Request
  <2>3. CASE Finish(r)
    BY <1>5, <2>3 DEF StatusOwner, Finish, TypeOK, TableTypeOK, tableVars, pushVars, worldVars, Active
  <2> QED BY <1>5, <2>2, <2>3 DEF StatusOwner
<1>6. ASSUME NEW r \in Requests, StatusWrite(r)
      PROVE  TypeOK'
  <2>1. [orders[req[r].order] EXCEPT !.status = req[r].status] \in OrderRow
    BY <1>6 DEF StatusWrite, At, Active, TypeOK, OrderRow, Request
  <2> QED BY <1>6, <2>1, WriteStatusTyped DEF StatusWrite, At, Active
<1>7. ASSUME NEW r \in Requests, StatusEmit(r)
      PROVE  TypeOK'
  <2>1. /\ req[r] \in Request /\ req[r].order \in OrderIds
        /\ orders[req[r].order] \in OrderRow
    BY <1>7 DEF StatusEmit, At, Active, TypeOK, Request
  <2>2. seen' \in [Clients -> [OrderIds -> Status \union {None}]]
    BY <1>7, <2>1 DEF StatusEmit, Emit, TypeOK, Request
  <2>3. pending' \subseteq Notice
    BY <1>7, <2>1 DEF StatusEmit, Notify, Notice, TypeOK, Request, OrderRow
  <2> QED BY <1>7, <2>2, <2>3
          DEF StatusEmit, Finish, TypeOK, TableTypeOK, tableVars, worldVars, Active
<1>8. ASSUME NEW r \in Requests, NEW u \in Residents, NEW o \in OrderIds, CancelRead(r, u, o)
      PROVE  TypeOK'
  <2> DEFINE q == [pc |-> "cancelWrite", actor |-> u, order |-> o, status |-> "CANCELLED",
                   lines |-> <<>>, method |-> "CASH", overtaken |-> FALSE]
  <2>1. q \in Request /\ q.pc # "create" /\ q.order = o
    BY DEF Request, Method, Status
  <2>2. req' = [req EXCEPT ![r] = q] /\ orders[o] # None
    BY <1>8 DEF CancelRead, Listed
  <2> HIDE DEF q
  <2> QED BY <1>8, <2>1, <2>2, BeginTyped DEF CancelRead
<1>9. ASSUME NEW r \in Requests, CancelWrite(r)
      PROVE  TypeOK'
  <2>1. [orders[req[r].order] EXCEPT !.status = "CANCELLED", !.cancelledAt = TRUE] \in OrderRow
    <3>1. orders[req[r].order] \in OrderRow
      BY <1>9 DEF CancelWrite, At, Active, TypeOK, Request
    <3> QED BY <3>1 DEF OrderRow, Status
  <2> QED BY <1>9, <2>1, WriteStatusTyped DEF CancelWrite, At, Active
<1>10. ASSUME NEW r \in Requests, CancelEmit(r)
      PROVE  TypeOK'
  <2> DEFINE q == [req[r] EXCEPT !.pc = "cancelShop"]
  <2>1. /\ req[r] \in Request /\ req[r].pc = "cancelEmit"
        /\ req[r].order \in OrderIds /\ orders[req[r].order] # None
    BY <1>10 DEF CancelEmit, At, Active, TypeOK, Request
  <2>2. q \in Request /\ q.pc = "cancelShop" /\ q.order = req[r].order
    BY <2>1 DEF Request
  <2>3. req' = [req EXCEPT ![r] = q] /\ orders' = orders
    BY <1>10 DEF CancelEmit, Goto
  <2> HIDE DEF q
  <2>4. req' \in [Requests -> Request \union {None}]
    BY <2>2, <2>3 DEF TypeOK
  <2>5. seen' \in [Clients -> [OrderIds -> Status \union {None}]]
    BY <1>10, <2>1 DEF CancelEmit, Emit, TypeOK, Status
  <2>6. ASSUME NEW x \in Requests, Active(x)'
        PROVE  IF req'[x].pc = "create"
               THEN req'[x].order = None /\ req'[x].lines \in Receipts /\ req'[x].actor \in Residents
               ELSE req'[x].order # None /\ orders'[req'[x].order] # None
    <3>1. CASE x = r
      BY <2>1, <2>2, <2>3, <3>1 DEF TypeOK
    <3>2. CASE x # r
      BY <2>3, <2>6, <3>2 DEF TypeOK, Active
    <3> QED BY <3>1, <3>2
  <2> QED BY <1>10, <2>4, <2>5, <2>6 DEF CancelEmit, TypeOK, TableTypeOK, tableVars, worldVars
<1>11. ASSUME NEW r \in Requests, CancelShop(r)
      PROVE  TypeOK'
    BY <1>11 DEF CancelShop, Notify, Notice, Merchants, Finish, TypeOK, TableTypeOK, tableVars, pushVars, worldVars, At, Active, Request, OrderRow, Status
<1>12. ASSUME NEW r \in Requests, Fail(r)
      PROVE  TypeOK'
  <2>1. crossed' \in [OrderIds -> SUBSET Status]
    <3>1. CASE Underway(r)
      <4>1. req[r].order \in OrderIds
        BY <3>1 DEF Underway, At, Active, TypeOK, Request
      <4> QED BY <1>12, <4>1 DEF Fail, TypeOK
    <3>2. CASE ~Underway(r)
      BY <1>12, <3>2 DEF Fail, TypeOK
    <3> QED BY <3>1, <3>2
  <2> QED BY <1>12, <2>1 DEF Fail, Finish, TypeOK, TableTypeOK, tableVars, pushVars, worldVars, Active
<1>13. CASE Push
  <2>1. CASE \E n \in pending : NoticeStored(n) \/ NoticeLost(n)
    BY <2>1 DEF NoticeStored, NoticeLost, TypeOK, TableTypeOK, tableVars, requestVars, worldVars, Active
  <2>2. CASE \E c \in Clients, o \in OrderIds : Join(c, o)
    BY <2>2 DEF Join, TypeOK, TableTypeOK, tableVars, requestVars, worldVars, Active
  <2>3. CASE \E c \in Clients, o \in OrderIds : Leave(c, o)
    BY <2>3 DEF Leave, TypeOK, TableTypeOK, tableVars, requestVars, worldVars, Active
  <2>4. CASE \E c \in Clients : Disconnect(c)
    BY <2>4 DEF Disconnect, Unseen, TypeOK, TableTypeOK, tableVars, requestVars, worldVars, Active
  <2> QED BY <1>13, <2>1, <2>2, <2>3, <2>4 DEF Push
<1>14. CASE Crash
    BY <1>14 DEF Crash, Unseen, TypeOK, TableTypeOK, tableVars, Active
<1>15. CASE UNCHANGED vars
    BY <1>15 DEF vars, TypeOK, TableTypeOK, tableVars, requestVars, pushVars, worldVars, Active
<1>16. ASSUME NEW r \in Requests, Rejected(r)
       PROVE  TypeOK'
    BY <1>16 DEF Rejected, Finish, TypeOK, TableTypeOK, tableVars, pushVars, worldVars, Active
<1>17. ASSUME NEW u \in Leavers, DeleteUser(u)
       PROVE  TypeOK'
  <2>1. TableTypeOK' /\ gone' \subseteq Leavers /\ feed' \subseteq Notice
    BY <1>17 DEF DeleteUser, TypeOK, TableTypeOK
  <2>2. orders' \in [OrderIds -> OrderRow \union {None}]
    BY <1>17, DeletionRows DEF DeleteUser
  <2>3. req' = req /\ crossed' = crossed
    BY <1>17 DEF DeleteUser
  <2>4. ASSUME NEW r \in Requests, Active(r)'
        PROVE  IF req'[r].pc = "create"
               THEN req'[r].order = None /\ req'[r].lines \in Receipts /\ req'[r].actor \in Residents
               ELSE req'[r].order # None /\ orders'[req'[r].order] # None
    <3>1. Active(r) /\ req[r] \in Request /\ req'[r] = req[r]
      BY <2>3, <2>4 DEF Active, TypeOK
    <3>2. CASE req[r].pc = "create"
      BY <3>1, <3>2 DEF TypeOK
    <3>3. CASE req[r].pc # "create"
      <4>1. req[r].order \in OrderIds /\ orders[req[r].order] # None
        BY <3>1, <3>3 DEF TypeOK, Request
      <4> QED BY <3>1, <3>3, <4>1, <1>17, DeletionRows
    <3> QED BY <3>2, <3>3
  <2> QED BY <2>1, <2>2, <2>3, <2>4, <1>17 DEF DeleteUser, TypeOK
<1> QED BY <1>1, <1>2, <1>3, <1>4, <1>5, <1>6, <1>7, <1>8, <1>9, <1>10, <1>11, <1>12, <1>13, <1>14, <1>15,
           <1>16, <1>17
        DEF Next, Step, Arrive, Proceed

(* Every state has its types, and a request at work on an order finds its row. *)
THEOREM OrdersTyped == Spec => []TypeOK
<1>1. Init => TypeOK
    BY OrderAssumption, ProductAssumption DEF Init, TableInit, Unseen, TypeOK, TableTypeOK, Active
<1> QED BY <1>1, StepTyped, PTL DEF Spec

-----------------------------------------------------------------------------
(* What a request carries from one step to the next.                        *)
CarriedOK ==
    \A r \in Requests : Active(r) =>
        LET q == req[r]
        IN  /\ q.pc \in {"cancelWrite", "cancelEmit", "cancelShop"}
                  => q.status = "CANCELLED" /\ q.actor = orders[q.order].resident
            /\ q.pc \in {"cancelEmit", "cancelShop"} => orders[q.order].cancelledAt
            /\ q.pc \in {"statusEmit", "cancelEmit", "cancelShop"} => q.status \in held[q.order]
            /\ q.pc \in {"statusWrite", "statusEmit"}
                  => q.actor \in Admins \union {Owner[orders[q.order].shop]}

(* The inductive invariant behind the theorems about status changes.        *)
StatusInv ==
    /\ CarriedOK
    /\ CheckedCancelIsPlaced
    /\ ToldWasHeld
    /\ NoticeAddressee

(* A write of a status: the other requests on the order become overtaken,    *)
(* the rows and requests of other orders stay as they are.                  *)
LEMMA WriteStatusInv ==
    ASSUME TypeOK, StatusInv, NEW r \in Requests, NEW next \in {"statusEmit", "cancelEmit"},
           NEW row \in OrderRow, Active(r), req[r].pc # "create",
           row.status = req[r].status,
           row.resident = orders[req[r].order].resident,
           row.shop = orders[req[r].order].shop,
           orders[req[r].order].cancelledAt => row.cancelledAt,
           next = "cancelEmit" => req[r].pc = "cancelWrite" /\ row.cancelledAt,
           next = "statusEmit" => req[r].pc = "statusWrite",
           WriteStatus(r, row, next), UNCHANGED <<seen, pending, feed>>
    PROVE  StatusInv'
<1> USE RowAssumption, OrderAssumption
<1> DEFINE o == req[r].order
<1>1. /\ req[r] \in Request /\ o \in OrderIds /\ orders[o] \in OrderRow
      /\ orders' = [orders EXCEPT ![o] = row]
      /\ held' = [held EXCEPT ![o] = @ \union {row.status}]
      /\ orders \in [OrderIds -> OrderRow \union {None}]
      /\ held \in [OrderIds -> SUBSET Status]
    BY DEF TypeOK, Active, Request, WriteStatus
<1>2. /\ Active(r)'
      /\ req'[r] = [req[r] EXCEPT !.pc = next, !.overtaken = FALSE]
  <2>1. req'[r] = [req[r] EXCEPT !.pc = next, !.overtaken = FALSE]
    BY DEF WriteStatus
  <2>2. [req[r] EXCEPT !.pc = next, !.overtaken = FALSE] \in Request
    BY <1>1 DEF Request
  <2> QED BY <2>1, <2>2 DEF Active
<1>3. /\ req'[r].pc = next /\ req'[r].overtaken = FALSE /\ req'[r].order = o
      /\ req'[r].status = req[r].status /\ req'[r].actor = req[r].actor
    BY <1>1, <1>2 DEF Request
<1>4. ASSUME NEW q \in Requests, q # r, Active(q)'
      PROVE  /\ Active(q) /\ req[q] \in Request
             /\ req'[q].pc = req[q].pc /\ req'[q].order = req[q].order
             /\ req'[q].status = req[q].status /\ req'[q].actor = req[q].actor
             /\ req[q].order = o => req'[q].overtaken
             /\ req[q].order # o => req'[q] = req[q]
  <2>1. Active(q) /\ req[q] \in Request
    BY <1>4 DEF WriteStatus, Active, TypeOK
  <2>2. req'[q] = IF req[q].order = o THEN [req[q] EXCEPT !.overtaken = TRUE] ELSE req[q]
    BY <1>4, <2>1 DEF WriteStatus, Active
  <2> QED BY <2>1, <2>2 DEF Request
<1>5. CarriedOK'
  <2> SUFFICES ASSUME NEW q \in Requests, Active(q)'
               PROVE  /\ req'[q].pc \in {"cancelWrite", "cancelEmit", "cancelShop"}
                            => req'[q].status = "CANCELLED" /\ req'[q].actor = orders'[req'[q].order].resident
                      /\ req'[q].pc \in {"cancelEmit", "cancelShop"} => orders'[req'[q].order].cancelledAt
                      /\ req'[q].pc \in {"statusEmit", "cancelEmit", "cancelShop"}
                            => req'[q].status \in held'[req'[q].order]
                      /\ req'[q].pc \in {"statusWrite", "statusEmit"}
                            => req'[q].actor \in Admins \union {Owner[orders'[req'[q].order].shop]}
    BY DEF CarriedOK
  <2>1. CASE q = r
    BY <2>1, <1>1, <1>3 DEF StatusInv, CarriedOK
  <2>2. CASE q # r
    <3>1. req[q].pc # "create" => req[q].order \in OrderIds
      BY <2>2, <1>4 DEF TypeOK, Request
    <3> QED BY <2>2, <1>1, <1>4, <3>1 DEF StatusInv, CarriedOK
  <2> QED BY <2>1, <2>2
<1>6. CheckedCancelIsPlaced'
  <2> SUFFICES ASSUME NEW q \in Requests, At(q, "cancelWrite")', ~req'[q].overtaken
               PROVE  orders'[req'[q].order].status = "PLACED"
    BY DEF CheckedCancelIsPlaced
  <2>1. q # r /\ req[q].order # o
    BY <1>3, <1>4 DEF At
  <2>2. req[q].order \in OrderIds /\ At(q, "cancelWrite") /\ req'[q] = req[q]
    BY <2>1, <1>4 DEF At, TypeOK, Request
  <2> QED BY <2>1, <2>2, <1>1 DEF StatusInv, CheckedCancelIsPlaced
<1>8. ToldWasHeld'
    BY <1>1 DEF StatusInv, ToldWasHeld, TypeOK, Notice
<1>9. NoticeAddressee'
    BY <1>1 DEF StatusInv, NoticeAddressee, TypeOK, Notice
<1> QED BY <1>5, <1>6, <1>8, <1>9 DEF StatusInv

LEMMA StepKeepsStatusInv == TypeOK /\ StatusInv /\ [Next]_vars => StatusInv'
<1> SUFFICES ASSUME TypeOK, StatusInv, [Next]_vars PROVE StatusInv'
    OBVIOUS
<1> USE RowAssumption, OrderAssumption
<1> USE DEF StatusInv
(* Steps that leave orders and what was told alone: a request may end, or    *)
(* begin, or go on to a place nothing was claimed about before.             *)
<1>1. ASSUME UNCHANGED <<orders, held, seen, pending, feed>>, NEW r \in Requests,
             NEW q \in Request \union {None}, req' = [req EXCEPT ![r] = q],
             q # None => /\ q.pc \in {"create", "statusOwner", "statusWrite", "cancelWrite"}
                         /\ q.pc = "statusWrite" =>
                               q.actor \in Admins \union {Owner[orders[q.order].shop]}
                         /\ q.pc = "cancelWrite" =>
                               /\ q.status = "CANCELLED"
                               /\ q.actor = orders[q.order].resident
                               /\ orders[q.order].status = "PLACED"
      PROVE  StatusInv'
  <2>1. ASSUME NEW x \in Requests
        PROVE  req'[x] = IF x = r THEN q ELSE req[x]
    BY <1>1 DEF TypeOK
  <2>2. CarriedOK'
    BY <1>1, <2>1 DEF CarriedOK, Active
  <2>3. CheckedCancelIsPlaced'
    BY <1>1, <2>1 DEF CheckedCancelIsPlaced, Active, At
  <2>5. ToldWasHeld' /\ NoticeAddressee'
    BY <1>1 DEF ToldWasHeld, NoticeAddressee
  <2> QED BY <2>2, <2>3, <2>5
<1>2. CASE EditTable
    BY <1>2 DEF EditTable, requestVars, pushVars, CarriedOK, CheckedCancelIsPlaced,
                ToldWasHeld, NoticeAddressee, Active, At
<1>3. ASSUME NEW r \in Requests, NEW u \in Residents, NEW cart \in Carts, NEW m \in Method,
             CreateRead(r, u, cart, m)
      PROVE  StatusInv'
  <2> DEFINE q == [pc |-> "create", actor |-> u, order |-> None, status |-> "PLACED",
                   lines |-> Priced(cart), method |-> m, overtaken |-> FALSE]
  <2>1. Priced(cart) \in Receipts
    BY <1>3, PricedIsReceipt DEF CreateRead, TypeOK
  <2>2. q \in Request \union {None}
    BY <2>1 DEF Request, Status
  <2>3. UNCHANGED <<orders, held, seen, pending, feed>> /\ req' = [req EXCEPT ![r] = q]
    BY <1>3 DEF CreateRead, pushVars
  <2> QED BY ONLY <1>1, <2>2, <2>3
<1>4. ASSUME NEW r \in Requests, NEW o \in OrderIds, CreateWrite(r, o)
      PROVE  StatusInv'
  <2>1. /\ req' = [req EXCEPT ![r] = None]
        /\ orders' = [orders EXCEPT ![o] = NewRow(req[r])]
        /\ held' = [held EXCEPT ![o] = @ \union {"PLACED"}]
        /\ orders[o] = None
        /\ UNCHANGED <<seen, pending, feed>>
    BY <1>4 DEF CreateWrite, Finish, pushVars
  <2>2. ASSUME NEW q \in Requests, Active(q)', req'[q].pc # "create"
        PROVE  /\ Active(q) /\ req'[q] = req[q] /\ req[q].order \in OrderIds /\ req[q].order # o
    BY <2>1, <2>2 DEF TypeOK, Active, Request
  <2>3. ASSUME NEW q \in Requests, Active(q)', req'[q].pc # "create"
        PROVE  orders'[req[q].order] = orders[req[q].order] /\ held'[req[q].order] = held[req[q].order]
    BY <2>1, <2>2, <2>3 DEF TypeOK
  <2>4. CarriedOK'
    BY <2>2, <2>3 DEF CarriedOK
  <2>5. CheckedCancelIsPlaced'
    BY <2>2, <2>3 DEF CheckedCancelIsPlaced, At
  <2>7. ToldWasHeld'
    BY <2>1 DEF ToldWasHeld, NoticeAddressee, TypeOK, Notice
  <2>8. NoticeAddressee'
    BY <2>1 DEF NoticeAddressee, TypeOK, Notice
  <2> QED BY <2>4, <2>5, <2>7, <2>8
<1>5. ASSUME NEW r \in Requests, NEW u \in Merchants \union Admins, NEW o \in OrderIds,
             NEW s \in StatusChoices, StatusRead(r, u, o, s)
      PROVE  StatusInv'
  <2> DEFINE q == [pc |-> IF u \in Admins THEN "statusWrite" ELSE "statusOwner",
                   actor |-> u, order |-> o, status |-> s,
                   lines |-> <<>>, method |-> "CASH", overtaken |-> FALSE]
  <2>1. q \in Request \union {None}
    BY DEF Request, Method
  <2>2. UNCHANGED <<orders, held, seen, pending, feed>> /\ req' = [req EXCEPT ![r] = q]
    BY <1>5 DEF StatusRead, pushVars
  <2> QED BY <1>1, <2>1, <2>2
<1>6. ASSUME NEW r \in Requests, StatusOwner(r)
      PROVE  StatusInv'
  <2>1. /\ req[r] \in Request
        /\ UNCHANGED <<orders, held, seen, pending, feed>>
    BY <1>6 DEF StatusOwner, At, Active, TypeOK, pushVars
  <2>2. CASE OwnsShop(req[r].actor, req[r].order)
    <3> DEFINE q == [req[r] EXCEPT !.pc = "statusWrite"]
    <3>1. q \in Request /\ q.pc = "statusWrite" /\ q.actor = req[r].actor /\ q.order = req[r].order
      BY <2>1 DEF Request
    <3>2. q.actor \in Admins \union {Owner[orders[q.order].shop]}
      BY <2>2, <3>1 DEF OwnsShop
    <3>3. req' = [req EXCEPT ![r] = q]
      BY <1>6, <2>2 DEF StatusOwner, Goto
    <3> HIDE DEF q
    <3> QED BY <1>1, <2>1, <3>1, <3>2, <3>3
  <2>3. CASE ~OwnsShop(req[r].actor, req[r].order)
    BY <1>1, <1>6, <2>1, <2>3 DEF StatusOwner, Finish
  <2> QED BY <2>2, <2>3
<1>7. ASSUME NEW r \in Requests, StatusWrite(r)
      PROVE  StatusInv'
  <2> DEFINE old == orders[req[r].order]
             row == [old EXCEPT !.status = req[r].status]
  <2>1. Active(r) /\ req[r].pc = "statusWrite" /\ old \in OrderRow /\ req[r].status \in Status
    BY <1>7 DEF StatusWrite, At, Active, TypeOK, Request
  <2>2. /\ row \in OrderRow /\ row.status = req[r].status /\ row.resident = old.resident
        /\ row.shop = old.shop /\ row.cancelledAt = old.cancelledAt
    BY <2>1 DEF OrderRow
  <2>3. WriteStatus(r, row, "statusEmit") /\ UNCHANGED <<seen, pending, feed>>
    BY <1>7 DEF StatusWrite, pushVars
  <2> HIDE DEF row
  <2> QED BY <2>1, <2>2, <2>3, WriteStatusInv
<1>8. ASSUME NEW r \in Requests, CancelWrite(r)
      PROVE  StatusInv'
  <2> DEFINE old == orders[req[r].order]
             row == [old EXCEPT !.status = "CANCELLED", !.cancelledAt = TRUE]
  <2>1. /\ Active(r) /\ req[r].pc = "cancelWrite" /\ old \in OrderRow
        /\ req[r].status = "CANCELLED"
    BY <1>8 DEF CancelWrite, At, Active, TypeOK, Request, CarriedOK
  <2>2. /\ row \in OrderRow /\ row.status = req[r].status /\ row.resident = old.resident
        /\ row.shop = old.shop /\ row.cancelledAt = TRUE
    BY <2>1 DEF OrderRow, Status
  <2>3. WriteStatus(r, row, "cancelEmit") /\ UNCHANGED <<seen, pending, feed>>
    BY <1>8 DEF CancelWrite, pushVars
  <2> HIDE DEF row
  <2> QED BY <2>1, <2>2, <2>3, WriteStatusInv
<1>9. ASSUME NEW r \in Requests, NEW u \in Residents, NEW o \in OrderIds, CancelRead(r, u, o)
      PROVE  StatusInv'
  <2> DEFINE q == [pc |-> "cancelWrite", actor |-> u, order |-> o, status |-> "CANCELLED",
                   lines |-> <<>>, method |-> "CASH", overtaken |-> FALSE]
  <2>1. q \in Request \union {None}
    BY DEF Request, Method, Status
  <2>2. /\ UNCHANGED <<orders, held, seen, pending, feed>> /\ req' = [req EXCEPT ![r] = q]
        /\ orders[o].resident = u /\ orders[o].status = "PLACED"
    BY <1>9 DEF CancelRead, MayCancel, pushVars
  <2> QED BY <1>1, <2>1, <2>2
<1>10. ASSUME NEW r \in Requests, NEW o \in OrderIds, NEW status, Emit(o, status), status \in held[o],
              UNCHANGED held
       PROVE  \A c \in Clients, x \in OrderIds : seen'[c][x] \in held'[x] \union {None}
    BY <1>10 DEF Emit, ToldWasHeld, TypeOK
<1>11. ASSUME NEW user, NEW o \in OrderIds, NEW status, Notify(user, o, status), status \in held[o],
              orders[o] # None, UNCHANGED <<orders, held, feed>>,
              \/ user = orders[o].resident
              \/ user = Owner[orders[o].shop] /\ status = "CANCELLED" /\ orders[o].cancelledAt
       PROVE  /\ \A n \in (pending \union feed)' : n.status \in held'[n.order]
              /\ NoticeAddressee'
    BY <1>11 DEF Notify, ToldWasHeld, NoticeAddressee
<1>12. ASSUME NEW r \in Requests, StatusEmit(r)
       PROVE  StatusInv'
  <2>1. /\ req[r].order \in OrderIds /\ orders[req[r].order] # None
        /\ req[r].status \in held[req[r].order]
        /\ UNCHANGED <<orders, held, feed>> /\ req' = [req EXCEPT ![r] = None]
        /\ Emit(req[r].order, req[r].status)
        /\ Notify(orders[req[r].order].resident, req[r].order, req[r].status)
    BY <1>12 DEF StatusEmit, At, Active, TypeOK, Request, CarriedOK, Finish
  <2>2. ToldWasHeld' /\ NoticeAddressee'
    BY <2>1, <1>10, <1>11 DEF ToldWasHeld
  <2>3. CarriedOK' /\ CheckedCancelIsPlaced'
    BY <2>1 DEF CarriedOK, CheckedCancelIsPlaced, At, Active, TypeOK
  <2> QED BY <2>2, <2>3
<1>13. ASSUME NEW r \in Requests, CancelEmit(r)
       PROVE  StatusInv'
  <2>1. /\ req[r] \in Request /\ req[r].pc = "cancelEmit" /\ req[r].order \in OrderIds
        /\ req[r].status = "CANCELLED" /\ orders[req[r].order].cancelledAt
        /\ req[r].status \in held[req[r].order]
        /\ UNCHANGED <<orders, held, pending, feed>>
        /\ req' = [req EXCEPT ![r] = [req[r] EXCEPT !.pc = "cancelShop"]]
        /\ Emit(req[r].order, "CANCELLED")
    BY <1>13 DEF CancelEmit, At, Active, TypeOK, Request, CarriedOK, Goto
  <2>2. ToldWasHeld' /\ NoticeAddressee'
    BY <2>1, <1>10 DEF ToldWasHeld, NoticeAddressee
  <2> DEFINE q == [req[r] EXCEPT !.pc = "cancelShop"]
  <2>3. /\ q.pc = "cancelShop" /\ q.order = req[r].order /\ q.status = req[r].status
        /\ q.actor = req[r].actor
    BY <2>1 DEF Request
  <2>4. \A x \in Requests : req'[x] = IF x = r THEN q ELSE req[x]
    BY <2>1 DEF TypeOK
  <2> HIDE DEF q
  <2>5. CarriedOK'
    BY <2>1, <2>3, <2>4 DEF CarriedOK, Active
  <2>6. CheckedCancelIsPlaced'
    BY <2>1, <2>3, <2>4 DEF CheckedCancelIsPlaced, Active, At
  <2> QED BY <2>2, <2>5, <2>6
<1>14. ASSUME NEW r \in Requests, CancelShop(r)
       PROVE  StatusInv'
  <2>1. /\ req[r].order \in OrderIds /\ orders[req[r].order] # None
        /\ orders[req[r].order].cancelledAt /\ "CANCELLED" \in held[req[r].order]
        /\ UNCHANGED <<orders, held, seen, feed>> /\ req' = [req EXCEPT ![r] = None]
        /\ \/ UNCHANGED pending
           \/ Notify(Owner[orders[req[r].order].shop], req[r].order, "CANCELLED")
    BY <1>14 DEF CancelShop, At, Active, TypeOK, Request, CarriedOK, Finish
  <2>2. ASSUME UNCHANGED pending
        PROVE  ToldWasHeld' /\ NoticeAddressee'
    BY <2>1, <2>2 DEF ToldWasHeld, NoticeAddressee
  <2>4. ASSUME Notify(Owner[orders[req[r].order].shop], req[r].order, "CANCELLED")
        PROVE  ToldWasHeld' /\ NoticeAddressee'
    BY <2>1, <2>4, <1>11 DEF ToldWasHeld
  <2>3. CarriedOK' /\ CheckedCancelIsPlaced'
    BY <2>1 DEF CarriedOK, CheckedCancelIsPlaced, At, Active, TypeOK
  <2> QED BY <2>1, <2>2, <2>3, <2>4 DEF ToldWasHeld
<1>15. ASSUME NEW r \in Requests, Fail(r)
       PROVE  StatusInv'
    BY <1>1, <1>15 DEF Fail, Finish, pushVars
<1>16. CASE Push
  <2>1. ASSUME UNCHANGED <<orders, held, req>>, pending' \subseteq pending,
               feed' \subseteq pending \union feed,
               \A c \in Clients, o \in OrderIds : seen'[c][o] \in {seen[c][o], None}
        PROVE  StatusInv'
    BY <2>1 DEF CarriedOK, CheckedCancelIsPlaced, ToldWasHeld, NoticeAddressee,
                Active, At
  <2>2. \A c \in Clients, o \in OrderIds : seen'[c][o] \in {seen[c][o], None}
    BY <1>16 DEF Push, NoticeStored, NoticeLost, Join, Leave, Disconnect, Unseen, TypeOK
  <2> QED BY <1>16, <2>1, <2>2 DEF Push, NoticeStored, NoticeLost, Join, Leave, Disconnect, requestVars
<1>17. CASE Crash
    BY <1>17 DEF Crash, Unseen, CarriedOK, CheckedCancelIsPlaced, ToldWasHeld,
                 NoticeAddressee, Active, At
<1>18. CASE UNCHANGED vars
    BY <1>18 DEF vars, requestVars, pushVars, CarriedOK, CheckedCancelIsPlaced,
                 ToldWasHeld, NoticeAddressee, Active, At
<1>19. ASSUME NEW r \in Requests, Rejected(r)
       PROVE  StatusInv'
    BY <1>1, <1>19 DEF Rejected, Finish, pushVars
<1>20. ASSUME NEW u \in Leavers, DeleteUser(u)
       PROVE  StatusInv'
  <2>1. UNCHANGED <<seen, pending, held>> /\ feed' \subseteq feed
    BY <1>20 DEF DeleteUser
  <2>2. ASSUME NEW r \in Requests, Active(r)', req'[r].pc # "create"
        PROVE  /\ Active(r) /\ req[r].order \in OrderIds
               /\ req'[r] = req[r]
               /\ orders'[req[r].order].resident = orders[req[r].order].resident
               /\ orders'[req[r].order].shop = orders[req[r].order].shop
               /\ orders'[req[r].order].status = orders[req[r].order].status
               /\ orders'[req[r].order].cancelledAt = orders[req[r].order].cancelledAt
    <3>1. Active(r) /\ req'[r] = req[r]
      BY <1>20, <2>2 DEF DeleteUser, Active
    <3>2. req[r].order \in OrderIds /\ orders[req[r].order] # None
      BY <2>2, <3>1 DEF TypeOK, Active, Request
    <3> QED BY <1>20, <3>1, <3>2, DeletionRows
  <2>3. CarriedOK'
    BY <2>1, <2>2 DEF CarriedOK
  <2>4. CheckedCancelIsPlaced'
    BY <2>2 DEF CheckedCancelIsPlaced, At
  <2>6. ToldWasHeld'
    BY <2>1 DEF ToldWasHeld
  <2>7. NoticeAddressee'
    BY <1>20, <2>1, DeletionRows DEF NoticeAddressee, TypeOK, Notice
  <2> QED BY <2>3, <2>4, <2>6, <2>7
<1> QED BY <1>2, <1>3, <1>4, <1>5, <1>6, <1>7, <1>8, <1>9, <1>12, <1>13, <1>14, <1>15, <1>16, <1>17, <1>18,
           <1>19, <1>20
        DEF Next, Step, Arrive, Proceed

LEMMA StatusInvariant == Spec => []StatusInv
<1>1. Init => StatusInv
    BY DEF Init, Unseen, StatusInv, CarriedOK, CheckedCancelIsPlaced, ToldWasHeld,
           NoticeAddressee, Active, At
<1> QED BY <1>1, StepKeepsStatusInv, OrdersTyped, PTL DEF Spec

(* A cancellation about to be stored is for a PLACED order, unless another   *)
(* request wrote the status of that order since it was read.                *)
THEOREM CancelWindow == Spec => []CheckedCancelIsPlaced
BY StatusInvariant, PTL DEF StatusInv

(* Nobody is ever told of a status the order has not had.                    *)
THEOREM NothingInvented == Spec => []ToldWasHeld
BY StatusInvariant, PTL DEF StatusInv

(* Notifications about an order reach its resident, or the merchant of its   *)
(* shop when its resident cancelled it, and nobody else.                    *)
THEOREM NoticesAddressed == Spec => []NoticeAddressee
BY StatusInvariant, PTL DEF StatusInv

-----------------------------------------------------------------------------
(* What the room of an order is shown.                                      *)

(* An update on its way carries the status of the row if it is the newest,   *)
(* and otherwise one that was on its way when the newest was stored.        *)
UpdatesOK ==
    \A r \in Requests : Underway(r) =>
        LET o == req[r].order
        IN  /\ req[r].overtaken => req[r].status \in crossed[o]
            /\ ~req[r].overtaken => req[r].status = orders[o].status

(* Only members of a room are shown updates, and only of orders in the table. *)
MembersOnly ==
    \A c \in Clients, o \in OrderIds :
        seen[c][o] # None => <<c, o>> \in rooms /\ orders[o] # None

(* The inductive invariant behind the theorem about the room.               *)
RoomInv == UpdatesOK /\ MembersOnly /\ RoomFollows

(* A request under way is about an order in the table.                      *)
LEMMA UnderwayOrder ==
    ASSUME TypeOK, NEW r \in Requests, Underway(r)
    PROVE  /\ req[r] \in Request /\ req[r].order \in OrderIds
           /\ orders[req[r].order] # None /\ orders[req[r].order] \in OrderRow
BY RowAssumption DEF TypeOK, Underway, At, Active, Request

(* A step that begins or ends a request, or leads it on to a write, changes   *)
(* nothing for the room, unless it drops the newest update.                 *)
LEMMA QuietRequest ==
    ASSUME TypeOK, RoomInv, UNCHANGED <<orders, crossed, rooms, seen>>, NEW r \in Requests, NEW q,
           req' = [req EXCEPT ![r] = q], q # None => q.pc \notin {"statusEmit", "cancelEmit"},
           Underway(r) => req[r].overtaken
    PROVE  RoomInv'
<1>1. ASSUME NEW x \in Requests
      PROVE  req'[x] = IF x = r THEN q ELSE req[x]
    BY DEF TypeOK
<1>2. ASSUME NEW x \in Requests
      PROVE  /\ Underway(x)' => Underway(x) /\ req'[x] = req[x]
             /\ Underway(x) /\ ~Underway(x)' => req[x].overtaken
             /\ Underway(x) /\ Underway(x)' => req'[x] = req[x]
    BY <1>1 DEF Underway, At, Active
<1>3. UpdatesOK' /\ MembersOnly'
    BY <1>2 DEF RoomInv, UpdatesOK, MembersOnly
<1>4. RoomFollows'
    BY <1>2 DEF RoomInv, RoomFollows
<1> QED BY <1>3, <1>4 DEF RoomInv

(* A write of a status puts the newest update on its way, and crosses all     *)
(* others that are.                                                         *)
LEMMA WriteStatusRoom ==
    ASSUME TypeOK, RoomInv, NEW r \in Requests, NEW next \in {"statusEmit", "cancelEmit"},
           NEW row \in OrderRow, Active(r), req[r].pc # "create", row.status = req[r].status,
           WriteStatus(r, row, next), UNCHANGED <<rooms, seen>>
    PROVE  RoomInv'
<1> USE RowAssumption, OrderAssumption
<1> DEFINE o == req[r].order
<1>1. /\ req[r] \in Request /\ o \in OrderIds /\ orders[o] # None
      /\ \A x \in OrderIds : orders'[x] = IF x = o THEN row ELSE orders[x]
      /\ \A x \in OrderIds : x # o => crossed'[x] = crossed[x]
      /\ crossed'[o] = {req[q].status : q \in {x \in Requests \ {r} : Underway(x) /\ req[x].order = o}}
    BY DEF TypeOK, Active, Request, WriteStatus
<1>2. /\ Underway(r)' /\ req'[r].overtaken = FALSE /\ req'[r].order = o
      /\ req'[r].status = req[r].status
  <2>1. req'[r] = [req[r] EXCEPT !.pc = next, !.overtaken = FALSE]
    BY DEF WriteStatus
  <2>2. [req[r] EXCEPT !.pc = next, !.overtaken = FALSE] \in Request
    BY <1>1 DEF Request
  <2> QED BY <1>1, <2>1, <2>2 DEF Request, Underway, At, Active
<1>3. ASSUME NEW q \in Requests, q # r
      PROVE  /\ Underway(q)' <=> Underway(q)
             /\ Underway(q) => /\ req'[q].order = req[q].order /\ req'[q].status = req[q].status
                               /\ req[q].order = o => req'[q].overtaken
                               /\ req[q].order # o => req'[q] = req[q]
  <2>1. req'[q] = IF Active(q) /\ req[q].order = o THEN [req[q] EXCEPT !.overtaken = TRUE] ELSE req[q]
    BY <1>3 DEF WriteStatus
  <2>2. CASE Active(q) /\ req[q].order = o
    <3>1. req[q] \in Request
      BY <2>2 DEF TypeOK, Active
    <3>2. [req[q] EXCEPT !.overtaken = TRUE] \in Request
      BY <3>1 DEF Request
    <3> QED BY <2>1, <2>2, <3>1, <3>2 DEF Request, Underway, At, Active
  <2>3. CASE ~(Active(q) /\ req[q].order = o)
    BY <2>1, <2>3 DEF Underway, At, Active
  <2> QED BY <2>2, <2>3
<1>4. UpdatesOK'
  <2> SUFFICES ASSUME NEW q \in Requests, Underway(q)'
               PROVE  /\ req'[q].overtaken => req'[q].status \in crossed'[req'[q].order]
                      /\ ~req'[q].overtaken => req'[q].status = orders'[req'[q].order].status
    BY DEF UpdatesOK
  <2>1. CASE q = r
    BY <2>1, <1>1, <1>2
  <2>2. CASE q # r /\ req[q].order = o
    BY <2>2, <1>1, <1>3
  <2>3. CASE q # r /\ req[q].order # o
    BY <2>3, <1>1, <1>3, UnderwayOrder DEF RoomInv, UpdatesOK
  <2> QED BY <2>1, <2>2, <2>3
<1>5. MembersOnly'
    BY <1>1 DEF RoomInv, MembersOnly
<1>6. RoomFollows'
  <2> SUFFICES ASSUME NEW x \in OrderIds, orders'[x] # None,
                      \A q \in Requests : Underway(q)' /\ req'[q].order = x => req'[q].overtaken,
                      NEW c \in Clients
               PROVE  seen'[c][x] \in crossed'[x] \union {orders'[x].status, None}
    BY DEF RoomFollows
  <2>1. x # o
    BY <1>2
  <2>2. \A q \in Requests : Underway(q) /\ req[q].order = x => req[q].overtaken
    BY <1>1, <1>3, <2>1
  <2> QED BY <1>1, <2>1, <2>2 DEF RoomInv, RoomFollows
<1> QED BY <1>4, <1>5, <1>6 DEF RoomInv

(* A broadcast: the newest update shows the room the status of the row, and   *)
(* any other one a status that was crossed.                                 *)
LEMMA EmitRoom ==
    ASSUME TypeOK, RoomInv, NEW r \in Requests, Underway(r), NEW q,
           req' = [req EXCEPT ![r] = q], q # None => q.pc = "cancelShop",
           Emit(req[r].order, req[r].status), UNCHANGED <<orders, crossed, rooms>>
    PROVE  RoomInv'
<1> DEFINE o == req[r].order
<1>1. o \in OrderIds /\ orders[o] # None
    BY UnderwayOrder
<1>2. ASSUME NEW x \in Requests
      PROVE  /\ ~Underway(r)'
             /\ x # r => (Underway(x)' <=> Underway(x)) /\ req'[x] = req[x]
    BY DEF TypeOK, Underway, At, Active
<1> HIDE DEF o
<1>3. ASSUME NEW c \in Clients, NEW x \in OrderIds
      PROVE  seen'[c][x] = IF x = o /\ <<c, o>> \in rooms THEN req[r].status ELSE seen[c][x]
    BY <1>1 DEF Emit, TypeOK, o
<1>4. UpdatesOK'
  <2> SUFFICES ASSUME NEW x \in Requests, Underway(x)'
               PROVE  /\ req'[x].overtaken => req'[x].status \in crossed[req'[x].order]
                      /\ ~req'[x].overtaken => req'[x].status = orders[req'[x].order].status
    BY DEF UpdatesOK
  <2>1. x # r /\ Underway(x) /\ req'[x] = req[x]
    BY <1>2
  <2> QED BY <2>1 DEF RoomInv, UpdatesOK
<1>5. MembersOnly'
    BY <1>1, <1>3 DEF RoomInv, MembersOnly
<1>6. RoomFollows'
  <2> SUFFICES ASSUME NEW x \in OrderIds, orders[x] # None,
                      \A p \in Requests : Underway(p)' /\ req'[p].order = x => req'[p].overtaken,
                      NEW c \in Clients
               PROVE  seen'[c][x] \in crossed[x] \union {orders[x].status, None}
    BY DEF RoomFollows
  <2>1. ASSUME NEW p \in Requests, p # r, Underway(p), req[p].order = x
        PROVE  req[p].overtaken
    <3>1. Underway(p)' /\ req'[p] = req[p]
      BY <1>2, <2>1
    <3> QED BY <2>1, <3>1
  <2>2. CASE x # o
    BY <1>3, <2>1, <2>2 DEF RoomInv, RoomFollows, o
  <2>3. CASE x = o /\ req[r].overtaken
    BY <1>3, <2>1, <2>3 DEF RoomInv, RoomFollows, UpdatesOK, o
  <2>4. CASE x = o /\ ~req[r].overtaken
    <3>1. req[r].status = orders[o].status
      BY <2>4 DEF RoomInv, UpdatesOK, o
    <3>2. <<c, o>> \notin rooms => seen[c][o] = None
      BY <1>1 DEF RoomInv, MembersOnly
    <3> QED BY <1>3, <2>4, <3>1, <3>2
  <2> QED BY <2>2, <2>3, <2>4
<1> QED BY <1>4, <1>5, <1>6 DEF RoomInv

LEMMA StepKeepsRoomInv == TypeOK /\ StatusInv /\ RoomInv /\ [Next]_vars => RoomInv'
<1> SUFFICES ASSUME TypeOK, StatusInv, RoomInv, [Next]_vars PROVE RoomInv'
    OBVIOUS
<1> USE RowAssumption, OrderAssumption
<1>1. ASSUME UNCHANGED <<orders, req, crossed, rooms, seen>>
      PROVE  RoomInv'
    BY <1>1 DEF RoomInv, UpdatesOK, MembersOnly, RoomFollows, Underway, At, Active
<1>2. CASE EditTable \/ UNCHANGED vars
    BY <1>1, <1>2 DEF EditTable, vars, requestVars, pushVars
<1>3. ASSUME NEW r \in Requests, Arrive(r)
      PROVE  RoomInv'
  <2>1. ~Underway(r) /\ UNCHANGED <<orders, crossed, rooms, seen>>
    BY <1>3 DEF Arrive, CreateRead, StatusRead, CancelRead, pushVars, Underway, At
  <2>2. ASSUME NEW q, q.pc \notin {"statusEmit", "cancelEmit"}, req' = [req EXCEPT ![r] = q]
        PROVE  RoomInv'
    BY <2>1, <2>2, QuietRequest
  <2>3. ASSUME NEW u \in Residents, NEW cart \in Carts, NEW m \in Method, CreateRead(r, u, cart, m)
        PROVE  RoomInv'
    BY <2>2, <2>3 DEF CreateRead
  <2>4. ASSUME NEW u \in Residents, NEW o \in OrderIds, CancelRead(r, u, o)
        PROVE  RoomInv'
    BY <2>2, <2>4 DEF CancelRead
  <2>5. ASSUME NEW u \in Merchants \union Admins, NEW o \in OrderIds, NEW s \in StatusChoices,
               StatusRead(r, u, o, s)
        PROVE  RoomInv'
    <3> DEFINE q == [pc |-> IF u \in Admins THEN "statusWrite" ELSE "statusOwner",
                     actor |-> u, order |-> o, status |-> s,
                     lines |-> <<>>, method |-> "CASH", overtaken |-> FALSE]
    <3>1. q.pc \notin {"statusEmit", "cancelEmit"}
      OBVIOUS
    <3>2. req' = [req EXCEPT ![r] = q]
      BY <2>5 DEF StatusRead
    <3> HIDE DEF q
    <3> QED BY <2>2, <3>1, <3>2
  <2> QED BY <1>3, <2>3, <2>4, <2>5 DEF Arrive
<1>4. ASSUME NEW r \in Requests, NEW o \in OrderIds, CreateWrite(r, o)
      PROVE  RoomInv'
  <2>1. /\ req' = [req EXCEPT ![r] = None] /\ orders[o] = None /\ At(r, "create")
        /\ orders' = [orders EXCEPT ![o] = NewRow(req[r])]
        /\ UNCHANGED <<crossed, rooms, seen>>
    BY <1>4 DEF CreateWrite, Finish, pushVars
  <2>2. NewRow(req[r]) # None
    <3>1. req[r] \in Request /\ req[r].lines \in Receipts /\ req[r].actor \in Residents
      BY <2>1 DEF At, Active, TypeOK
    <3>2. req[r].lines[1] \in OrderLine
      BY <3>1 DEF Receipts
    <3>3. NewRow(req[r]) \in OrderRow
      BY <3>1, <3>2, ProductAssumption DEF NewRow, OrderRow, OrderLine, Request, Totals, Status
    <3> QED BY <3>3, RowAssumption
  <2>3. ASSUME NEW x \in Requests
        PROVE  /\ ~Underway(r) /\ ~Underway(r)'
               /\ x # r => (Underway(x)' <=> Underway(x)) /\ req'[x] = req[x]
    BY <2>1 DEF TypeOK, Underway, At, Active
  <2>4. \A x \in OrderIds : orders'[x] = IF x = o THEN NewRow(req[r]) ELSE orders[x]
    BY <2>1 DEF TypeOK
  <2>5. UpdatesOK'
    BY <2>1, <2>3, <2>4, UnderwayOrder DEF RoomInv, UpdatesOK
  <2>6. MembersOnly'
    BY <2>1, <2>2, <2>4 DEF RoomInv, MembersOnly
  <2>7. RoomFollows'
    <3> SUFFICES ASSUME NEW x \in OrderIds, orders'[x] # None,
                        \A p \in Requests : Underway(p)' /\ req'[p].order = x => req'[p].overtaken,
                        NEW c \in Clients
                 PROVE  seen[c][x] \in crossed[x] \union {orders'[x].status, None}
      BY <2>1 DEF RoomFollows
    <3>1. CASE x = o
      BY <2>1, <3>1 DEF RoomInv, MembersOnly
    <3>2. CASE x # o
      <4>1. \A p \in Requests : Underway(p) /\ req[p].order = x => req[p].overtaken
        BY <2>3
      <4> QED BY <2>4, <3>2, <4>1 DEF RoomInv, RoomFollows
    <3> QED BY <3>1, <3>2
  <2> QED BY <2>5, <2>6, <2>7 DEF RoomInv
<1>5. ASSUME NEW r \in Requests, StatusOwner(r)
      PROVE  RoomInv'
  <2>1. req[r] \in Request /\ ~Underway(r) /\ UNCHANGED <<orders, crossed, rooms, seen>>
    BY <1>5 DEF StatusOwner, At, Active, TypeOK, Underway, pushVars
  <2>2. CASE Goto(r, "statusWrite")
    <3>1. [req[r] EXCEPT !.pc = "statusWrite"].pc = "statusWrite"
      BY <2>1 DEF Request
    <3>2. req' = [req EXCEPT ![r] = [req[r] EXCEPT !.pc = "statusWrite"]]
      BY <2>2 DEF Goto
    <3> QED BY <2>1, <3>1, <3>2, QuietRequest
  <2>3. CASE Finish(r)
    BY <2>1, <2>3, QuietRequest DEF Finish
  <2> QED BY <1>5, <2>2, <2>3 DEF StatusOwner
<1>6. ASSUME NEW r \in Requests, StatusWrite(r)
      PROVE  RoomInv'
  <2> DEFINE row == [orders[req[r].order] EXCEPT !.status = req[r].status]
  <2>1. /\ Active(r) /\ req[r].pc = "statusWrite"
        /\ orders[req[r].order] \in OrderRow /\ req[r].status \in Status
    BY <1>6 DEF StatusWrite, At, Active, TypeOK, Request
  <2>2. row \in OrderRow /\ row.status = req[r].status
    BY <2>1 DEF OrderRow
  <2>3. WriteStatus(r, row, "statusEmit") /\ UNCHANGED <<rooms, seen>>
    BY <1>6 DEF StatusWrite, pushVars
  <2> HIDE DEF row
  <2> QED BY <2>1, <2>2, <2>3, WriteStatusRoom
<1>7. ASSUME NEW r \in Requests, CancelWrite(r)
      PROVE  RoomInv'
  <2> DEFINE row == [orders[req[r].order] EXCEPT !.status = "CANCELLED", !.cancelledAt = TRUE]
  <2>1. /\ Active(r) /\ req[r].pc = "cancelWrite" /\ req[r].status = "CANCELLED"
        /\ orders[req[r].order] \in OrderRow
    BY <1>7 DEF CancelWrite, At, Active, TypeOK, Request, StatusInv, CarriedOK
  <2>2. row \in OrderRow /\ row.status = req[r].status
    BY <2>1 DEF OrderRow, Status
  <2>3. WriteStatus(r, row, "cancelEmit") /\ UNCHANGED <<rooms, seen>>
    BY <1>7 DEF CancelWrite, pushVars
  <2> HIDE DEF row
  <2> QED BY <2>1, <2>2, <2>3, WriteStatusRoom
<1>8. ASSUME NEW r \in Requests, StatusEmit(r)
      PROVE  RoomInv'
    BY <1>8, EmitRoom DEF StatusEmit, Finish, Underway
<1>9. ASSUME NEW r \in Requests, CancelEmit(r)
      PROVE  RoomInv'
  <2>1. req[r] \in Request /\ Underway(r) /\ req[r].status = "CANCELLED"
    BY <1>9 DEF CancelEmit, Underway, At, Active, TypeOK, StatusInv, CarriedOK
  <2>2. [req[r] EXCEPT !.pc = "cancelShop"].pc = "cancelShop"
    BY <2>1 DEF Request
  <2>3. /\ req' = [req EXCEPT ![r] = [req[r] EXCEPT !.pc = "cancelShop"]]
        /\ Emit(req[r].order, req[r].status) /\ UNCHANGED <<orders, crossed, rooms>>
    BY <1>9, <2>1 DEF CancelEmit, Goto
  <2> QED BY <2>1, <2>2, <2>3, EmitRoom
<1>10. ASSUME NEW r \in Requests, CancelShop(r) \/ Rejected(r)
       PROVE  RoomInv'
  <2>1. ~Underway(r) /\ req' = [req EXCEPT ![r] = None] /\ UNCHANGED <<orders, crossed, rooms, seen>>
    BY <1>10 DEF CancelShop, Rejected, Finish, Underway, At, pushVars
  <2> QED BY <2>1, QuietRequest
<1>11. ASSUME NEW r \in Requests, Fail(r)
       PROVE  RoomInv'
  <2>1. req' = [req EXCEPT ![r] = None] /\ UNCHANGED <<orders, held, rooms, seen>>
    BY <1>11 DEF Fail, Finish, pushVars
  <2>2. CASE ~(Underway(r) /\ ~req[r].overtaken)
    BY <1>11, <2>1, <2>2, QuietRequest DEF Fail
  <2>3. CASE Underway(r) /\ ~req[r].overtaken
    <3> DEFINE o == req[r].order
    <3>1. o \in OrderIds
      BY <2>3, UnderwayOrder
    <3>2. \A x \in OrderIds : crossed'[x] = IF x = o THEN held[o] ELSE crossed[x]
      BY <1>11, <2>3, <3>1 DEF Fail, TypeOK
    <3>3. ASSUME NEW x \in Requests
          PROVE  ~Underway(r)' /\ (x # r => (Underway(x)' <=> Underway(x)) /\ req'[x] = req[x])
      BY <2>1 DEF TypeOK, Underway, At, Active
    <3>4. ASSUME NEW x \in Requests, Underway(x)
          PROVE  req[x].order \in OrderIds /\ req[x].status \in held[req[x].order]
      BY <3>4, UnderwayOrder DEF StatusInv, CarriedOK, Underway, At
    <3>5. UpdatesOK'
      BY <2>1, <3>2, <3>3, <3>4 DEF RoomInv, UpdatesOK
    <3>6. MembersOnly'
      BY <2>1 DEF RoomInv, MembersOnly
    <3>7. RoomFollows'
      <4> SUFFICES ASSUME NEW x \in OrderIds, orders[x] # None,
                          \A p \in Requests : Underway(p)' /\ req'[p].order = x => req'[p].overtaken,
                          NEW c \in Clients
                   PROVE  seen[c][x] \in crossed'[x] \union {orders[x].status, None}
        BY <2>1 DEF RoomFollows
      <4>1. CASE x = o
        BY <3>2, <4>1 DEF StatusInv, ToldWasHeld
      <4>2. CASE x # o
        BY <3>2, <3>3, <4>2 DEF RoomInv, RoomFollows
      <4> QED BY <4>1, <4>2
    <3> QED BY <3>5, <3>6, <3>7 DEF RoomInv
  <2> QED BY <2>2, <2>3
<1>12. CASE Push
  <2>1. ASSUME UNCHANGED requestVars,
               \A c \in Clients, o \in OrderIds :
                   seen'[c][o] # None => seen'[c][o] = seen[c][o] /\ (<<c, o>> \in rooms => <<c, o>> \in rooms')
        PROVE  RoomInv'
    <3>1. UNCHANGED <<orders, req, crossed>>
      BY <2>1 DEF requestVars
    <3>2. UpdatesOK' /\ MembersOnly'
      BY <2>1, <3>1 DEF RoomInv, UpdatesOK, MembersOnly, Underway, At, Active
    <3>3. RoomFollows'
      BY <2>1, <3>1 DEF RoomInv, RoomFollows, Underway, At, Active
    <3> QED BY <3>2, <3>3 DEF RoomInv
  <2>2. CASE \E n \in pending : NoticeStored(n) \/ NoticeLost(n)
    BY <2>1, <2>2 DEF NoticeStored, NoticeLost
  <2>3. CASE \E c \in Clients, o \in OrderIds : Join(c, o)
    BY <2>1, <2>3 DEF Join
  <2>4. CASE \E c \in Clients, o \in OrderIds : Leave(c, o)
    BY <2>1, <2>4 DEF Leave, TypeOK
  <2>5. CASE \E c \in Clients : Disconnect(c)
    BY <2>1, <2>5 DEF Disconnect, Unseen, TypeOK
  <2> QED BY <1>12, <2>2, <2>3, <2>4, <2>5 DEF Push
<1>13. CASE Crash
    BY <1>13 DEF Crash, Unseen, RoomInv, UpdatesOK, MembersOnly, RoomFollows, Underway, At, Active
<1>14. ASSUME NEW u \in Leavers, DeleteUser(u)
       PROVE  RoomInv'
  <2>1. UNCHANGED <<req, crossed, rooms, seen>>
    BY <1>14 DEF DeleteUser
  <2>2. \A r \in Requests : Underway(r)' <=> Underway(r)
    BY <2>1 DEF Underway, At, Active
  <2>3. ASSUME NEW o \in OrderIds
        PROVE  /\ orders[o] = None <=> orders'[o] = None
               /\ orders[o] # None => orders'[o].status = orders[o].status
    BY <1>14, DeletionRows
  <2>4. UpdatesOK'
    BY <2>1, <2>2, <2>3, UnderwayOrder DEF RoomInv, UpdatesOK
  <2>5. MembersOnly' /\ RoomFollows'
    BY <2>1, <2>2, <2>3 DEF RoomInv, MembersOnly, RoomFollows
  <2> QED BY <2>4, <2>5 DEF RoomInv
<1> QED BY <1>2, <1>3, <1>4, <1>5, <1>6, <1>7, <1>8, <1>9, <1>10, <1>11, <1>12, <1>13, <1>14
        DEF Next, Step, Proceed

LEMMA RoomInvariant == Spec => []RoomInv
<1>1. Init => RoomInv
    BY DEF Init, Unseen, RoomInv, UpdatesOK, MembersOnly, RoomFollows, Underway, At, Active
<1> QED BY <1>1, StepKeepsRoomInv, OrdersTyped, StatusInvariant, PTL DEF Spec

(* However requests on an order interleave, and whichever fail, its room is   *)
(* left with the status of the row or with one whose update was still on its *)
(* way when that status was stored.                                         *)
THEOREM RoomIsLedOn == Spec => []RoomFollows
BY RoomInvariant, PTL DEF RoomInv

-----------------------------------------------------------------------------
(* Which steps touch a row of orders, and what they leave of it.             *)
LEMMA RowChange ==
    ASSUME TypeOK, [Next]_vars, NEW o \in OrderIds
    PROVE  \/ orders'[o] = orders[o]
           \/ \E r \in Requests :
                 /\ CreateWrite(r, o)
                 /\ orders[o] = None
                 /\ orders'[o] = NewRow(req[r])
           \/ \E r \in Requests :
                 /\ StatusWrite(r)
                 /\ req[r].order = o
                 /\ orders'[o] = [orders[o] EXCEPT !.status = req[r].status]
           \/ \E r \in Requests :
                 /\ CancelWrite(r)
                 /\ req[r].order = o
                 /\ orders'[o] = [orders[o] EXCEPT !.status = "CANCELLED", !.cancelledAt = TRUE]
           \/ \E u \in Leavers :
                 /\ DeleteUser(u)
                 /\ Listed(o)
                 /\ orders'[o] = [orders[o] EXCEPT !.deleted = TRUE]
<1> USE OrderAssumption
<1>1. ASSUME NEW r \in Requests, NEW x \in OrderIds, CreateWrite(r, x)
      PROVE  \/ orders'[o] = orders[o]
             \/ x = o /\ orders[o] = None /\ orders'[o] = NewRow(req[r])
  <2>1. orders' = [orders EXCEPT ![x] = NewRow(req[r])] /\ orders[x] = None
    BY <1>1 DEF CreateWrite
  <2>2. orders'[o] = IF x = o THEN NewRow(req[r]) ELSE orders[o]
    BY <2>1 DEF TypeOK
  <2> QED BY <2>1, <2>2
<1>2. ASSUME NEW r \in Requests, StatusWrite(r)
      PROVE  \/ orders'[o] = orders[o]
             \/ req[r].order = o /\ orders'[o] = [orders[o] EXCEPT !.status = req[r].status]
    BY <1>2 DEF StatusWrite, WriteStatus, TypeOK
<1>3. ASSUME NEW r \in Requests, CancelWrite(r)
      PROVE  \/ orders'[o] = orders[o]
             \/ /\ req[r].order = o
                /\ orders'[o] = [orders[o] EXCEPT !.status = "CANCELLED", !.cancelledAt = TRUE]
    BY <1>3 DEF CancelWrite, WriteStatus, TypeOK
<1>4. ASSUME NEW r \in Requests
      PROVE  /\ Arrive(r) => UNCHANGED orders
             /\ StatusOwner(r) \/ StatusEmit(r) \/ CancelEmit(r) \/ CancelShop(r) => UNCHANGED orders
             /\ Fail(r) \/ Rejected(r) => UNCHANGED orders
    BY DEF Arrive, CreateRead, CancelRead, StatusRead, StatusOwner, StatusEmit, CancelEmit, CancelShop, Fail,
           Rejected
<1>5. EditTable \/ Push \/ Crash \/ UNCHANGED vars => UNCHANGED orders
    BY DEF EditTable, Push, NoticeStored, NoticeLost, Join, Leave, Disconnect, Crash, requestVars, vars
<1>6. CASE \E r \in Requests : Proceed(r)
    BY <1>1, <1>2, <1>3, <1>4, <1>6 DEF Proceed
<1>7. CASE \E u \in Leavers : DeleteUser(u)
  <2>1. PICK u \in Leavers : DeleteUser(u)
    BY <1>7
  <2>2. orders'[o] = IF o \in Theirs(u) THEN [orders[o] EXCEPT !.deleted = TRUE] ELSE orders[o]
    BY <2>1 DEF DeleteUser
  <2> QED BY <2>1, <2>2 DEF Theirs
<1> QED BY <1>4, <1>5, <1>6, <1>7 DEF Next, Step

(* Whoever writes a status was authorised to when the request began, and    *)
(* still is: the owner of a shop and the resident of an order do not change. *)
LEMMA StatusStepAuthorised ==
    ASSUME TypeOK, StatusInv, [Next]_vars, NEW o \in OrderIds, orders[o] # None,
           orders'[o].status # orders[o].status
    PROVE  \E r \in Requests :
              /\ Active(r)
              /\ req[r].order = o
              /\ \/ req[r].actor \in Admins \union {Owner[orders[o].shop]}
                 \/ req[r].actor = orders[o].resident /\ orders'[o].status = "CANCELLED"
<1>1. CASE \E r \in Requests : StatusWrite(r) /\ req[r].order = o
    BY <1>1 DEF StatusWrite, At, StatusInv, CarriedOK
<1>2. CASE \E r \in Requests :
             /\ CancelWrite(r)
             /\ req[r].order = o
             /\ orders'[o] = [orders[o] EXCEPT !.status = "CANCELLED", !.cancelledAt = TRUE]
  <2>1. orders[o] \in OrderRow
    BY DEF TypeOK
  <2>2. PICK r \in Requests :
             /\ CancelWrite(r)
             /\ req[r].order = o
             /\ orders'[o] = [orders[o] EXCEPT !.status = "CANCELLED", !.cancelledAt = TRUE]
    BY <1>2
  <2>3. orders'[o].status = "CANCELLED"
    BY <2>1, <2>2 DEF OrderRow
  <2> QED BY <2>2, <2>3 DEF CancelWrite, At, StatusInv, CarriedOK
<1>3. ~\E u \in Leavers : DeleteUser(u)
    BY DeletionRows
<1> QED BY <1>1, <1>2, <1>3, RowChange

(* The authorisation tested when a request began still holds when it writes. *)
THEOREM StatusAuthority == Spec => StatusChangeAuthorised
<1>1. TypeOK /\ StatusInv /\ [Next]_vars =>
        [\A o \in OrderIds :
           orders[o] # None /\ orders'[o].status # orders[o].status =>
              \E r \in Requests :
                  /\ Active(r)
                  /\ req[r].order = o
                  /\ \/ req[r].actor \in Admins \union {Owner[orders[o].shop]}
                     \/ req[r].actor = orders[o].resident /\ orders'[o].status = "CANCELLED"]_vars
    BY StatusStepAuthorised
<1> QED BY <1>1, OrdersTyped, StatusInvariant, PTL DEF Spec, StatusChangeAuthorised

-----------------------------------------------------------------------------
(* Lines as create may store them: on sale at their price, of one shop, each *)
(* product once.                                                            *)
GoodLines(lines) ==
    /\ \A i \in DOMAIN lines : <<lines[i].product, lines[i].unitPrice>> \in offered
    /\ \A i, j \in DOMAIN lines : ShopOf[lines[i].product] = ShopOf[lines[j].product]
    /\ \A i, j \in DOMAIN lines : lines[i].product = lines[j].product => i = j

(* The inductive invariant behind the theorems about receipts.              *)
ReceiptInv ==
    /\ \A p \in Products : OnSale(products[p]) => <<p, products[p].price>> \in offered
    /\ \A r \in Requests : At(r, "create") => GoodLines(req[r].lines)
    /\ ReceiptWasOffered
    /\ ReceiptIsOfOneShop

LEMMA TableKeepsOffers ==
    ASSUME TableTypeOK, TableNext,
           \A p \in Products : OnSale(products[p]) => <<p, products[p].price>> \in offered
    PROVE  /\ offered \subseteq offered'
           /\ (\A p \in Products : OnSale(products[p]) => <<p, products[p].price>> \in offered)'
<1>0. PICK p \in Products : \E row : WriteRow(p, row)
    BY DEF TableNext, ProductCreate, ProductEdit, ProductRemove
<1>1. PICK row : WriteRow(p, row)
    BY <1>0
<1>2. offered \subseteq offered'
    BY <1>1 DEF WriteRow
<1>3. ASSUME NEW x \in Products, OnSale(products'[x])
      PROVE  <<x, products'[x].price>> \in offered'
  <2>1. CASE x = p
    BY <2>1, <1>1, <1>3 DEF WriteRow, TableTypeOK
  <2>2. CASE x # p
    BY <2>2, <1>1, <1>2, <1>3 DEF WriteRow, TableTypeOK
  <2> QED BY <2>1, <2>2
<1> QED BY <1>2, <1>3 DEF OnSale

(* A request that is about to insert an order either already was, with the   *)
(* same lines, or has just read the products.                               *)
LEMMA CreateRequest ==
    ASSUME TypeOK, [Next]_vars, NEW q \in Requests, At(q, "create")'
    PROVE  \/ At(q, "create") /\ req'[q].lines = req[q].lines
           \/ \E u \in Residents, cart \in Carts, m \in Method : CreateRead(q, u, cart, m)
<1> USE OrderAssumption, RowAssumption
<1> DEFINE Kept == At(q, "create") /\ req'[q].lines = req[q].lines
<1>1. ASSUME NEW r \in Requests, NEW x, x # None => x.pc # "create", req' = [req EXCEPT ![r] = x]
      PROVE  Kept
    BY <1>1 DEF At, Active, TypeOK
<1>2. ASSUME UNCHANGED req
      PROVE  Kept
    BY <1>2 DEF At, Active
<1>3. ASSUME NEW r \in Requests, NEW row, NEW next \in {"statusEmit", "cancelEmit"},
             Active(r), WriteStatus(r, row, next)
      PROVE  Kept
  <2>1. q # r
    <3>1. req[r] \in Request /\ req'[r] = [req[r] EXCEPT !.pc = next, !.overtaken = FALSE]
      BY <1>3 DEF WriteStatus, Active, TypeOK
    <3>2. req'[r].pc = next
      BY <3>1 DEF Request
    <3> QED BY <3>2 DEF At
  <2>2. Active(q) /\ req[q] \in Request
    BY <2>1, <1>3 DEF WriteStatus, At, Active, TypeOK
  <2>3. req'[q] = req[q] \/ req'[q] = [req[q] EXCEPT !.overtaken = TRUE]
    BY <2>1, <1>3 DEF WriteStatus
  <2>4. req'[q].lines = req[q].lines /\ req'[q].pc = req[q].pc
    BY <2>2, <2>3 DEF Request
  <2> QED BY <2>2, <2>4 DEF At
<1>4. ASSUME NEW r \in Requests, Proceed(r)
      PROVE  Kept
  <2>1. CASE (\E o \in OrderIds : CreateWrite(r, o)) \/ StatusEmit(r) \/ CancelShop(r) \/ Rejected(r)
    BY <1>1, <2>1 DEF CreateWrite, StatusEmit, CancelShop, Rejected, Finish
  <2>2. ASSUME NEW pc \in {"statusWrite", "cancelShop"}, Active(r), Goto(r, pc)
        PROVE  Kept
    <3>1. [req[r] EXCEPT !.pc = pc].pc # "create"
      BY <2>2 DEF Active, TypeOK, Request
    <3> QED BY <1>1, <2>2, <3>1 DEF Goto
  <2>3. CASE StatusOwner(r)
    BY <1>1, <2>2, <2>3 DEF StatusOwner, Finish, At
  <2>4. CASE CancelEmit(r)
    BY <2>2, <2>4 DEF CancelEmit, At
  <2>5. CASE StatusWrite(r) \/ CancelWrite(r)
    BY <1>3, <2>5 DEF StatusWrite, CancelWrite, At
  <2> QED BY <1>4, <2>1, <2>3, <2>4, <2>5 DEF Proceed
<1>5. ASSUME NEW r \in Requests, NEW u \in Residents, NEW cart \in Carts, NEW m \in Method,
             CreateRead(r, u, cart, m)
      PROVE  Kept \/ CreateRead(q, u, cart, m)
  <2>1. CASE r # q
    BY <2>1, <1>5 DEF CreateRead, At, Active, TypeOK
  <2> QED BY <2>1, <1>5
<1>6. ASSUME NEW r \in Requests, NEW u \in Merchants \union Admins, NEW o \in OrderIds,
             NEW s \in StatusChoices, StatusRead(r, u, o, s)
      PROVE  Kept
    BY <1>1, <1>6 DEF StatusRead
<1>7. ASSUME NEW r \in Requests, NEW u \in Residents, NEW o \in OrderIds, CancelRead(r, u, o)
      PROVE  Kept
    BY <1>1, <1>7 DEF CancelRead
<1>8. ASSUME NEW r \in Requests, Fail(r)
      PROVE  Kept
    BY <1>1, <1>8 DEF Fail, Finish
<1>11. ASSUME NEW u \in Leavers, DeleteUser(u)
       PROVE  Kept
    BY <1>2, <1>11 DEF DeleteUser
<1>9. CASE EditTable \/ Push \/ UNCHANGED vars
    BY <1>2, <1>9 DEF EditTable, Push, NoticeStored, NoticeLost, Join, Leave, Disconnect,
                      requestVars, vars
<1>10. ~Crash
    BY DEF Crash, At, Active
<1> QED BY <1>4, <1>5, <1>6, <1>7, <1>8, <1>9, <1>10, <1>11 DEF Next, Step, Arrive

LEMMA StepKeepsReceiptInv == TypeOK /\ ReceiptInv /\ [Next]_vars => ReceiptInv'
<1> SUFFICES ASSUME TypeOK, ReceiptInv, [Next]_vars PROVE ReceiptInv'
    OBVIOUS
<1> USE OrderAssumption, RowAssumption
<1>1. /\ offered \subseteq offered'
      /\ (\A p \in Products : OnSale(products[p]) => <<p, products[p].price>> \in offered)'
  <2>1. CASE EditTable
    BY <2>1, TableKeepsOffers DEF EditTable, ReceiptInv, TypeOK
  <2>2. CASE UNCHANGED tableVars
    BY <2>2 DEF tableVars, ReceiptInv, OnSale
  <2>3. UNCHANGED tableVars \/ EditTable \/ \E u \in Leavers : DeleteUser(u)
    BY DEF Next, Step, Arrive, Proceed, Push, CreateRead, CreateWrite, StatusRead, StatusOwner,
           StatusWrite, StatusEmit, CancelRead, CancelWrite, CancelEmit, CancelShop, Fail, Crash,
           Rejected, NoticeStored, NoticeLost, Join, Leave, Disconnect, vars
  <2>4. ASSUME NEW u \in Leavers, DeleteUser(u)
        PROVE  /\ offered' = offered
               /\ \A p \in Products : products'[p] = None \/ products'[p] = products[p]
    BY <2>4 DEF DeleteUser
  <2>5. CASE \E u \in Leavers : DeleteUser(u)
    BY <2>4, <2>5 DEF ReceiptInv, OnSale
  <2> QED BY <2>1, <2>2, <2>3, <2>5
<1>2. ASSUME NEW q \in Requests, At(q, "create")'
      PROVE  GoodLines(req[q].lines)'
  <2>1. CASE At(q, "create") /\ req'[q].lines = req[q].lines
    BY <2>1, <1>1 DEF ReceiptInv, GoodLines
  <2>2. ASSUME NEW u \in Residents, NEW cart \in Carts, NEW m \in Method, CreateRead(q, u, cart, m)
        PROVE  GoodLines(req[q].lines)'
    <3> DEFINE lines == Priced(cart)
    <3>1. AllFound(cart) /\ OneShop(Found(cart)) /\ UNCHANGED tableVars /\ req'[q].lines = lines
      BY <2>2 DEF CreateRead, TypeOK
    <3>2. /\ \A i \in DOMAIN cart : OnSale(products[cart[i].product])
          /\ \A i, j \in DOMAIN cart : cart[i].product = cart[j].product => i = j
          /\ \A i, j \in DOMAIN cart : ShopOf[cart[i].product] = ShopOf[cart[j].product]
      BY <3>1, CartAccepted
    <3>3. /\ DOMAIN lines = DOMAIN cart
          /\ \A i \in DOMAIN cart : /\ lines[i].product = cart[i].product
                                     /\ lines[i].unitPrice = products[cart[i].product].price
      BY DEF Priced
    <3>4. \A i \in DOMAIN cart : cart[i].product \in Products
      BY DEF Carts, CartLine
    <3> HIDE DEF lines
    <3>5. GoodLines(lines)
      BY <3>2, <3>3, <3>4 DEF ReceiptInv, GoodLines
    <3> QED BY <3>1, <3>5 DEF GoodLines, tableVars
  <2> QED BY <1>2, <2>1, <2>2, CreateRequest
<1> DEFINE Kept(row) ==
       /\ \A i \in DOMAIN row.lines : <<row.lines[i].product, row.lines[i].unitPrice>> \in offered'
       /\ \A i \in DOMAIN row.lines : ShopOf[row.lines[i].product] = row.shop
       /\ \A i, j \in DOMAIN row.lines : row.lines[i].product = row.lines[j].product => i = j
<1>3. ASSUME NEW o \in OrderIds, orders'[o] # None
      PROVE  Kept(orders'[o])
  <2>1. ASSUME orders[o] # None, orders'[o].lines = orders[o].lines, orders'[o].shop = orders[o].shop
        PROVE  Kept(orders'[o])
    BY <2>1, <1>1 DEF ReceiptInv, ReceiptWasOffered, ReceiptIsOfOneShop
  <2>2. CASE orders'[o] = orders[o]
    BY <2>1, <2>2, <1>3
  <2>3. ASSUME NEW r \in Requests, CreateWrite(r, o), orders'[o] = NewRow(req[r])
        PROVE  Kept(orders'[o])
    <3>1. GoodLines(req[r].lines) /\ 1 \in DOMAIN req[r].lines
      BY <2>3 DEF CreateWrite, ReceiptInv, At, TypeOK, Receipts
    <3>2. orders'[o].lines = req[r].lines /\ orders'[o].shop = ShopOf[req[r].lines[1].product]
      BY <2>3 DEF NewRow
    <3> QED BY <3>1, <3>2, <1>1 DEF GoodLines
  <2>4. ASSUME NEW r \in Requests, StatusWrite(r), req[r].order = o,
               orders'[o] = [orders[o] EXCEPT !.status = req[r].status]
        PROVE  Kept(orders'[o])
    <3>1. orders[o] \in OrderRow /\ orders[o] # None
      BY <2>4 DEF StatusWrite, At, TypeOK
    <3>2. orders'[o].lines = orders[o].lines /\ orders'[o].shop = orders[o].shop
      BY <2>4, <3>1 DEF OrderRow
    <3> QED BY <2>1, <3>1, <3>2
  <2>5. ASSUME NEW r \in Requests, CancelWrite(r), req[r].order = o,
               orders'[o] = [orders[o] EXCEPT !.status = "CANCELLED", !.cancelledAt = TRUE]
        PROVE  Kept(orders'[o])
    <3>1. orders[o] \in OrderRow /\ orders[o] # None
      BY <2>5 DEF CancelWrite, At, TypeOK
    <3>2. orders'[o].lines = orders[o].lines /\ orders'[o].shop = orders[o].shop
      BY <2>5, <3>1 DEF OrderRow
    <3> QED BY <2>1, <3>1, <3>2
  <2>6. ASSUME NEW u \in Leavers, DeleteUser(u)
        PROVE  Kept(orders'[o])
    BY <2>1, <2>6, <1>3, DeletionRows
  <2> QED BY <2>2, <2>3, <2>4, <2>5, <2>6, RowChange
<1>4. ReceiptWasOffered' /\ ReceiptIsOfOneShop'
    BY <1>3 DEF ReceiptWasOffered, ReceiptIsOfOneShop
<1> QED BY <1>1, <1>2, <1>4 DEF ReceiptInv

LEMMA ReceiptInvariant == Spec => []ReceiptInv
<1>1. Init => ReceiptInv
    BY DEF Init, TableInit, ReceiptInv, ReceiptWasOffered, ReceiptIsOfOneShop, OnSale, At, Active
<1> QED BY <1>1, StepKeepsReceiptInv, OrdersTyped, PTL DEF Spec

(* Every line of every order has a price at which its product was on sale.   *)
THEOREM ReceiptsOffered == Spec => []ReceiptWasOffered
BY ReceiptInvariant, PTL DEF ReceiptInv

(* The lines of an order are of the order's shop, one per product.           *)
THEOREM ReceiptsOfOneShop == Spec => []ReceiptIsOfOneShop
BY ReceiptInvariant, PTL DEF ReceiptInv
-----------------------------------------------------------------------------
LEMMA StepKeepsErased == TypeOK /\ ErasedStaysErased /\ [Next]_vars => ErasedStaysErased'
<1> SUFFICES ASSUME TypeOK, ErasedStaysErased, [Next]_vars PROVE ErasedStaysErased'
    OBVIOUS
<1> USE OrderAssumption, RowAssumption
<1>1. CASE \E u \in Leavers : DeleteUser(u)
  <2>1. PICK u \in Leavers : DeleteUser(u)
    BY <1>1
  <2>2. ASSUME NEW o \in OrderIds, Listed(o)'
        PROVE  {orders'[o].resident, Owner[orders'[o].shop]} \intersect gone' = {}
    <3>1. orders[o] # None /\ orders[o] \in OrderRow
      BY <2>1, <2>2, DeletionRows DEF Listed
    <3>2. o \notin Theirs(u)
      BY <2>1, <2>2, <3>1 DEF DeleteUser, Listed, OrderRow
    <3>3. orders'[o] = orders[o] /\ gone' = gone \union {u}
      BY <2>1, <3>2 DEF DeleteUser
    <3> QED BY <2>2, <3>2, <3>3 DEF ErasedStaysErased, Listed, Theirs
  <2>3. \A n \in feed' : n.to \notin gone'
    BY <2>1 DEF DeleteUser, ErasedStaysErased
  <2>4. \A p \in Products : products'[p] # None => Owner[ShopOf[p]] \notin gone'
    BY <2>1 DEF DeleteUser, ErasedStaysErased
  <2> QED BY <2>2, <2>3, <2>4 DEF ErasedStaysErased
<1>2. CASE ~\E u \in Leavers : DeleteUser(u)
  <2>1. UNCHANGED gone
    BY <1>2 DEF Next, Step, EditTable, Arrive, Proceed, Push, CreateRead, CreateWrite, StatusRead,
           StatusOwner, StatusWrite, StatusEmit, CancelRead, CancelWrite, CancelEmit, CancelShop, Fail,
           Crash, Rejected, NoticeStored, NoticeLost, Join, Leave, Disconnect, vars, worldVars
  <2>2. ASSUME NEW o \in OrderIds, Listed(o)'
        PROVE  {orders'[o].resident, Owner[orders'[o].shop]} \intersect gone = {}
    <3>1. ASSUME NEW r \in Requests, CreateWrite(r, o), orders'[o] = NewRow(req[r])
          PROVE  {orders'[o].resident, Owner[orders'[o].shop]} = Referenced(req[r])
      BY <3>1 DEF NewRow, Referenced
    <3>2. ASSUME orders[o] \in OrderRow, Listed(o), orders'[o].resident = orders[o].resident,
                 orders'[o].shop = orders[o].shop
          PROVE  {orders'[o].resident, Owner[orders'[o].shop]} \intersect gone = {}
      BY <3>2 DEF ErasedStaysErased
    <3>3. CASE orders'[o] = orders[o]
      BY <2>2, <3>2, <3>3 DEF Listed, TypeOK
    <3>4. ASSUME NEW r \in Requests, StatusWrite(r) \/ CancelWrite(r), req[r].order = o
          PROVE  Listed(o) /\ orders[o] \in OrderRow
      BY <3>4 DEF StatusWrite, CancelWrite, Listed, TypeOK
    <3>5. ASSUME NEW r \in Requests, StatusWrite(r), req[r].order = o,
                 orders'[o] = [orders[o] EXCEPT !.status = req[r].status]
          PROVE  {orders'[o].resident, Owner[orders'[o].shop]} \intersect gone = {}
      BY <3>2, <3>4, <3>5 DEF OrderRow
    <3>6. ASSUME NEW r \in Requests, CancelWrite(r), req[r].order = o,
                 orders'[o] = [orders[o] EXCEPT !.status = "CANCELLED", !.cancelledAt = TRUE]
          PROVE  {orders'[o].resident, Owner[orders'[o].shop]} \intersect gone = {}
      BY <3>2, <3>4, <3>6 DEF OrderRow
    <3>7. ASSUME NEW r \in Requests, CreateWrite(r, o)
          PROVE  Referenced(req[r]) \intersect gone = {}
      BY <3>7 DEF CreateWrite
    <3> QED BY <1>2, <3>1, <3>3, <3>5, <3>6, <3>7, RowChange
  <2>3. feed' \subseteq feed \union {n \in pending : n.to \notin gone}
    BY <1>2 DEF Next, Step, EditTable, Arrive, Proceed, Push, CreateRead, CreateWrite, StatusRead,
           StatusOwner, StatusWrite, StatusEmit, CancelRead, CancelWrite, CancelEmit, CancelShop, Fail,
           Crash, Rejected, NoticeStored, NoticeLost, Join, Leave, Disconnect, vars, pushVars
  <2>4. \A p \in Products : Owner[ShopOf[p]] \in gone => products'[p] = products[p]
    BY <1>2 DEF Next, Step, EditTable, Arrive, Proceed, Push, CreateRead, CreateWrite, StatusRead,
           StatusOwner, StatusWrite, StatusEmit, CancelRead, CancelWrite, CancelEmit, CancelShop, Fail,
           Crash, Rejected, NoticeStored, NoticeLost, Join, Leave, Disconnect, vars, tableVars
  <2> QED BY <2>1, <2>2, <2>3, <2>4 DEF ErasedStaysErased
<1> QED BY <1>1, <1>2

(* Whatever was in flight when an account was deleted, nothing of it is      *)
(* stored again: no order, no notification, no product.                     *)
THEOREM ErasureIsFinal == Spec => []ErasedStaysErased
<1>1. Init => ErasedStaysErased
    BY DEF Init, TableInit, ErasedStaysErased, Listed
<1> QED BY <1>1, StepKeepsErased, OrdersTyped, PTL DEF Spec

-----------------------------------------------------------------------------
(* Payments. *)

(* Once an order exists, no step of the marketplace touches what a payment  *)
(* is made for or what payments record on it.                               *)
LEMMA BillStays ==
    ASSUME TypeOK, [Next]_vars, NEW o \in OrderIds, orders[o] # None
    PROVE  /\ orders'[o] # None
           /\ orders'[o].resident = orders[o].resident
           /\ orders'[o].total = orders[o].total
           /\ orders'[o].method = orders[o].method
           /\ orders'[o].isPaid = orders[o].isPaid
           /\ orders'[o].paymobRef = orders[o].paymobRef
           /\ orders[o].deleted => orders'[o].deleted
<1> USE RowAssumption
<1>1. orders[o] \in OrderRow
    BY DEF TypeOK
<1> DEFINE Kept == /\ orders'[o] \in OrderRow
                   /\ orders'[o].resident = orders[o].resident
                   /\ orders'[o].total = orders[o].total
                   /\ orders'[o].method = orders[o].method
                   /\ orders'[o].isPaid = orders[o].isPaid
                   /\ orders'[o].paymobRef = orders[o].paymobRef
                   /\ orders[o].deleted => orders'[o].deleted
<1>2. ASSUME NEW s \in Status, orders'[o] = [orders[o] EXCEPT !.status = s]
      PROVE  Kept
    BY <1>1, <1>2 DEF OrderRow
<1>3. ASSUME orders'[o] = [orders[o] EXCEPT !.status = "CANCELLED", !.cancelledAt = TRUE]
      PROVE  Kept
    BY <1>1, <1>3 DEF OrderRow, Status
<1>4. ASSUME orders'[o] = [orders[o] EXCEPT !.deleted = TRUE]
      PROVE  Kept
    BY <1>1, <1>4 DEF OrderRow
<1>5. \A r \in Requests : StatusWrite(r) => req[r].status \in Status
    BY DEF StatusWrite, At, Active, TypeOK, Request
<1>6. Kept
    BY <1>1, <1>2, <1>3, <1>4, <1>5, RowChange
<1> QED BY <1>6

-----------------------------------------------------------------------------
(* Types *)

LEMMA HookUpdateTyped ==
    ASSUME PayTypeOK, NEW t \in Transactions, NEW a \in Attempts, HookUpdate(t, a)
    PROVE  /\ TypeOK'
           /\ txs[t] \in Transaction /\ txs[t].state = "captured"
           /\ txs[t].order \in OrderIds
           /\ orders[txs[t].order] \in OrderRow
           /\ \E row \in OrderRow :
                 /\ orders' = [orders EXCEPT ![txs[t].order] = row]
                 /\ row.total = orders[txs[t].order].total
                 /\ row.method = orders[txs[t].order].method
                 /\ row.isPaid = TRUE
                 /\ row.paymobRef = t
                 /\ ~row.deleted
<1> USE RowAssumption, PayAssumption
<1> DEFINE o == txs[t].order
           row == [orders[o] EXCEPT !.isPaid = TRUE, !.paymobRef = t]
<1>1. txs[t] \in Transaction /\ txs[t].state = "captured" /\ orders[o] # None
    BY DEF PayTypeOK, HookUpdate, HookAt, Listed
<1>2. o \in OrderIds /\ orders[o] \in OrderRow
    BY <1>1 DEF Transaction, PayTypeOK, TypeOK
<1>3. row \in OrderRow /\ row.total = orders[o].total /\ row.method = orders[o].method
      /\ row.isPaid = TRUE /\ row.paymobRef = t /\ ~row.deleted
    BY <1>2 DEF OrderRow, HookUpdate, Listed
<1>4. orders' = [orders EXCEPT ![o] = row]
    BY DEF HookUpdate
<1> HIDE DEF row
<1>5. TypeOK'
  <2>1. orders' \in [OrderIds -> OrderRow \union {None}]
    BY <1>2, <1>3, <1>4 DEF PayTypeOK, TypeOK
  <2>2. \A x \in OrderIds : orders[x] # None => orders'[x] # None
    BY <1>2, <1>3, <1>4 DEF PayTypeOK, TypeOK
  <2>3. TypeOK /\ UNCHANGED <<tableVars, req, held, crossed, pushVars, worldVars>>
    BY DEF HookUpdate, PayTypeOK
  <2>4. TableTypeOK'
    BY <2>3 DEF TypeOK, TableTypeOK, tableVars
  <2>5. ASSUME NEW r \in Requests, Active(r)'
        PROVE  IF req'[r].pc = "create"
               THEN req'[r].order = None /\ req'[r].lines \in Receipts /\ req'[r].actor \in Residents
               ELSE req'[r].order # None /\ orders'[req'[r].order] # None
    <3>1. Active(r) /\ req' = req /\ req[r] \in Request
      BY <2>3, <2>5 DEF Active, TypeOK
    <3> QED BY <2>2, <2>3, <3>1 DEF TypeOK, Request
  <2> QED BY <2>1, <2>3, <2>4, <2>5 DEF TypeOK, pushVars, worldVars
<1> QED BY <1>1, <1>2, <1>3, <1>4, <1>5

(* The rows that payments refer to.                                         *)
Billed ==
    /\ \A p \in PayRequests : pay[p] # None => orders[pay[p].order] # None
    /\ \A k \in keys : orders[k[1]] # None
    /\ \A t \in Transactions : txs[t] # None => orders[txs[t].order] # None

LEMMA BilledStays ==
    ASSUME PayTypeOK, UNCHANGED <<keys, txs>>,
           \A p \in PayRequests : pay'[p] \in {pay[p], None},
           \A o \in OrderIds : orders[o] # None => orders'[o] # None
    PROVE  Billed'
<1>1. \A p \in PayRequests : pay'[p] # None => orders'[pay'[p].order] # None
    BY DEF PayTypeOK, Initiation
<1>2. \A k \in keys : orders'[k[1]] # None
    BY DEF PayTypeOK
<1>3. \A t \in Transactions : txs[t] # None => orders'[txs[t].order] # None
    BY DEF PayTypeOK, Transaction
<1> QED BY <1>1, <1>2, <1>3 DEF Billed

LEMMA PayStepTyped == PayTypeOK /\ [PayNext]_allVars => PayTypeOK'
<1> SUFFICES ASSUME PayTypeOK, [PayNext]_allVars PROVE PayTypeOK'
    OBVIOUS
<1> USE RowAssumption, PayAssumption
<1>1. ASSUME [Next]_vars
      PROVE  TypeOK' /\ \A o \in OrderIds : orders[o] # None => orders'[o] # None
    BY <1>1, StepTyped, BillStays DEF PayTypeOK
<1>2. ASSUME [Next]_vars, UNCHANGED payVars
      PROVE  PayTypeOK'
  <2>1. TypeOK' /\ \A o \in OrderIds : orders[o] # None => orders'[o] # None
    BY <1>1, <1>2
  <2>2. Billed'
    BY <1>2, <2>1, BilledStays DEF payVars
  <2> QED BY <1>2, <2>1, <2>2 DEF PayTypeOK, payVars, HookAt, Billed
<1>3. CASE PayCrash
  <2>1. TypeOK' /\ \A o \in OrderIds : orders[o] # None => orders'[o] # None
    BY <1>1, <1>3 DEF PayCrash, Next
  <2>2. Billed'
    BY <1>3, <2>1, BilledStays DEF PayCrash
  <2> QED BY <1>3, <2>1, <2>2 DEF PayCrash, PayTypeOK, HookAt, HookPc, Billed
<1>4. ASSUME NEW p \in PayRequests, Initiate(p)
      PROVE  PayTypeOK'
  <2>1. UNCHANGED <<vars, txs, acked, processed, hooks>>
    BY <1>4 DEF Initiate, PayRead, PayToken, PayRegister, PayKey, PayRefused
  <2>2. TypeOK' /\ UNCHANGED orders
    BY <1>1, <2>1 DEF vars, requestVars
  <2>3. ASSUME NEW x \in Initiation \union {None}, pay' = [pay EXCEPT ![p] = x],
               x # None => orders[x.order] # None, UNCHANGED keys
        PROVE  PayTypeOK'
    BY <2>1, <2>2, <2>3 DEF PayTypeOK, HookAt
  <2>4. ASSUME NEW u \in Residents, NEW o \in OrderIds, PayRead(p, u, o)
        PROVE  PayTypeOK'
    <3> DEFINE x == [pc |-> "token", order |-> o, amount |-> AmountCents(orders[o].total)]
    <3>1. orders[o].total \in Totals
      BY <2>4 DEF PayRead, Listed, PayTypeOK, TypeOK, OrderRow
    <3>2. x \in Initiation /\ x.order = o
      BY <3>1 DEF Initiation, Amounts
    <3>3. pay' = [pay EXCEPT ![p] = x] /\ orders[o] # None /\ UNCHANGED keys
      BY <2>4 DEF PayRead, Listed
    <3> HIDE DEF x
    <3> QED BY <2>3, <3>2, <3>3
  <2>5. ASSUME NEW pc \in {"register", "key"}, pay[p] # None, pay' = [pay EXCEPT ![p].pc = pc],
               UNCHANGED keys
        PROVE  PayTypeOK'
    <3> DEFINE x == [pay[p] EXCEPT !.pc = pc]
    <3>1. pay[p] \in Initiation /\ orders[pay[p].order] # None
      BY <2>5 DEF PayTypeOK
    <3>2. x \in Initiation /\ x.order = pay[p].order
      BY <3>1 DEF Initiation
    <3>3. pay' = [pay EXCEPT ![p] = x]
      BY <2>5
    <3> HIDE DEF x
    <3> QED BY <2>3, <2>5, <3>1, <3>2, <3>3
  <2>6. CASE PayToken(p) \/ PayRegister(p)
    BY <2>5, <2>6 DEF PayToken, PayRegister
  <2>7. CASE PayRefused(p)
    BY <2>3, <2>7 DEF PayRefused
  <2>8. CASE PayKey(p)
    BY <2>1, <2>2, <2>8 DEF PayKey, PayTypeOK, Initiation, HookAt
  <2> QED BY <1>4, <2>4, <2>6, <2>7, <2>8 DEF Initiate
<1>5. ASSUME NEW t \in Transactions, Customer(t)
      PROVE  PayTypeOK'
  <2>1. UNCHANGED <<vars, pay, keys, acked, processed, hooks>>
    BY <1>5 DEF Customer, Charge, Resolve
  <2>2. TypeOK' /\ UNCHANGED orders
    BY <1>1, <2>1 DEF vars, requestVars
  <2>3. PICK tx \in Transaction : /\ txs' = [txs EXCEPT ![t] = tx]
                                  /\ txs[t] = None \/ txs[t].state = "pending"
                                  /\ orders[tx.order] # None
    <3>1. ASSUME NEW k \in keys, NEW state \in {"pending", "declined", "captured"}, Charge(t, k, state)
          PROVE  \E tx \in Transaction : /\ txs' = [txs EXCEPT ![t] = tx]
                                         /\ txs[t] = None \/ txs[t].state = "pending"
                                         /\ orders[tx.order] # None
      <4> DEFINE tx == [order |-> k[1], amount |-> k[2], state |-> state]
      <4>1. k[1] \in OrderIds /\ k[2] \in Amounts /\ orders[k[1]] # None
        BY DEF PayTypeOK
      <4>2. tx \in Transaction /\ tx.order = k[1]
        BY <4>1 DEF Transaction
      <4>3. txs' = [txs EXCEPT ![t] = tx] /\ txs[t] = None
        BY <3>1 DEF Charge
      <4> HIDE DEF tx
      <4> QED BY <4>1, <4>2, <4>3
    <3>2. ASSUME NEW state \in {"declined", "captured"}, Resolve(t, state)
          PROVE  \E tx \in Transaction : /\ txs' = [txs EXCEPT ![t] = tx]
                                         /\ txs[t] = None \/ txs[t].state = "pending"
                                         /\ orders[tx.order] # None
      <4> DEFINE tx == [txs[t] EXCEPT !.state = state]
      <4>1. txs[t] \in Transaction /\ orders[txs[t].order] # None
        BY <3>2 DEF Resolve, PayTypeOK
      <4>2. tx \in Transaction /\ tx.order = txs[t].order
        BY <4>1 DEF Transaction
      <4>3. txs' = [txs EXCEPT ![t] = tx]
        BY <3>2 DEF Resolve
      <4> HIDE DEF tx
      <4> QED BY <3>2, <4>1, <4>2, <4>3 DEF Resolve
    <3> QED BY <1>5, <3>1, <3>2 DEF Customer
  <2>4. txs' \in [Transactions -> Transaction \union {None}]
    BY <2>3 DEF PayTypeOK
  <2>5. \A x \in Transactions : txs'[x] # None => orders[txs'[x].order] # None
    BY <2>3 DEF PayTypeOK
  <2>6. \A x \in Transactions : txs[x] # None /\ txs[x].state = "captured" => txs'[x] = txs[x]
    BY <2>3 DEF PayTypeOK
  <2> QED BY <2>1, <2>2, <2>4, <2>5, <2>6 DEF PayTypeOK, HookAt
<1>6. ASSUME NEW t \in Transactions, Report(t) \/ ExpireKey(t)
      PROVE  PayTypeOK'
  <2>1. UNCHANGED <<vars, pay, keys, txs>>
    BY <1>6 DEF Report, HookSkip, HookReceive, ExpireKey
  <2>2. TypeOK' /\ UNCHANGED orders
    BY <1>1, <2>1 DEF vars, requestVars
  <2>3. CASE HookSkip(t) \/ ExpireKey(t)
    BY <2>1, <2>2, <2>3 DEF HookSkip, ExpireKey, HookAt, PayTypeOK
  <2>4. ASSUME NEW a \in Attempts, HookReceive(t, a)
        PROVE  PayTypeOK'
    <3>1. txs[t] # None /\ txs[t].state = "captured" /\ UNCHANGED <<acked, processed>>
      BY <2>4 DEF HookReceive, IsCaptured
    <3>2. hooks' = [hooks EXCEPT ![t][a] = "find"]
      BY <2>4 DEF HookReceive, HookGoto
    <3>3. hooks' \in [Transactions -> [Attempts -> HookPc]]
      BY <3>2 DEF PayTypeOK, HookPc
    <3>4. \A x \in Transactions \ {t} : hooks'[x] = hooks[x]
      BY <3>2 DEF PayTypeOK
    <3> QED BY <2>1, <2>2, <3>1, <3>3, <3>4 DEF HookAt, PayTypeOK
  <2> QED BY <1>6, <2>3, <2>4 DEF Report
<1>7. ASSUME NEW t \in Transactions, NEW a \in Attempts, HookFind(t, a) \/ HookLost(t, a) \/ HookMark(t, a)
      PROVE  PayTypeOK'
  <2>1. UNCHANGED <<vars, pay, keys, txs>>
    BY <1>7 DEF HookFind, HookLost, HookMark
  <2>2. TypeOK' /\ UNCHANGED orders
    BY <1>1, <2>1 DEF vars, requestVars
  <2>3. CASE HookFind(t, a)
    BY <2>1, <2>2, <2>3 DEF HookFind, HookGoto, HookAt, HookPc, PayTypeOK
  <2>4. CASE HookLost(t, a)
    BY <2>1, <2>2, <2>4 DEF HookLost, HookGoto, HookAt, HookPc, PayTypeOK
  <2>5. CASE HookMark(t, a)
    BY <2>1, <2>2, <2>5 DEF HookMark, HookGoto, HookAt, HookPc, PayTypeOK
  <2> QED BY <1>7, <2>3, <2>4, <2>5
<1>8. ASSUME NEW t \in Transactions, NEW a \in Attempts, HookUpdate(t, a)
      PROVE  PayTypeOK'
  <2>1. TypeOK' /\ \A o \in OrderIds : orders[o] # None => orders'[o] # None
    <3>1. PICK row \in OrderRow : orders' = [orders EXCEPT ![txs[t].order] = row]
      BY <1>8, HookUpdateTyped
    <3>2. TypeOK'
      BY <1>8, HookUpdateTyped
    <3> QED BY <3>1, <3>2 DEF PayTypeOK, TypeOK
  <2>2. Billed'
    BY <1>8, <2>1, BilledStays DEF HookUpdate
  <2> QED BY <1>8, <2>1, <2>2 DEF HookUpdate, HookGoto, HookAt, HookPc, PayTypeOK, Billed
<1>9. ASSUME NEW t \in Transactions, NEW a \in Attempts, HookFail(t, a)
      PROVE  PayTypeOK'
  <2>1. TypeOK' /\ UNCHANGED orders
    BY <1>9, OrderAssumption
       DEF HookFail, PayTypeOK, TypeOK, TableTypeOK, tableVars, requestVars, pushVars, Active
  <2> QED BY <1>9, <2>1 DEF HookFail, HookGoto, HookAt, HookPc, PayTypeOK
<1> QED BY <1>2, <1>3, <1>4, <1>5, <1>6, <1>7, <1>8, <1>9 DEF PayNext, PayStep, HookProceed, Next, allVars

(* Every state has its types, and a report that is handled or done with is  *)
(* of a captured transaction for an order in the table.                     *)
THEOREM PaymentsTyped == PaySafety => []PayTypeOK
<1>1. PayInit => PayTypeOK
  <2>1. Init => TypeOK
    BY OrderAssumption, ProductAssumption DEF Init, TableInit, Unseen, TypeOK, TableTypeOK, Active
  <2> QED BY <2>1, RowAssumption DEF PayInit, PayTypeOK, HookPc, HookAt
<1> QED BY <1>1, PayStepTyped, PTL DEF PaySafety

-----------------------------------------------------------------------------
(* Money *)

BillOf(o, amount) == orders[o].method = "PAYMOB" /\ amount = AmountCents(orders[o].total)

(* The inductive invariant behind the theorems about money: from the         *)
(* initiation to the webhook the amount is that of the order, and a report   *)
(* that goes on to mark its transaction has seen or made the order paid.     *)
PayInv ==
    /\ \A p \in PayRequests : pay[p] # None => BillOf(pay[p].order, pay[p].amount)
    /\ \A k \in keys : BillOf(k[1], k[2])
    /\ \A t \in Transactions : txs[t] # None => BillOf(txs[t].order, txs[t].amount)
    /\ \A t \in Transactions, a \in Attempts : HookAt(t, a, "mark") => orders[txs[t].order].isPaid
    /\ MarkedIsPaid
    /\ PaidInFull
    /\ PaidOnlyOnline

(* A step that, as to orders, keeps what BillStays lists.                    *)
BillsStay ==
    \A o \in OrderIds :
        /\ orders[o] # None =>
              /\ orders'[o] # None
              /\ orders'[o].total = orders[o].total
              /\ orders'[o].method = orders[o].method
              /\ orders'[o].isPaid = orders[o].isPaid
              /\ orders'[o].paymobRef = orders[o].paymobRef
              /\ orders[o].deleted => orders'[o].deleted
        /\ orders[o] = None /\ orders'[o] # None => ~orders'[o].isPaid

LEMMA MarketKeepsBills == TypeOK /\ [Next]_vars => BillsStay
<1> SUFFICES ASSUME TypeOK, [Next]_vars, NEW o \in OrderIds, orders[o] = None, orders'[o] # None
             PROVE  ~orders'[o].isPaid
    BY BillStays DEF BillsStay
<1>1. ASSUME NEW r \in Requests, orders'[o] = NewRow(req[r])
      PROVE  ~orders'[o].isPaid
    BY <1>1 DEF NewRow
<1>2. ASSUME NEW r \in Requests, StatusWrite(r) \/ CancelWrite(r), req[r].order = o
      PROVE  FALSE
    BY <1>2 DEF StatusWrite, CancelWrite, Listed
<1> QED BY <1>1, <1>2, RowChange DEF Listed

(* Steps that only take initiations, reports or keys of Redis away.          *)
LEMMA QuietStep ==
    ASSUME PayTypeOK, PayInv, BillsStay, UNCHANGED <<keys, txs, acked>>,
           processed' \subseteq processed,
           \A p \in PayRequests : pay'[p] \in {pay[p], None},
           \A t \in Transactions, a \in Attempts : HookAt(t, a, "mark")' => HookAt(t, a, "mark")
    PROVE  PayInv'
<1> USE RowAssumption, PayAssumption
<1>1. \A p \in PayRequests : pay'[p] # None => BillOf(pay[p].order, pay[p].amount)'
    BY DEF BillsStay, BillOf, PayInv, PayTypeOK, Initiation
<1>2. \A k \in keys : BillOf(k[1], k[2])'
    BY DEF BillsStay, BillOf, PayInv, PayTypeOK
<1>3. \A t \in Transactions : txs[t] # None =>
        /\ txs[t].order \in OrderIds
        /\ orders[txs[t].order] # None
        /\ BillOf(txs[t].order, txs[t].amount)'
    BY DEF BillsStay, BillOf, PayInv, PayTypeOK, Transaction
<1>4. \A t \in Transactions, a \in Attempts : HookAt(t, a, "mark") => txs[t] # None
    BY DEF HookAt, PayTypeOK
<1>5. \A t \in Transactions, a \in Attempts :
        HookAt(t, a, "mark")' => orders'[txs[t].order].isPaid
    BY <1>3, <1>4 DEF BillsStay, PayInv
<1>6. MarkedIsPaid'
    BY <1>3 DEF MarkedIsPaid, PayInv, PayTypeOK, BillsStay
<1>7. PaidInFull'
    BY DEF PaidInFull, PayInv, BillsStay
<1>8. PaidOnlyOnline'
    BY DEF PaidOnlyOnline, PayInv, BillsStay
<1> QED BY <1>1, <1>2, <1>3, <1>5, <1>6, <1>7, <1>8 DEF PayInv

LEMMA PayStepKeepsPayInv == PayTypeOK /\ PayInv /\ [PayNext]_allVars => PayInv'
<1> SUFFICES ASSUME PayTypeOK, PayInv, [PayNext]_allVars PROVE PayInv'
    OBVIOUS
<1> USE RowAssumption, PayAssumption
<1>1. [Next]_vars => BillsStay
    BY MarketKeepsBills DEF PayTypeOK
<1>2. UNCHANGED orders => BillsStay
    BY DEF BillsStay
<1>3. ASSUME [Next]_vars, UNCHANGED payVars
      PROVE  PayInv'
    BY <1>1, <1>3, QuietStep DEF payVars, HookAt
<1>4. CASE PayCrash
    BY <1>1, <1>4, QuietStep DEF PayCrash, Next, HookAt
<1>5. ASSUME NEW p \in PayRequests, Initiate(p)
      PROVE  PayInv'
  <2>1. UNCHANGED <<orders, txs, acked, processed, hooks>>
    BY <1>5 DEF Initiate, PayRead, PayToken, PayRegister, PayKey, PayRefused, vars, requestVars
  <2>2. ASSUME NEW x, pay' = [pay EXCEPT ![p] = x], x # None => BillOf(x.order, x.amount),
               UNCHANGED keys
        PROVE  PayInv'
    BY <2>1, <2>2 DEF PayInv, BillOf, MarkedIsPaid, PaidInFull, PaidOnlyOnline, HookAt, PayTypeOK
  <2>3. ASSUME NEW u \in Residents, NEW o \in OrderIds, PayRead(p, u, o)
        PROVE  PayInv'
    <3> DEFINE x == [pc |-> "token", order |-> o, amount |-> AmountCents(orders[o].total)]
    <3>1. BillOf(x.order, x.amount)
      BY <2>3 DEF PayRead, MayPay, BillOf
    <3>2. pay' = [pay EXCEPT ![p] = x] /\ UNCHANGED keys
      BY <2>3 DEF PayRead
    <3> HIDE DEF x
    <3> QED BY <2>2, <3>1, <3>2
  <2>4. ASSUME NEW pc, pay[p] # None, pay' = [pay EXCEPT ![p].pc = pc], UNCHANGED keys
        PROVE  PayInv'
    <3> DEFINE x == [pay[p] EXCEPT !.pc = pc]
    <3>1. pay[p] \in Initiation
      BY <2>4 DEF PayTypeOK
    <3>2. x.order = pay[p].order /\ x.amount = pay[p].amount
      BY <3>1 DEF Initiation
    <3>3. BillOf(pay[p].order, pay[p].amount)
      BY <2>4 DEF PayInv
    <3>4. pay' = [pay EXCEPT ![p] = x]
      BY <2>4
    <3> HIDE DEF x
    <3> QED BY <2>2, <2>4, <3>2, <3>3, <3>4
  <2>5. CASE PayToken(p) \/ PayRegister(p)
    BY <2>4, <2>5 DEF PayToken, PayRegister
  <2>6. CASE PayRefused(p)
    BY <2>2, <2>6 DEF PayRefused
  <2>7. CASE PayKey(p)
    BY <2>1, <2>7 DEF PayKey, PayInv, BillOf, MarkedIsPaid, PaidInFull, PaidOnlyOnline, HookAt, PayTypeOK
  <2> QED BY <1>5, <2>3, <2>5, <2>6, <2>7 DEF Initiate
<1>6. ASSUME NEW t \in Transactions, Customer(t)
      PROVE  PayInv'
  <2>1. UNCHANGED <<orders, pay, keys, acked, processed, hooks>>
    BY <1>6 DEF Customer, Charge, Resolve, vars, requestVars
  <2>2. ASSUME NEW tx, txs' = [txs EXCEPT ![t] = tx], txs[t] = None \/ txs[t].state = "pending",
               tx = None \/ BillOf(tx.order, tx.amount)
        PROVE  PayInv'
    <3>1. \A x \in Transactions : txs[x] # None /\ txs[x].state = "captured" => txs'[x] = txs[x]
      BY <2>2 DEF PayTypeOK
    <3>2. \A x \in Transactions : txs'[x] # None => BillOf(txs'[x].order, txs'[x].amount)
      BY <2>2 DEF PayTypeOK, PayInv
    <3>3. \A x \in Transactions, a \in Attempts : HookAt(x, a, "mark") =>
              txs'[x] = txs[x] /\ orders[txs[x].order].isPaid
      BY <3>1 DEF PayTypeOK, PayInv, HookAt
    <3>4. MarkedIsPaid'
      BY <2>1, <3>1 DEF MarkedIsPaid, PayInv, PayTypeOK
    <3>5. PaidInFull'
      BY <2>1, <3>1 DEF PaidInFull, PayInv
    <3> QED BY <2>1, <3>2, <3>3, <3>4, <3>5 DEF PayInv, BillOf, PaidOnlyOnline, HookAt
  <2>3. ASSUME NEW k \in keys, NEW state \in {"pending", "declined", "captured"}, Charge(t, k, state)
        PROVE  PayInv'
    <3> DEFINE tx == [order |-> k[1], amount |-> k[2], state |-> state]
    <3>1. BillOf(tx.order, tx.amount)
      BY DEF PayInv
    <3>2. txs' = [txs EXCEPT ![t] = tx] /\ txs[t] = None
      BY <2>3 DEF Charge
    <3> HIDE DEF tx
    <3> QED BY <2>2, <3>1, <3>2
  <2>4. ASSUME NEW state \in {"declined", "captured"}, Resolve(t, state)
        PROVE  PayInv'
    <3> DEFINE tx == [txs[t] EXCEPT !.state = state]
    <3>1. txs[t] \in Transaction /\ BillOf(txs[t].order, txs[t].amount)
      BY <2>4 DEF Resolve, PayTypeOK, PayInv
    <3>2. tx.order = txs[t].order /\ tx.amount = txs[t].amount
      BY <3>1 DEF Transaction
    <3>3. txs' = [txs EXCEPT ![t] = tx] /\ txs[t].state = "pending"
      BY <2>4 DEF Resolve
    <3> HIDE DEF tx
    <3> QED BY <2>2, <3>1, <3>2, <3>3
  <2> QED BY <1>6, <2>3, <2>4 DEF Customer
<1>7. ASSUME NEW t \in Transactions, HookSkip(t)
      PROVE  PayInv'
  <2>1. t \in processed /\ acked' = acked \union {t} /\ UNCHANGED <<orders, pay, keys, txs, processed, hooks>>
    BY <1>7 DEF HookSkip, vars, requestVars
  <2> QED BY <2>1 DEF PayInv, BillOf, MarkedIsPaid, PaidInFull, PaidOnlyOnline, HookAt
<1>8. ASSUME NEW t \in Transactions, ExpireKey(t)
      PROVE  PayInv'
    BY <1>2, <1>8, QuietStep DEF ExpireKey, HookAt, vars, requestVars
<1>9. ASSUME NEW t \in Transactions, NEW a \in Attempts, NEW pc, HookGoto(t, a, pc)
      PROVE  \A x \in Transactions, b \in Attempts :
                 HookAt(x, b, "mark")' => HookAt(x, b, "mark") \/ (x = t /\ pc = "mark")
  <2>1. hooks' = [hooks EXCEPT ![t][a] = pc]
    BY <1>9 DEF HookGoto
  <2>2. \A x \in Transactions, b \in Attempts :
          hooks'[x][b] = IF x = t /\ b = a THEN pc ELSE hooks[x][b]
    BY <2>1 DEF PayTypeOK
  <2> QED BY <2>2 DEF HookAt
<1>10. ASSUME NEW t \in Transactions, NEW a \in Attempts, HookReceive(t, a) \/ HookLost(t, a)
       PROVE  PayInv'
    BY <1>2, <1>9, <1>10, QuietStep DEF HookReceive, HookLost, vars, requestVars
<1>11. ASSUME NEW t \in Transactions, NEW a \in Attempts, HookFind(t, a)
       PROVE  PayInv'
  <2>1. /\ UNCHANGED <<orders, pay, keys, txs, acked, processed>>
        /\ HookGoto(t, a, IF orders[txs[t].order].isPaid THEN "mark" ELSE "update")
    BY <1>11 DEF HookFind, vars, requestVars
  <2>2. CASE orders[txs[t].order].isPaid
    <3>1. \A x \in Transactions, b \in Attempts :
              HookAt(x, b, "mark")' => HookAt(x, b, "mark") \/ x = t
      BY <1>9, <2>1, <2>2
    <3> QED BY <2>1, <2>2, <3>1 DEF PayInv, BillOf, MarkedIsPaid, PaidInFull, PaidOnlyOnline
  <2>3. CASE ~orders[txs[t].order].isPaid
    BY <1>2, <1>9, <2>1, <2>3, QuietStep
  <2> QED BY <2>2, <2>3
<1>12. ASSUME NEW t \in Transactions, NEW a \in Attempts, HookAt(t, a, "mark"), HookGoto(t, a, "idle"),
              UNCHANGED <<orders, pay, keys, txs>>,
              processed' \in {processed, processed \union {t}}, acked' \in {acked, acked \union {t}}
       PROVE  PayInv'
  <2>1. orders[txs[t].order].isPaid
    BY <1>12 DEF PayInv
  <2>2. \A x \in Transactions, b \in Attempts : HookAt(x, b, "mark")' => HookAt(x, b, "mark")
    BY <1>9, <1>12
  <2> QED BY <1>12, <2>1, <2>2 DEF PayInv, BillOf, MarkedIsPaid, PaidInFull, PaidOnlyOnline
<1>13. ASSUME NEW t \in Transactions, NEW a \in Attempts, HookMark(t, a)
       PROVE  PayInv'
    BY <1>12, <1>13 DEF HookMark, vars, requestVars
<1>14. ASSUME NEW t \in Transactions, NEW a \in Attempts, HookFail(t, a)
       PROVE  PayInv'
  <2>1. HookGoto(t, a, "idle") /\ UNCHANGED <<orders, pay, keys, txs, acked>>
    BY <1>14 DEF HookFail, requestVars
  <2>2. CASE UNCHANGED processed
    BY <1>2, <1>9, <2>1, <2>2, QuietStep
  <2>3. CASE HookAt(t, a, "mark") /\ processed' = processed \union {t}
    BY <1>12, <2>1, <2>3
  <2> QED BY <1>14, <2>2, <2>3 DEF HookFail
<1>15. ASSUME NEW t \in Transactions, NEW a \in Attempts, HookUpdate(t, a)
       PROVE  PayInv'
  <2> DEFINE o == txs[t].order
  <2>1. /\ txs[t] \in Transaction /\ txs[t].state = "captured"
        /\ o \in OrderIds /\ orders[o] \in OrderRow
    BY <1>15, HookUpdateTyped
  <2>2. PICK row \in OrderRow :
               /\ orders' = [orders EXCEPT ![o] = row]
               /\ row.total = orders[o].total
               /\ row.method = orders[o].method
               /\ row.isPaid = TRUE
               /\ row.paymobRef = t
    BY <1>15, HookUpdateTyped
  <2>3. /\ HookGoto(t, a, "mark")
        /\ pay' = pay /\ keys' = keys /\ txs' = txs /\ acked' = acked /\ processed' = processed
    BY <1>15 DEF HookUpdate
  <2>4. orders'[o] = row /\ \A x \in OrderIds \ {o} : orders'[x] = orders[x]
    BY <2>1, <2>2 DEF PayTypeOK, TypeOK
  <2>5. \A x \in OrderIds :
          /\ orders'[x].total = orders[x].total
          /\ orders'[x].method = orders[x].method
          /\ orders[x].isPaid => orders'[x].isPaid
    BY <2>2, <2>4
  <2>6. BillOf(o, txs[t].amount)
    BY <2>1 DEF PayInv
  <2> HIDE DEF o
  <2>7. \A p \in PayRequests : pay'[p] # None => BillOf(pay[p].order, pay[p].amount)'
    BY <2>3, <2>5 DEF BillOf, PayInv, PayTypeOK, Initiation
  <2>8. \A k \in keys : BillOf(k[1], k[2])'
    BY <2>3, <2>5 DEF BillOf, PayInv, PayTypeOK
  <2>9. \A x \in Transactions : txs[x] # None => txs[x].order \in OrderIds
    BY DEF PayTypeOK, Transaction
  <2>10. \A x \in Transactions : txs'[x] # None => BillOf(txs[x].order, txs[x].amount)'
    BY <2>3, <2>5, <2>9 DEF BillOf, PayInv
  <2>11. \A x \in Transactions, b \in Attempts : HookAt(x, b, "mark")' => orders'[txs'[x].order].isPaid
    <3>1. ASSUME NEW x \in Transactions, NEW b \in Attempts, HookAt(x, b, "mark")
          PROVE  orders'[txs[x].order].isPaid
      BY <3>1, <2>5, <2>9 DEF PayInv, PayTypeOK, HookAt
    <3>2. orders'[txs[t].order].isPaid
      BY <2>2, <2>4 DEF o
    <3> QED BY <1>9, <2>3, <3>1, <3>2
  <2>12. MarkedIsPaid'
    BY <2>3, <2>5, <2>9 DEF MarkedIsPaid, PayInv, PayTypeOK
  <2>13. PaidInFull'
    <3> SUFFICES ASSUME NEW x \in OrderIds, orders'[x] # None, orders'[x].isPaid
                 PROVE  \E s \in Transactions :
                            /\ orders'[x].paymobRef = s
                            /\ txs'[s] # None
                            /\ txs'[s].state = "captured"
                            /\ txs'[s].order = x
                            /\ txs'[s].amount = AmountCents(orders'[x].total)
      BY DEF PaidInFull
    <3>1. CASE x = o
      BY <3>1, <2>1, <2>2, <2>3, <2>4, <2>6 DEF BillOf, o
    <3>2. CASE x # o
      BY <3>2, <2>3, <2>4 DEF PayInv, PaidInFull
    <3> QED BY <3>1, <3>2
  <2>14. PaidOnlyOnline'
    <3> SUFFICES ASSUME NEW x \in OrderIds, orders'[x] # None, orders'[x].isPaid
                 PROVE  orders'[x].method = "PAYMOB"
      BY DEF PaidOnlyOnline
    <3>1. CASE x = o
      BY <3>1, <2>2, <2>4, <2>6 DEF BillOf
    <3>2. CASE x # o
      BY <3>2, <2>4 DEF PayInv, PaidOnlyOnline
    <3> QED BY <3>1, <3>2
  <2> QED BY <2>3, <2>7, <2>8, <2>10, <2>11, <2>12, <2>13, <2>14 DEF PayInv
<1> QED BY <1>3, <1>4, <1>5, <1>6, <1>7, <1>8, <1>10, <1>11, <1>13, <1>14, <1>15
        DEF PayNext, PayStep, Report, HookProceed, Next, allVars

LEMMA MoneyInvariant == PaySafety => []PayInv
<1>1. PayInit => PayInv
    BY DEF PayInit, Init, PayInv, MarkedIsPaid, PaidInFull, PaidOnlyOnline, HookAt
<1> QED BY <1>1, PayStepKeepsPayInv, PaymentsTyped, PTL DEF PaySafety

(* A transaction that is skipped from now on has its order paid.             *)
THEOREM NothingSkippedUnpaid == PaySafety => []MarkedIsPaid
BY MoneyInvariant, PTL DEF PayInv

(* A paid order was paid its own total, by a transaction for that order.     *)
THEOREM NothingPaidShort == PaySafety => []PaidInFull
BY MoneyInvariant, PTL DEF PayInv

(* Cash orders are never marked as paid.                                    *)
THEOREM CashStaysCash == PaySafety => []PaidOnlyOnline
BY MoneyInvariant, PTL DEF PayInv

-----------------------------------------------------------------------------
(* Refinement *)

LEMMA StepImplements ==
    ASSUME PayTypeOK, PayInv, [PayNext]_allVars
    PROVE  [Ledger!SettlementNext]_(Ledger!settlementVars)
<1> USE RowAssumption, PayAssumption
<1>1. ASSUME BillsStay, UNCHANGED txs
      PROVE  Ledger!SettlementNext
  <2>1. UNCHANGED CapturedPairs
    BY <1>1 DEF CapturedPairs
  <2>2. UNCHANGED PaidOrders
    BY <1>1 DEF PaidOrders, BillsStay
  <2>3. DeletedOrders' \in SUBSET OrderIds /\ DeletedOrders' = DeletedOrders \union DeletedOrders'
    BY <1>1 DEF DeletedOrders, BillsStay
  <2> QED BY <2>1, <2>2, <2>3 DEF Ledger!SettlementNext, Ledger!Withdraw
<1>2. [Next]_vars => BillsStay
    BY MarketKeepsBills DEF PayTypeOK
<1>3. UNCHANGED orders => BillsStay
    BY DEF BillsStay
<1>4. ASSUME NEW t \in Transactions, Customer(t)
      PROVE  [Ledger!SettlementNext]_(Ledger!settlementVars)
  <2>1. UNCHANGED <<PaidOrders, DeletedOrders>>
    BY <1>4 DEF Customer, Charge, Resolve, vars, requestVars, PaidOrders, DeletedOrders
  <2>2. ASSUME NEW tx \in Transaction, txs' = [txs EXCEPT ![t] = tx],
               txs[t] = None \/ txs[t].state # "captured"
        PROVE  [Ledger!SettlementNext]_(Ledger!settlementVars)
    <3>1. txs'[t] = tx /\ tx # None /\ \A x \in Transactions \ {t} : txs'[x] = txs[x]
      BY <2>2 DEF PayTypeOK
    <3>2. CASE tx.state = "captured"
      <4>1. CapturedPairs' = CapturedPairs \union {<<t, tx.order>>}
        BY <2>2, <3>1, <3>2 DEF CapturedPairs
      <4>2. \A c \in CapturedPairs : c[1] # t
        BY <2>2 DEF CapturedPairs
      <4>3. tx.order \in OrderIds
        BY DEF Transaction
      <4> QED BY <2>1, <4>1, <4>2, <4>3 DEF Ledger!SettlementNext, Ledger!Capture
    <3>3. CASE tx.state # "captured"
      <4>1. CapturedPairs' = CapturedPairs
        BY <2>2, <3>1, <3>3 DEF CapturedPairs
      <4> QED BY <2>1, <4>1 DEF Ledger!settlementVars
    <3> QED BY <3>2, <3>3
  <2>3. ASSUME NEW k \in keys, NEW state \in {"pending", "declined", "captured"}, Charge(t, k, state)
        PROVE  [Ledger!SettlementNext]_(Ledger!settlementVars)
    <3> DEFINE tx == [order |-> k[1], amount |-> k[2], state |-> state]
    <3>1. k[1] \in OrderIds /\ k[2] \in Amounts
      BY DEF PayTypeOK
    <3>2. tx \in Transaction
      BY <3>1 DEF Transaction
    <3>3. txs' = [txs EXCEPT ![t] = tx] /\ txs[t] = None
      BY <2>3 DEF Charge
    <3> HIDE DEF tx
    <3> QED BY <2>2, <3>2, <3>3
  <2>4. ASSUME NEW state \in {"declined", "captured"}, Resolve(t, state)
        PROVE  [Ledger!SettlementNext]_(Ledger!settlementVars)
    <3> DEFINE tx == [txs[t] EXCEPT !.state = state]
    <3>1. txs[t] \in Transaction /\ txs[t].state = "pending"
      BY <2>4 DEF Resolve, PayTypeOK
    <3>2. tx \in Transaction
      BY <3>1 DEF Transaction
    <3>3. txs' = [txs EXCEPT ![t] = tx]
      BY <2>4 DEF Resolve
    <3> HIDE DEF tx
    <3> QED BY <2>2, <3>1, <3>2, <3>3
  <2> QED BY <1>4, <2>3, <2>4 DEF Customer
<1>5. ASSUME NEW t \in Transactions, NEW a \in Attempts, HookUpdate(t, a)
      PROVE  [Ledger!SettlementNext]_(Ledger!settlementVars)
  <2> DEFINE o == txs[t].order
  <2>1. /\ txs[t] \in Transaction /\ txs[t].state = "captured"
        /\ o \in OrderIds /\ orders[o] \in OrderRow
    BY <1>5, HookUpdateTyped
  <2>2. PICK row \in OrderRow : orders' = [orders EXCEPT ![o] = row] /\ row.isPaid = TRUE /\ ~row.deleted
    BY <1>5, HookUpdateTyped
  <2>3. orders'[o] = row /\ \A x \in OrderIds \ {o} : orders'[x] = orders[x]
    BY <2>1, <2>2 DEF PayTypeOK, TypeOK
  <2>4. <<t, o>> \in CapturedPairs
    BY <2>1 DEF CapturedPairs
  <2>5. UNCHANGED CapturedPairs
    BY <1>5 DEF HookUpdate, CapturedPairs
  <2>9. ~orders[o].deleted
    BY <1>5 DEF HookUpdate, Listed
  <2> HIDE DEF o
  <2>6. PaidOrders' = PaidOrders \union {o}
    BY <2>1, <2>2, <2>3 DEF PaidOrders
  <2>10. DeletedOrders' = DeletedOrders /\ o \notin DeletedOrders
    BY <2>1, <2>2, <2>3, <2>9 DEF DeletedOrders
  <2>7. CASE o \in PaidOrders
    BY <2>5, <2>6, <2>7, <2>10 DEF Ledger!settlementVars
  <2>8. CASE o \notin PaidOrders
    BY <2>1, <2>4, <2>5, <2>6, <2>8, <2>10 DEF Ledger!SettlementNext, Ledger!Settle, Ledger!PaidFor
  <2> QED BY <2>7, <2>8
<1>6. CASE Step /\ UNCHANGED payVars
    BY <1>1, <1>2, <1>6 DEF Next, payVars
<1>7. CASE PayCrash
    BY <1>1, <1>2, <1>7 DEF PayCrash, Next
<1>8. ASSUME NEW p \in PayRequests, Initiate(p)
      PROVE  Ledger!SettlementNext
    BY <1>1, <1>3, <1>8
       DEF Initiate, PayRead, PayToken, PayRegister, PayKey, PayRefused, vars, requestVars
<1>9. ASSUME NEW t \in Transactions, Report(t) \/ ExpireKey(t)
      PROVE  Ledger!SettlementNext
    BY <1>1, <1>3, <1>9 DEF Report, HookSkip, HookReceive, ExpireKey, vars, requestVars
<1>10. ASSUME NEW t \in Transactions, NEW a \in Attempts,
              HookFind(t, a) \/ HookLost(t, a) \/ HookMark(t, a) \/ HookFail(t, a)
       PROVE  Ledger!SettlementNext
    BY <1>1, <1>3, <1>10 DEF HookFind, HookLost, HookMark, HookFail, vars, requestVars
<1>11. CASE UNCHANGED allVars
    BY <1>1, <1>3, <1>11 DEF allVars, payVars, vars, requestVars
<1> QED BY <1>4, <1>5, <1>6, <1>7, <1>8, <1>9, <1>10, <1>11 DEF PayNext, PayStep, HookProceed

(* Money captured by Paymob is recorded only on the order it was captured    *)
(* for, and neither is undone: the safety half of ImplementsSettlement.      *)
THEOREM SettlementImplemented == PaySafety => Ledger!SettlementSafety
<1>1. PayInit => Ledger!SettlementInit
    BY DEF PayInit, Init, Ledger!SettlementInit, CapturedPairs, PaidOrders, DeletedOrders
<1>2. PayTypeOK /\ PayInv /\ [PayNext]_allVars => [Ledger!SettlementNext]_(Ledger!settlementVars)
    BY StepImplements
<1> QED BY <1>1, <1>2, PaymentsTyped, MoneyInvariant, PTL DEF PaySafety, Ledger!SettlementSafety

-----------------------------------------------------------------------------
(* The promises of the orders, next to payments.  A webhook writes the rows  *)
(* of the orders service, so what Spec promises has to be shown again for   *)
(* PaySafety: each of its steps is one of the marketplace, or changes        *)
(* nothing but what payments record and the count of failures.              *)

(* What a webhook leaves of the marketplace.                                *)
OnlyBilled ==
    /\ UNCHANGED <<tableVars, req, held, crossed, pushVars, gone>>
    /\ \A o \in OrderIds :
          \/ orders[o] = None /\ orders'[o] = None
          \/ /\ orders[o] # None /\ orders'[o] # None
             /\ orders'[o].resident = orders[o].resident
             /\ orders'[o].shop = orders[o].shop
             /\ orders'[o].status = orders[o].status
             /\ orders'[o].lines = orders[o].lines
             /\ orders'[o].cancelledAt = orders[o].cancelledAt
             /\ orders'[o].deleted = orders[o].deleted

LEMMA PayStepSplits == PayTypeOK /\ [PayNext]_allVars => [Next]_vars \/ OnlyBilled
<1> SUFFICES ASSUME PayTypeOK, [PayNext]_allVars PROVE [Next]_vars \/ OnlyBilled
    OBVIOUS
<1>1. ASSUME NEW t \in Transactions, NEW a \in Attempts, HookUpdate(t, a)
      PROVE  OnlyBilled
  <2> DEFINE b == txs[t].order
             row == [orders[b] EXCEPT !.isPaid = TRUE, !.paymobRef = t]
  <2>1. b \in OrderIds /\ orders[b] \in OrderRow
    BY <1>1, HookUpdateTyped
  <2>2. /\ row.resident = orders[b].resident /\ row.shop = orders[b].shop
        /\ row.status = orders[b].status /\ row.lines = orders[b].lines
        /\ row.cancelledAt = orders[b].cancelledAt /\ row.deleted = orders[b].deleted
    BY <2>1 DEF OrderRow
  <2>3. /\ orders' = [orders EXCEPT ![b] = row]
        /\ UNCHANGED <<tableVars, req, held, crossed, pushVars, gone>>
    BY <1>1 DEF HookUpdate, worldVars
  <2> HIDE DEF row, b
  <2>4. ASSUME NEW o \in OrderIds
        PROVE  orders'[o] = IF o = b THEN row ELSE orders[o]
    BY <2>1, <2>3 DEF PayTypeOK, TypeOK
  <2>5. orders' \in [OrderIds -> OrderRow \union {None}] /\ orders'[b] # None
    <3>1. PICK x \in OrderRow : orders' = [orders EXCEPT ![b] = x]
      BY <1>1, HookUpdateTyped DEF b
    <3> QED BY <2>1, <3>1, RowAssumption DEF PayTypeOK, TypeOK
  <2> QED BY <2>1, <2>2, <2>3, <2>4, <2>5, RowAssumption DEF OnlyBilled
<1>2. ASSUME NEW t \in Transactions, NEW a \in Attempts, HookFail(t, a)
      PROVE  OnlyBilled
    BY <1>2 DEF HookFail, OnlyBilled, requestVars
<1>3. ASSUME NEW p \in PayRequests, Initiate(p)
      PROVE  UNCHANGED vars
    BY <1>3 DEF Initiate, PayRead, PayToken, PayRegister, PayKey, PayRefused
<1>4. ASSUME NEW t \in Transactions, Customer(t) \/ Report(t) \/ ExpireKey(t)
      PROVE  UNCHANGED vars
    BY <1>4 DEF Customer, Charge, Resolve, Report, HookSkip, HookReceive, ExpireKey
<1>5. ASSUME NEW t \in Transactions, NEW a \in Attempts, HookFind(t, a) \/ HookLost(t, a) \/ HookMark(t, a)
      PROVE  UNCHANGED vars
    BY <1>5 DEF HookFind, HookLost, HookMark
<1>6. CASE Step \/ PayCrash \/ UNCHANGED allVars
    BY <1>6 DEF Next, PayCrash, allVars
<1> QED BY <1>1, <1>2, <1>3, <1>4, <1>5, <1>6 DEF PayNext, PayStep, HookProceed

LEMMA BillingKeepsStatusInv == TypeOK /\ StatusInv /\ OnlyBilled => StatusInv'
<1> SUFFICES ASSUME TypeOK, StatusInv, OnlyBilled PROVE StatusInv'
    OBVIOUS
<1> USE RowAssumption DEF StatusInv
<1>1. UNCHANGED <<req, held, seen, pending, feed>>
    BY DEF OnlyBilled, pushVars
<1>2. ASSUME NEW r \in Requests, Active(r), req[r].pc # "create"
      PROVE  /\ req[r].order \in OrderIds /\ orders[req[r].order] # None
             /\ orders'[req[r].order].resident = orders[req[r].order].resident
             /\ orders'[req[r].order].shop = orders[req[r].order].shop
             /\ orders'[req[r].order].status = orders[req[r].order].status
             /\ orders'[req[r].order].cancelledAt = orders[req[r].order].cancelledAt
  <2>1. req[r].order \in OrderIds /\ orders[req[r].order] # None
    BY <1>2 DEF TypeOK, Active, Request
  <2> QED BY <2>1 DEF OnlyBilled
<1>3. CarriedOK'
    BY <1>1, <1>2 DEF CarriedOK, Active
<1>4. CheckedCancelIsPlaced'
    BY <1>1, <1>2 DEF CheckedCancelIsPlaced, At, Active
<1>6. ToldWasHeld'
    BY <1>1 DEF ToldWasHeld
<1>7. NoticeAddressee'
    BY <1>1 DEF NoticeAddressee, OnlyBilled, TypeOK, Notice
<1> QED BY <1>3, <1>4, <1>6, <1>7

LEMMA BillingKeepsRoomInv == TypeOK /\ RoomInv /\ OnlyBilled => RoomInv'
<1> SUFFICES ASSUME TypeOK, RoomInv, OnlyBilled PROVE RoomInv'
    OBVIOUS
<1>1. UNCHANGED <<req, crossed, rooms, seen>>
    BY DEF OnlyBilled, pushVars
<1>2. \A r \in Requests : Underway(r)' <=> Underway(r)
    BY <1>1 DEF Underway, At, Active
<1>3. UpdatesOK'
    BY <1>1, <1>2, UnderwayOrder DEF RoomInv, UpdatesOK, OnlyBilled
<1>4. MembersOnly' /\ RoomFollows'
    BY <1>1, <1>2 DEF RoomInv, MembersOnly, RoomFollows, OnlyBilled
<1> QED BY <1>3, <1>4 DEF RoomInv

LEMMA BillingKeepsReceiptInv == TypeOK /\ ReceiptInv /\ OnlyBilled => ReceiptInv'
<1> SUFFICES ASSUME TypeOK, ReceiptInv, OnlyBilled PROVE ReceiptInv'
    OBVIOUS
<1>1. UNCHANGED <<products, offered, req>>
    BY DEF OnlyBilled, tableVars
<1>2. \A p \in Products : OnSale(products'[p]) => <<p, products'[p].price>> \in offered'
    BY <1>1 DEF ReceiptInv, OnSale
<1>3. \A r \in Requests : At(r, "create")' => GoodLines(req[r].lines)'
    BY <1>1 DEF ReceiptInv, At, Active, GoodLines
<1>4. ReceiptWasOffered'
    BY <1>1 DEF ReceiptInv, ReceiptWasOffered, OnlyBilled
<1>5. ReceiptIsOfOneShop'
    BY DEF ReceiptInv, ReceiptIsOfOneShop, OnlyBilled
<1> QED BY <1>2, <1>3, <1>4, <1>5 DEF ReceiptInv

LEMMA BillingKeepsErased == ErasedStaysErased /\ OnlyBilled => ErasedStaysErased'
BY DEF ErasedStaysErased, OnlyBilled, Listed, tableVars, pushVars

LEMMA OrdersWithPayments == PaySafety => [](StatusInv /\ RoomInv /\ ReceiptInv /\ ErasedStaysErased)
<1> DEFINE I == StatusInv /\ RoomInv /\ ReceiptInv /\ ErasedStaysErased
<1>1. PayInit => I
    BY DEF PayInit, Init, TableInit, Unseen, StatusInv, CarriedOK, CheckedCancelIsPlaced,
           RoomInv, UpdatesOK, MembersOnly, RoomFollows, Underway,
           ToldWasHeld, NoticeAddressee, ReceiptInv, ReceiptWasOffered, ReceiptIsOfOneShop,
           ErasedStaysErased, OnSale, Listed, At, Active
<1>2. PayTypeOK /\ I /\ [PayNext]_allVars => I'
  <2> SUFFICES ASSUME PayTypeOK, I, [PayNext]_allVars PROVE I'
      OBVIOUS
  <2>1. TypeOK
    BY DEF PayTypeOK
  <2>2. CASE [Next]_vars
    BY <2>1, <2>2, StepKeepsStatusInv, StepKeepsRoomInv, StepKeepsReceiptInv, StepKeepsErased
  <2>3. CASE OnlyBilled
    BY <2>1, <2>3, BillingKeepsStatusInv, BillingKeepsRoomInv, BillingKeepsReceiptInv,
       BillingKeepsErased
  <2> QED BY <2>2, <2>3, PayStepSplits
<1> QED BY <1>1, <1>2, PaymentsTyped, PTL DEF PaySafety

(* While payments are initiated and webhooks write to the rows of orders,    *)
(* every invariant of the orders module goes on to hold.                    *)
THEOREM PaymentsKeepOrders ==
    PaySafety => [](/\ CheckedCancelIsPlaced /\ RoomFollows
                    /\ ToldWasHeld /\ NoticeAddressee
                    /\ ReceiptWasOffered /\ ReceiptIsOfOneShop
                    /\ ErasedStaysErased)
BY OrdersWithPayments, PTL DEF StatusInv, RoomInv, ReceiptInv

(* A report from Paymob changes no status, so that the statuses of orders    *)
(* stay in the hands of staff and residents when payments run beside them.   *)
THEOREM PaymentsKeepAuthority == PaySafety => StatusChangeAuthorised
<1> DEFINE Hands(o) ==
               \E r \in Requests :
                  /\ Active(r)
                  /\ req[r].order = o
                  /\ \/ req[r].actor \in Admins \union {Owner[orders[o].shop]}
                     \/ req[r].actor = orders[o].resident /\ orders'[o].status = "CANCELLED"
           Authorised == \A o \in OrderIds :
                            orders[o] # None /\ orders'[o].status # orders[o].status => Hands(o)
<1>1. PayTypeOK /\ StatusInv /\ [PayNext]_allVars => Authorised
  <2> SUFFICES ASSUME PayTypeOK, StatusInv, [PayNext]_allVars PROVE Authorised
      OBVIOUS
  <2>1. CASE [Next]_vars
    BY <2>1, StatusStepAuthorised DEF PayTypeOK
  <2>2. CASE OnlyBilled
    BY <2>2 DEF OnlyBilled
  <2> QED BY <2>1, <2>2, PayStepSplits
<1>2. PayTypeOK /\ StatusInv /\ [PayNext]_allVars => [Authorised]_vars
    BY <1>1
<1> QED BY <1>2, PaymentsTyped, OrdersWithPayments, PTL DEF PaySafety, StatusChangeAuthorised
=============================================================================
