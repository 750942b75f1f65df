---------------------------- MODULE ProductTable ----------------------------
(***************************************************************************)
(* The "products" table as the rest of the marketplace sees it: one row    *)
(* per product, changed by the single database statement that ends         *)
(* ProductsService.create, update and remove.  The checks that precede     *)
(* the statement (ownership, findOne) are separate awaits, so an update    *)
(* may reach a row that was soft-deleted meanwhile: ProductEdit therefore  *)
(* does not look at isDeleted.                                             *)
(*                                                                         *)
(* Prices are integers, in thousandths of a pound: the DTO accepts any     *)
(* number of decimals.                                                     *)
(***************************************************************************)
EXTENDS Integers

CONSTANTS
    Products,   \* product ids
    Shops,      \* shop ids
    ShopOf,     \* the shop a product is created in; no statement changes it
    Prices,     \* the prices merchants choose from
    MaxEdits,   \* bound: statements on the table
    None        \* an absent row or reference

ASSUME ProductAssumption ==
    /\ ShopOf \in [Products -> Shops]
    /\ Prices \subseteq Nat
    /\ MaxEdits \in Nat

VARIABLES
    products,   \* products[p]: the row of p, None before it is created
    offered,    \* history: the <<product, price>> pairs that were on sale
    edits       \* statements so far

tableVars == <<products, offered, edits>>

ProductRow == [price: Prices, isAvailable: BOOLEAN, isDeleted: BOOLEAN]

(* The where clause of OrdersService.create: isDeleted false, isAvailable true. *)
OnSale(row) == row # None /\ row.isAvailable /\ ~row.isDeleted

TableTypeOK ==
    /\ products \in [Products -> ProductRow \union {None}]
    /\ offered \subseteq Products \X Prices
    /\ edits \in 0..MaxEdits

TableInit ==
    /\ products = [p \in Products |-> None]
    /\ offered = {}
    /\ edits = 0

WriteRow(p, row) ==
    /\ edits < MaxEdits
    /\ edits' = edits + 1
    /\ products' = [products EXCEPT ![p] = row]
    /\ offered' = IF OnSale(row) THEN offered \union {<<p, row.price>>} ELSE offered

ProductCreate(p, price, available) ==
    /\ products[p] = None
    /\ WriteRow(p, [price |-> price, isAvailable |-> available, isDeleted |-> FALSE])

ProductEdit(p, price, available) ==
    /\ products[p] # None
    /\ WriteRow(p, [products[p] EXCEPT !.price = price, !.isAvailable = available])

ProductRemove(p) ==
    /\ products[p] # None
    /\ WriteRow(p, [products[p] EXCEPT !.isDeleted = TRUE, !.isAvailable = FALSE])

TableNext ==
    \E p \in Products :
        \/ \E price \in Prices, available \in BOOLEAN :
               ProductCreate(p, price, available) \/ ProductEdit(p, price, available)
        \/ ProductRemove(p)

TableSpec == TableInit /\ [][TableNext]_tableVars
=============================================================================
