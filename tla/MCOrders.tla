------------------------------ MODULE MCOrders ------------------------------
(* Instances of Orders for TLC. *)
EXTENDS Orders

CONSTANTS s1, s2, p1, p2, m1, m2

(* Two shops with one merchant and one product each. *)
MCShopOf == [p \in Products |-> IF p = p1 THEN s1 ELSE s2]
MCOwner == [s \in Shops |-> IF s = s1 THEN m1 ELSE m2]

(* Bound: only carts are filled, with any lines, while both shops edit and   *)
(* remove products at any price ...                                         *)
OnlyCarts ==
    /\ gone = {} /\ faults = 0 /\ rooms = {} /\ pending = {} /\ feed = {}
    /\ Cardinality({r \in Requests : Active(r)}) <= 1
    /\ \A r \in Requests : Active(r) => At(r, "create")
    /\ \A o \in OrderIds : held[o] \subseteq {"PLACED"}

(* ... or everything happens, to orders of one product at one price.        *)
OnePrice == CHOOSE price \in Prices : TRUE
OneProduct ==
    /\ edits <= 1
    /\ \A p \in Products : products[p] # None => p = p1 /\ products[p].price = OnePrice

CartsOrProduct == OnlyCarts \/ OneProduct

(* Slots of requests may be exchanged. *)
Symmetry == Permutations(Requests)
=============================================================================
