----------------------------- MODULE MCPayments -----------------------------
(* Instances of Payments for TLC. *)
EXTENDS Payments

CONSTANTS s1, p1, m1

(* One shop with one product. *)
MCShopOf == [p \in Products |-> s1]
MCOwner == [s \in Shops |-> m1]
=============================================================================
