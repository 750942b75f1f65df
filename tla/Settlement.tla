----------------------------- MODULE Settlement -----------------------------
(***************************************************************************)
(* What the payment integration promises: money captured by Paymob for an  *)
(* order is eventually recorded on that order unless the order is          *)
(* withdrawn, an order is recorded as paid only for money captured for it  *)
(* and while it stands, and neither is ever undone.                        *)
(***************************************************************************)
CONSTANTS Payers, Bills   \* transactions and the orders they may pay

VARIABLES
    captured,   \* <<transaction, order>> pairs whose money was taken
    settled,    \* orders recorded as paid
    withdrawn   \* orders deleted with the account of a party

settlementVars == <<captured, settled, withdrawn>>

PaidFor(b) == \E t \in Payers : <<t, b>> \in captured

SettlementInit == captured = {} /\ settled = {} /\ withdrawn = {}

Capture(t, b) ==
    /\ \A c \in captured : c[1] # t
    /\ captured' = captured \union {<<t, b>>}
    /\ UNCHANGED <<settled, withdrawn>>

Settle(b) ==
    /\ PaidFor(b)
    /\ b \notin settled \union withdrawn
    /\ settled' = settled \union {b}
    /\ UNCHANGED <<captured, withdrawn>>

Withdraw(bs) ==
    /\ withdrawn' = withdrawn \union bs
    /\ UNCHANGED <<captured, settled>>

SettlementNext ==
    \/ \E b \in Bills : Settle(b) \/ \E t \in Payers : Capture(t, b)
    \/ \E bs \in SUBSET Bills : Withdraw(bs)

SettlementSafety == SettlementInit /\ [][SettlementNext]_settlementVars

SettlementSpec == SettlementSafety /\ \A b \in Bills : WF_settlementVars(Settle(b))
=============================================================================
