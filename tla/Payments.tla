------------------------------ MODULE Payments ------------------------------
(***************************************************************************)
(* PaymentsService on top of Orders: initiatePayment, which asks Paymob    *)
(* for a payment key, and handleWebhook, which records the transactions    *)
(* Paymob reports.  The two share nothing but the row of the order and     *)
(* Redis; Paymob itself is external, modelled from what the code sends it  *)
(* and what its webhook accepts.                                           *)
(*                                                                         *)
(* Paymob may report a transaction again at any time, also while an        *)
(* earlier report of it is still being handled, and does so until one      *)
(* report is answered with 200.                                            *)
(***************************************************************************)
EXTENDS Orders

CONSTANTS
    PayRequests,  \* slots for POST /orders/:id/pay/paymob in flight
    Attempts,     \* bound: reports of one transaction in flight together
    TiesUp        \* totals at half a piastre that the rounding rounds up

VARIABLES
    pay,        \* pay[p]: the initiation in slot p, None when it is free
    keys,       \* external: <<order, amount>> of the payment keys issued
    txs,        \* external: txs[t], None before the customer pays
    acked,      \* external: transactions of which a report was answered 200
    processed,  \* Redis: transactions with a paymob:processed key
    hooks       \* hooks[t][a]: where handleWebhook resumes, "idle" if it runs not

payVars == <<pay, keys, txs, acked, processed, hooks>>
allVars == <<vars, payVars>>

-----------------------------------------------------------------------------
(* Math.round(totalAmount * 100), with totals in thousandths of a pound.  The *)
(* product is a double: whether a total at half a piastre goes up depends on *)
(* the double that stands for it (1.005 * 100 is below the half).           *)
AmountCents(total) == (total + IF total \in TiesUp THEN 5 ELSE 4) \div 10

Amounts == {AmountCents(total) : total \in Totals}

Initiation == [pc: {"token", "register", "key"}, order: OrderIds, amount: Amounts]

Transaction == [order: OrderIds, amount: Amounts, state: {"pending", "declined", "captured"}]

HookPc == {"idle", "find", "update", "mark"}

ASSUME PayAssumption == None \notin Initiation \union Transaction

MayPay(u, row) == row.resident = u /\ row.method = "PAYMOB"

PayRead(p, u, o) ==
    /\ pay[p] = None
    /\ Listed(o)
    /\ MayPay(u, orders[o])
    /\ pay' = [pay EXCEPT ![p] = [pc |-> "token", order |-> o,
                                  amount |-> AmountCents(orders[o].total)]]
    /\ UNCHANGED <<vars, keys, txs, acked, processed, hooks>>

(* The three fetches: token, order, key. *)
PayToken(p) ==
    /\ pay[p] # None /\ pay[p].pc = "token"
    /\ pay' = [pay EXCEPT ![p].pc = "register"]
    /\ UNCHANGED <<vars, keys, txs, acked, processed, hooks>>

PayRegister(p) ==
    /\ pay[p] # None /\ pay[p].pc = "register"
    /\ pay' = [pay EXCEPT ![p].pc = "key"]
    /\ UNCHANGED <<vars, keys, txs, acked, processed, hooks>>

PayKey(p) ==
    /\ pay[p] # None /\ pay[p].pc = "key"
    /\ keys' = keys \union {<<pay[p].order, pay[p].amount>>}
    /\ pay' = [pay EXCEPT ![p] = None]
    /\ UNCHANGED <<vars, txs, acked, processed, hooks>>

(* A fetch that fails or is answered with an error ends the request: 502. *)
PayRefused(p) ==
    /\ pay[p] # None
    /\ pay' = [pay EXCEPT ![p] = None]
    /\ UNCHANGED <<vars, keys, txs, acked, processed, hooks>>

-----------------------------------------------------------------------------
(* The customer pays with a key.  A key lives for an hour; since nothing    *)
(* obliges the customer to pay, its expiry needs no step of its own.        *)
Charge(t, k, state) ==
    /\ txs[t] = None
    /\ k \in keys
    /\ txs' = [txs EXCEPT ![t] = [order |-> k[1], amount |-> k[2], state |-> state]]
    /\ UNCHANGED <<vars, pay, keys, acked, processed, hooks>>

Resolve(t, state) ==
    /\ txs[t] # None /\ txs[t].state = "pending"
    /\ txs' = [txs EXCEPT ![t].state = state]
    /\ UNCHANGED <<vars, pay, keys, acked, processed, hooks>>

-----------------------------------------------------------------------------
(* POST /webhooks/paymob.  The signature is taken to be valid: a report      *)
(* with another one is answered 401 and changes nothing.                    *)

(* Fault: the pending flag is not looked at. *)
IsCapturedLoosely(tx) == tx.state # "declined"

(* success and not pending; other reports are answered 200 and ignored. *)
IsCaptured(tx) == tx.state = "captured"

HookAt(t, a, pc) == hooks[t][a] = pc

HookGoto(t, a, pc) == hooks' = [hooks EXCEPT ![t][a] = pc]

(* Answered 200 at once: the key of the transaction is in Redis. *)
HookSkip(t) ==
    /\ \E a \in Attempts : HookAt(t, a, "idle")
    /\ txs[t] # None
    /\ IsCaptured(txs[t])
    /\ t \in processed
    /\ acked' = acked \union {t}
    /\ UNCHANGED <<vars, pay, keys, txs, processed, hooks>>

(* Fault: the key is claimed before the order is written. *)
HookReceiveClaims(t, a) ==
    /\ HookAt(t, a, "idle")
    /\ txs[t] # None
    /\ IsCaptured(txs[t])
    /\ t \notin processed
    /\ processed' = processed \union {t}
    /\ HookGoto(t, a, "find")
    /\ UNCHANGED <<vars, pay, keys, txs, acked>>

HookReceive(t, a) ==
    /\ HookAt(t, a, "idle")
    /\ txs[t] # None
    /\ IsCaptured(txs[t])
    /\ t \notin processed
    /\ HookGoto(t, a, "find")
    /\ UNCHANGED <<vars, pay, keys, txs, acked, processed>>

(* An order already paid only has the key set again. *)
HookFind(t, a) ==
    /\ HookAt(t, a, "find")
    /\ Listed(txs[t].order)
    /\ HookGoto(t, a, IF orders[txs[t].order].isPaid THEN "mark" ELSE "update")
    /\ UNCHANGED <<vars, pay, keys, txs, acked, processed>>

HookUpdate(t, a) ==
    LET o == txs[t].order
    IN  /\ HookAt(t, a, "update")
        /\ Listed(o)
        /\ orders' = [orders EXCEPT ![o] = [@ EXCEPT !.isPaid = TRUE, !.paymobRef = t]]
        /\ HookGoto(t, a, "mark")
        /\ UNCHANGED <<tableVars, req, held, crossed, pushVars, worldVars,
                       pay, keys, txs, acked, processed>>

(* The order went with an account: 404, or the update fails with a 500.      *)
HookLost(t, a) ==
    /\ HookAt(t, a, "find") \/ HookAt(t, a, "update")
    /\ ~Listed(txs[t].order)
    /\ HookGoto(t, a, "idle")
    /\ UNCHANGED <<vars, pay, keys, txs, acked, processed>>

HookMark(t, a) ==
    /\ HookAt(t, a, "mark")
    /\ processed' = processed \union {t}
    /\ acked' = acked \union {t}
    /\ HookGoto(t, a, "idle")
    /\ UNCHANGED <<vars, pay, keys, txs>>

(* A call to Redis or the database rejects, or its answer is lost after it   *)
(* took effect; Paymob gets a 500.                                          *)
HookFail(t, a) ==
    /\ ~HookAt(t, a, "idle")
    /\ faults < MaxFaults
    /\ faults' = faults + 1
    /\ HookGoto(t, a, "idle")
    /\ \/ UNCHANGED processed
       \/ HookAt(t, a, "mark") /\ processed' = processed \union {t}
    /\ UNCHANGED <<tableVars, requestVars, pushVars, gone, pay, keys, txs, acked>>

(* The key goes after its 24 hours, or with the Redis instance. *)
ExpireKey(t) ==
    /\ t \in processed
    /\ processed' = processed \ {t}
    /\ UNCHANGED <<vars, pay, keys, txs, acked, hooks>>

-----------------------------------------------------------------------------
PayInit ==
    /\ Init
    /\ pay = [p \in PayRequests |-> None]
    /\ keys = {}
    /\ txs = [t \in Transactions |-> None]
    /\ acked = {}
    /\ processed = {}
    /\ hooks = [t \in Transactions |-> [a \in Attempts |-> "idle"]]

PayCrash ==
    /\ Crash
    /\ pay' = [p \in PayRequests |-> None]
    /\ hooks' = [t \in Transactions |-> [a \in Attempts |-> "idle"]]
    /\ UNCHANGED <<keys, txs, acked, processed>>

Initiate(p) ==
    \/ \E u \in Residents, o \in OrderIds : PayRead(p, u, o)
    \/ PayToken(p) \/ PayRegister(p) \/ PayKey(p) \/ PayRefused(p)

Customer(t) ==
    \/ \E k \in keys, state \in {"pending", "declined", "captured"} : Charge(t, k, state)
    \/ \E state \in {"declined", "captured"} : Resolve(t, state)

HookProceed(t, a) == HookFind(t, a) \/ HookUpdate(t, a) \/ HookLost(t, a) \/ HookMark(t, a)

Report(t) == HookSkip(t) \/ \E a \in Attempts : HookReceive(t, a)

PayStep ==
    \/ \E p \in PayRequests : Initiate(p)
    \/ \E t \in Transactions :
        \/ Customer(t) \/ Report(t) \/ ExpireKey(t)
        \/ \E a \in Attempts : HookProceed(t, a) \/ HookFail(t, a)

PayNext ==
    \/ Step /\ UNCHANGED payVars
    \/ PayCrash
    \/ PayStep

PaySafety == PayInit /\ [][PayNext]_allVars

(* The event loop resumes a handler once its call is answered, and Paymob   *)
(* reports a transaction until it is answered with 200.                     *)
Fairness ==
    \A t \in Transactions :
        /\ WF_allVars(t \notin acked /\ Report(t))
        /\ \A a \in Attempts : WF_allVars(HookProceed(t, a))

PaySpec == PaySafety /\ Fairness

-----------------------------------------------------------------------------
(* Types; and what a report may rely on: the transaction it is about was    *)
(* captured, for an order that is still in the table, as are the orders that *)
(* initiations, keys and transactions name.                                 *)
PayTypeOK ==
    /\ TypeOK
    /\ pay \in [PayRequests -> Initiation \union {None}]
    /\ keys \subseteq OrderIds \X Amounts
    /\ txs \in [Transactions -> Transaction \union {None}]
    /\ acked \subseteq Transactions
    /\ processed \subseteq Transactions
    /\ hooks \in [Transactions -> [Attempts -> HookPc]]
    /\ \A p \in PayRequests : pay[p] # None => orders[pay[p].order] # None
    /\ \A k \in keys : orders[k[1]] # None
    /\ \A t \in Transactions :
        /\ txs[t] # None => orders[txs[t].order] # None
        /\ (\E a \in Attempts : ~HookAt(t, a, "idle")) \/ t \in processed \union acked
              => txs[t] # None /\ txs[t].state = "captured"

(* Idempotency without loss: once Redis holds the key of a transaction, or   *)
(* Paymob has been told 200 and stops reporting it, its order is paid, so    *)
(* nothing is lost by skipping later reports, whatever failed, expired or    *)
(* ran concurrently before.                                                 *)
MarkedIsPaid ==
    \A t \in processed \union acked : orders[txs[t].order].isPaid

(* An order is paid only by a transaction captured for that very order, and  *)
(* of the amount of its total, although handleWebhook does not compare the   *)
(* amounts: the total an initiation read cannot change afterwards.           *)
PaidInFull ==
    \A o \in OrderIds :
        orders[o] # None /\ orders[o].isPaid =>
            \E t \in Transactions :
                /\ orders[o].paymobRef = t
                /\ txs[t] # None
                /\ txs[t].state = "captured"
                /\ txs[t].order = o
                /\ txs[t].amount = AmountCents(orders[o].total)

(* Only orders placed with method PAYMOB are ever paid online: handleWebhook *)
(* does not test the method and relies on initiatePayment having done so.    *)
PaidOnlyOnline ==
    \A o \in OrderIds :
        orders[o] # None /\ orders[o].isPaid => orders[o].method = "PAYMOB"

(* The detailed system implements Settlement: captured money is recorded     *)
(* exactly where it belongs, forever, and eventually, unless the order was   *)
(* deleted with an account.                                                 *)
CapturedPairs == {<<t, txs[t].order>> : t \in {x \in Transactions : txs[x] # None /\ txs[x].state = "captured"}}

PaidOrders == {o \in OrderIds : orders[o] # None /\ orders[o].isPaid}

DeletedOrders == {o \in OrderIds : orders[o] # None /\ orders[o].deleted}

Ledger == INSTANCE Settlement WITH
              Payers <- Transactions, Bills <- OrderIds,
              captured <- CapturedPairs, settled <- PaidOrders,
              withdrawn <- DeletedOrders

ImplementsSettlement == Ledger!SettlementSpec
=============================================================================
